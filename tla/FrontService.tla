---------------------------- MODULE FrontService ----------------------------
(***************************************************************************)
(* The front service of cyfs-stack (src/.../front/service.rs) and the app *)
(* service it asks for an app's directories (src/.../app/service.rs).      *)
(*   process_o_request  an object by id: a chunk goes to NDN get_data, any *)
(*                      other object is read from the NON and, in data     *)
(*                      mode, its file data from NDN get_data              *)
(*   process_r_request  the same, for the object at a global-state path   *)
(*   process_a_request  an app's web dir or local status, found through   *)
(*                      AppService, served as an o request                  *)
(* The NDN get_data of the front enters the NDN input chain, whose ACL     *)
(* stage (NdnAccess) decides it: the front sends no req_path and no        *)
(* referer.  The answers of the NON, the global state, the ood resolver    *)
(* and the root-state paths of the apps are fields of the request; the     *)
(* app name cache and the /app/names entries are state.                    *)
(***************************************************************************)
EXTENDS Naturals

CONSTANTS
  Decs,           \* dec ids of apps (model values)
  AppNames,       \* app names a request may use (model values)
  Dirs,           \* web dir object ids (model values)
  Versions,       \* version names a request may ask for (model values)
  NameMayChange,  \* may /app/names/{name} be rewritten or removed
  NonInnerChunk,  \* may the NON answer an inner path with a chunk
  None            \* model value: no entry

VARIABLES loader, req, out, appNames, appCache

NA == INSTANCE NdnAccess

ObjTypes == NA!FileTypes \cup {"Chunk", "Other"}
Modes == {"Object", "Data", "Default"}
\* req.target given, or the ood resolver's answer: a list, empty, an error
Targets == {"given", "resolved", "none", "err"}
\* the root-state operation that fails, if any
StateFails == {"none", "name", "dir"}

\* answer: type of the object the NON or the global state answered with;
\* found: that answer is Ok
ORequests ==
  {r \in [kind : {"o"}, idType : ObjTypes, innerPath : BOOLEAN,
          answer : ObjTypes, mode : Modes, target : Targets,
          zone : BOOLEAN, loadOk : BOOLEAN, found : BOOLEAN] :
     /\ r.idType = "Chunk" => r.answer = "Chunk" /\ ~r.innerPath
     /\ ~r.innerPath => r.answer = r.idType
     /\ (r.idType /= "Chunk" /\ r.answer = "Chunk") => NonInnerChunk}
RRequests ==
  [kind : {"r"}, answer : ObjTypes, mode : Modes, target : Targets,
   zone : BOOLEAN, loadOk : BOOLEAN, found : BOOLEAN]
\* ver: Current, DirID(d) or Version(v); verDir[dec][seg]: the root-state
\* entry /app/{dec}/versions/{seg}
VerSegs == {"current"} \cup Versions
ARequests ==
  [kind : {"a"}, goal : {"web"}, dec : Decs \cup AppNames,
   ver : {"current"} \cup Dirs \cup Versions,
   verDir : [Decs -> [VerSegs -> Dirs \cup {None}]],
   stateFails : StateFails, mode : Modes, target : Targets]
  \cup
  [kind : {"a"}, goal : {"local"}, dec : Decs \cup AppNames,
   localStatus : [Decs -> {"status", None}], stateFails : StateFails,
   mode : Modes, target : Targets]
FrontRequests == ORequests \cup RRequests \cup ARequests

\* a served request: the object and the data it carries ("none" if absent),
\* the object id asked for and the dec it was found through
Resp(obj, data, of, dec) ==
  [fwd |-> TRUE, object |-> obj, data |-> data, of |-> of, dec |-> dec]
Panic == NA!Err("Panic")

vars == <<loader, req, out, appNames, appCache>>

IsDataModeValid(t) == t \in {"File", "Chunk"}

\* select_mode
SelectMode(mode, t) ==
  CASE mode = "Object" -> IF t = "Chunk" THEN "NotSupport" ELSE "Object"
    [] mode = "Data" -> IF IsDataModeValid(t) THEN "Data" ELSE "NotSupport"
    [] OTHER -> IF IsDataModeValid(t) THEN "Data" ELSE "Object"

\* ndn.get_data with the front's common: Router level, no req_path, no
\* referer, data type Mem
NdnGetData(r, t) ==
  NA!AclGetData([zone |-> r.zone, objType |-> t, reqPath |-> "none",
                 referer |-> FALSE, metaAllows |-> FALSE,
                 loadOk |-> r.loadOk, verifyOk |-> FALSE], "Mem")

\* process_get_chunk: the target is req.target or none, never resolved
ProcessGetChunk(r) == NdnGetData(r, "Chunk")

\* process_get_file: assert the object is a file; without a target,
\* resolve_target_from_file, whose error is returned
ProcessGetFile(r, t) ==
  CASE t /= "File" -> Panic
    [] r.target = "err" -> NA!Err("ResolveError")
    [] OTHER -> NdnGetData(r, "File")

\* the object is served as the selected mode asks
ServeByMode(r, t, of, dec) ==
  LET m == SelectMode(r.mode, t)
      d == ProcessGetFile(r, t)
  IN CASE m = "NotSupport" -> NA!Err("NotSupport")
       [] m = "Object" -> Resp(t, "none", of, dec)
       [] d.fwd -> Resp(t, "File", of, dec)
       [] OTHER -> d

\* a chunk: select_mode, assert_eq!(mode, Data), process_get_chunk
ServeChunk(r, obj, of, dec) ==
  LET m == SelectMode(r.mode, "Chunk")
      d == ProcessGetChunk(r)
  IN CASE m = "NotSupport" -> NA!Err("NotSupport")
       [] m /= "Data" -> Panic
       [] d.fwd -> Resp(obj, "Chunk", of, dec)
       [] OTHER -> d

\* process_o_request; process_get_object resolves a missing target but
\* ignores the resolver's error, and returns the NON's
ProcessORequest(r, of, dec) ==
  CASE r.idType = "Chunk" -> ServeChunk(r, "none", of, dec)
    [] ~r.found -> NA!Err("NonError")
    [] OTHER -> ServeByMode(r, r.answer, of, dec)

\* process_r_request: the global state's answer decides the branch
ProcessRRequest(r) ==
  CASE ~r.found -> NA!Err("StateError")
    [] r.answer = "Chunk" -> ServeChunk(r, "Chunk", "req", None)
    [] OTHER -> ServeByMode(r, r.answer, "req", None)

(***************************************************************************)
(* AppService: each call returns [err, val, cache], cache being the name  *)
(* cache after the call                                                    *)
(***************************************************************************)
AppOk(v, cache) == [err |-> "none", val |-> v, cache |-> cache]
AppErr(e, cache) == [err |-> e, val |-> None, cache |-> cache]

\* search_app_by_name: /app/names/{name}; a hit is cached
SearchAppByName(r, n) ==
  CASE r.stateFails = "name" -> AppErr("StateError", appCache)
    [] appNames[n] = None -> AppErr("NotFound", appCache)
    [] OTHER -> AppOk(appNames[n], [appCache EXCEPT ![n] = appNames[n]])

\* get_app / get_app_by_name: a dec id as is, a name from the cache first
GetApp(r) ==
  CASE r.dec \in Decs -> AppOk(r.dec, appCache)
    [] appCache[r.dec] /= None -> AppOk(appCache[r.dec], appCache)
    [] OTHER -> SearchAppByName(r, r.dec)

\* the path segment of ver_seg: Current and DirID read "current"
VerSeg(v) == IF v \in Versions THEN v ELSE "current"

\* mutant: a DirID request is served from the current dir whatever it is
SearchAppWebDirNoMatch(r, d) ==
  CASE r.stateFails = "dir" -> "StateError"
    [] r.verDir[d][VerSeg(r.ver)] = None -> None
    [] OTHER -> r.verDir[d][VerSeg(r.ver)]

\* search_app_web_dir: /app/{dec}/versions/{ver_seg}; a DirID that is not
\* the current dir is NotInstalled
SearchAppWebDir(r, d) ==
  CASE r.stateFails = "dir" -> "StateError"
    [] r.verDir[d][VerSeg(r.ver)] = None -> None
    [] r.ver \in Dirs /\ r.ver /= r.verDir[d][VerSeg(r.ver)] -> None
    [] OTHER -> r.verDir[d][VerSeg(r.ver)]

\* search_local_status: /app/{dec}/local_status
SearchLocalStatus(r, d) ==
  CASE r.stateFails = "dir" -> "StateError"
    [] OTHER -> r.localStatus[d]

\* get_app_web_dir / get_app_local_status
AppLookup(r) ==
  LET app == GetApp(r)
      v == IF r.goal = "web" THEN SearchAppWebDir(r, app.val)
           ELSE SearchLocalStatus(r, app.val)
  IN CASE app.err /= "none" -> app
       [] v = "StateError" -> AppErr(v, app.cache)
       [] v = None -> AppErr("NotInstalled", app.cache)
       [] OTHER -> [err |-> "none", val |-> <<app.val, v>>, cache |-> app.cache]

\* the o request process_a_request builds: the web dir with the web inner
\* path (a file), or the local status object; req.target and req.mode
ARequestObject(r) ==
  [kind |-> "o", idType |-> IF r.goal = "web" THEN "Dir" ELSE "Other",
   innerPath |-> r.goal = "web",
   answer |-> IF r.goal = "web" THEN "File" ELSE "Other",
   mode |-> r.mode, target |-> r.target, zone |-> TRUE, loadOk |-> TRUE,
   found |-> TRUE]

\* process_a_request: [out, cache]
ProcessARequest(r) ==
  LET app == AppLookup(r) IN
  [out |-> IF app.err /= "none" THEN NA!Err(app.err)
           ELSE ProcessORequest(ARequestObject(r), app.val[2], app.val[1]),
   cache |-> app.cache]

(***************************************************************************)
(* Steps                                                                   *)
(***************************************************************************)
\* the front serves its request (again: a client may repeat it)
ServeFront ==
  /\ req \in FrontRequests
  /\ CASE req.kind = "o" -> out' = ProcessORequest(req, "req", None)
                            /\ UNCHANGED appCache
       [] req.kind = "r" -> out' = ProcessRRequest(req) /\ UNCHANGED appCache
       [] OTHER -> LET res == ProcessARequest(req) IN
                   out' = res.out /\ appCache' = res.cache
  /\ UNCHANGED <<loader, req, appNames>>

\* environment: the app manager writes /app/names/{name} on install; with
\* NameMayChange a name may also be taken over by another dec or removed
RegisterApp(n, d) ==
  /\ appNames[n] /= d
  /\ appNames[n] = None \/ NameMayChange
  /\ appNames' = [appNames EXCEPT ![n] = d]
  /\ UNCHANGED <<loader, req, out, appCache>>

Init ==
  /\ loader = FALSE
  /\ req \in FrontRequests
  /\ out = NA!Err("pending")
  /\ appNames = [n \in AppNames |-> None]
  /\ appCache = [n \in AppNames |-> None]

Next ==
  \/ NA!BindNonProcessor /\ UNCHANGED <<appNames, appCache>>
  \/ ServeFront
  \/ \E n \in AppNames, d \in Decs \cup {None} : RegisterApp(n, d)

Spec == Init /\ [][Next]_vars

-----------------------------------------------------------------------------
\* the type of the object the request was answered with
AnsweredType(r) == IF r.kind = "o" /\ r.idType = "Chunk" THEN "Chunk" ELSE r.answer

AppServed(o, names) ==
  req \in ARequests =>
    /\ o.fwd =>
         /\ req.dec \in Decs => o.dec = req.dec
         /\ req.goal = "web" =>
              /\ o.of = req.verDir[o.dec][VerSeg(req.ver)]
              /\ req.ver \in Dirs => o.of = req.ver
         /\ req.goal = "local" => o.of = req.localStatus[o.dec]
    /\ o = NA!Err("NotFound") => req.dec \in AppNames /\ names[req.dec] = None

(* Every a request the front serves is served from the web dir the root   *)
(* state holds now for the dec it resolved (its current dir, or the dir   *)
(* of the version asked for), a DirID request only from that very dir and *)
(* a dec id request from that dec; NotFound for a name means the name is  *)
(* not registered now, although /app/names may be rewritten and removed  *)
(* while AppService answers names from a cache it never invalidates.      *)
AppServesInstalledDir == [][ServeFront => AppServed(out', appNames')]_vars

(* A name is resolved to the app /app/names names now (app/service.rs:163 *)
(* answers from a cache filled on an earlier request and never refreshed).*)
AppNameCurrent ==
  [][ServeFront /\ req \in ARequests /\ req.dec \in AppNames /\ out'.fwd
       => out'.dec = appNames'[req.dec]]_vars
=============================================================================
