----------------------------- MODULE NdnAccess -----------------------------
(***************************************************************************)
(* The NDN input path of cyfs-stack: the HTTP handler                     *)
(* (src/.../ndn_api/service/handler.rs) decodes a request, checks its      *)
(* action and hands it to the input processor chain, whose ACL stage       *)
(* (src/.../ndn_api/acl/ndn.rs, NDNAclInputProcessor) decides whether it   *)
(* reaches the next processor.  The model takes the handler's processor   *)
(* to be the ACL stage, as for requests from the network.                 *)
(*                                                                         *)
(* A request is abstracted to what the decisions read: the HTTP entry     *)
(* point, the action header or url parameter, whether every other header, *)
(* url parameter and the body length decode, the source's zone, the       *)
(* object type, the req_path, the referer objects, and the answers of the *)
(* collaborators not under src/: the global-state ACL (check_access), the *)
(* non loader (which checks the object's own access) and verify_chunk.    *)
(* The loader is a OnceCell set once by bind_non_processor.               *)
(***************************************************************************)
EXTENDS Naturals

Routes == {"put", "get", "download", "delete"}
Actions == {"PutData", "PutSharedData", "GetData", "GetSharedData",
            "QueryFile", "DeleteData"}
FileTypes == {"File", "Dir", "ObjectMap"}

Requests ==
  [route : Routes,
   action : Actions \cup {"none", "bad"},   \* header absent / undecodable
   parsed : BOOLEAN,                        \* every other `?` decode succeeds
   zone : BOOLEAN,                          \* source.is_current_zone()
   objType : FileTypes \cup {"Chunk", "Other"},
   reqPath : {"none", "ok", "bad"},         \* absent / parses / from_str fails
   referer : BOOLEAN,                       \* referer_object non-empty
   metaAllows : BOOLEAN,                    \* global_state_meta().check_access
   loadOk : BOOLEAN,                        \* loader's get_*_object succeeds
   verifyOk : BOOLEAN]                      \* verifier.verify_chunk

Fwd(op, dt) == [fwd |-> TRUE, op |-> op, dt |-> dt]
Err(code) == [fwd |-> FALSE, code |-> code]

VARIABLES
  loader,   \* NDNAclInputProcessor.loader is set
  req,      \* the request being served
  out       \* what the request produced: Fwd to the next processor or Err

vars == <<loader, req, out>>

(***************************************************************************)
(* NDNAclInputProcessor                                                    *)
(***************************************************************************)
\* fn loader(): PermissionDenied until bind_non_processor ran
Loader == IF loader THEN "ok" ELSE "PermissionDenied"

\* check_access, as on_get_chunk calls it: the same-zone shortcut is never
\* taken there (the source is outside the zone), so the global-state ACL
\* decides
CheckAccess(r) == IF r.metaAllows THEN "ok" ELSE "PermissionDenied"

\* mutant: the chunk is not checked against the referer object it came with
OnGetChunkNoVerify(r) ==
  CASE r.zone -> "ok"
    [] r.reqPath = "bad" -> "DecodeError"
    [] ~r.referer /\ r.reqPath = "none" -> "PermissionDenied"
    [] ~r.referer -> CheckAccess(r)
    [] Loader /= "ok" -> Loader
    [] ~r.loadOk -> "LoadError"
    [] OTHER -> "ok"

\* on_get_chunk: same zone passes; else req_path is parsed, then either the
\* global-state ACL on req_path, or the referer object is loaded through
\* the non and the chunk verified to belong to it
OnGetChunk(r) ==
  CASE r.zone -> "ok"
    [] r.reqPath = "bad" -> "DecodeError"
    [] ~r.referer /\ r.reqPath = "none" -> "PermissionDenied"
    [] ~r.referer -> CheckAccess(r)
    [] Loader /= "ok" -> Loader
    [] ~r.loadOk -> "LoadError"
    [] ~r.verifyOk -> "VerifyError"
    [] OTHER -> "ok"

\* on_get_file: the file object is loaded through the non (which checks it)
OnGetFile(r) ==
  CASE Loader /= "ok" -> Loader
    [] ~r.loadOk -> "LoadError"
    [] OTHER -> "ok"

\* put_data, delete_data, query_file: only within the zone
ZoneOnly(r, op, dt) == IF r.zone THEN Fwd(op, dt) ELSE Err("PermissionDenied")

AclPutData(r, dt) == ZoneOnly(r, "put", dt)
AclDeleteData(r) == ZoneOnly(r, "delete", "none")
AclQueryFile(r) == ZoneOnly(r, "query", "none")

\* get_data: by object type
AclGetData(r, dt) ==
  LET res == CASE r.objType = "Chunk" -> OnGetChunk(r)
               [] r.objType \in FileTypes -> OnGetFile(r)
               [] OTHER -> "UnSupport"
  IN IF res = "ok" THEN Fwd("get", dt) ELSE Err(res)

(***************************************************************************)
(* NDNRequestHandler                                                       *)
(***************************************************************************)
\* decode_action: the action header, else the entry point's default
DecodeAction(r, default) ==
  CASE r.action = "bad" -> "bad"
    [] r.action = "none" -> default
    [] OTHER -> r.action

DataType(a) == IF a \in {"PutSharedData", "GetSharedData"} THEN "SharedMem" ELSE "Mem"

\* process_put_data_request / on_put_data
OnPutData(r) ==
  LET a == DecodeAction(r, "PutData") IN
  CASE a = "bad" -> Err("DecodeError")
    [] a \notin {"PutData", "PutSharedData"} -> Err("InvalidData")
    [] ~r.parsed -> Err("DecodeError")
    [] OTHER -> AclPutData(r, DataType(a))

\* mutant: on_get_data forwards whatever action it was given
OnGetDataAnyAction(r, a) ==
  CASE ~r.parsed -> Err("DecodeError")
    [] OTHER -> AclGetData(r, DataType(a))

\* on_get_data
OnGetData(r, a) ==
  CASE a \notin {"GetData", "GetSharedData"} -> Err("InvalidData")
    [] ~r.parsed -> Err("DecodeError")
    [] OTHER -> AclGetData(r, DataType(a))

\* on_query_file / decode_query_request (type and value are in `parsed`)
OnQueryFile(r) ==
  IF ~r.parsed THEN Err("DecodeError") ELSE AclQueryFile(r)

\* process_get_request: QueryFile goes to the query path, the rest to get
ProcessGetRequest(r) ==
  LET a == DecodeAction(r, "GetData") IN
  CASE a = "bad" -> Err("DecodeError")
    [] a = "QueryFile" -> OnQueryFile(r)
    [] OTHER -> OnGetData(r, a)

\* process_download_data_request / on_download_data: the action is a url
\* parameter decoded with the others; only GetData, always as Mem
OnDownloadData(r) ==
  CASE r.action = "bad" -> Err("DecodeError")
    [] r.action \notin {"none", "GetData"} -> Err("InvalidData")
    [] ~r.parsed -> Err("DecodeError")
    [] OTHER -> AclGetData(r, "Mem")

\* process_delete_data_request / on_delete_data
OnDeleteData(r) ==
  LET a == DecodeAction(r, "DeleteData") IN
  CASE a = "bad" -> Err("DecodeError")
    [] a /= "DeleteData" -> Err("InvalidData")
    [] ~r.parsed -> Err("DecodeError")
    [] OTHER -> AclDeleteData(r)

Serve(r) ==
  CASE r.route = "put" -> OnPutData(r)
    [] r.route = "get" -> ProcessGetRequest(r)
    [] r.route = "download" -> OnDownloadData(r)
    [] OTHER -> OnDeleteData(r)

(***************************************************************************)
(* Steps                                                                   *)
(***************************************************************************)
\* bind_non_processor, called once when the stack wires NON and NDN (a
\* second call reaches unreachable!())
BindNonProcessor ==
  /\ ~loader
  /\ loader' = TRUE
  /\ UNCHANGED <<req, out>>

\* the request is served (again: a client may repeat it at any time)
Handle ==
  /\ out' = Serve(req)
  /\ UNCHANGED <<loader, req>>

Init ==
  /\ loader = FALSE
  /\ req \in Requests
  /\ out = Err("pending")

Next == BindNonProcessor \/ Handle

Spec == Init /\ [][Next]_vars

-----------------------------------------------------------------------------
\* the operation and data type the request's action asks for
ActionOp == [PutData |-> "put", PutSharedData |-> "put", GetData |-> "get",
             GetSharedData |-> "get", QueryFile |-> "query",
             DeleteData |-> "delete"]
RouteDefault == [put |-> "PutData", get |-> "GetData",
                 download |-> "GetData", delete |-> "DeleteData"]
Asked(r) == IF r.action = "none" THEN RouteDefault[r.route] ELSE r.action

(* What reaches the processor after the ACL is what the client asked for:  *)
(* the action header (or the entry point's default) decides the operation *)
(* and the Mem / SharedMem data type, so no entry point turns a request    *)
(* into another operation, and the download entry point never hands out   *)
(* shared memory.                                                          *)
ForwardedAsAsked ==
  out.fwd =>
    /\ req.action /= "bad"
    /\ out.op = ActionOp[Asked(req)]
    /\ out.op \in {"get", "put"} => out.dt = DataType(Asked(req))
    /\ req.route = "download" => out.dt = "Mem"

(* A request from outside the zone reaches the next processor only after  *)
(* something vouched for the object: for a chunk, the global-state ACL on *)
(* its req_path, or the referer object loaded through the non and the     *)
(* chunk verified to belong to it; for a file, dir or object map, its load *)
(* through the non.  Put, delete and query never come from outside.       *)
OutsideZoneVouched ==
  (out.fwd /\ ~req.zone) =>
    /\ out.op = "get"
    /\ \/ req.objType \in FileTypes /\ req.loadOk /\ loader
       \/ /\ req.objType = "Chunk"
          /\ \/ ~req.referer /\ req.reqPath = "ok" /\ req.metaAllows
             \/ req.referer /\ req.loadOk /\ req.verifyOk /\ loader
=============================================================================
