--------------------------- MODULE ContextManager ---------------------------
(***************************************************************************)
(* ContextManager of cyfs-stack (src/.../ndn_api/context/manager.rs): the *)
(* cache of trans contexts in front of the named-object cache (noc).       *)
(*   get_context     cache lookup under the mutex; on a miss, load from    *)
(*                   the noc (await), build the item (await), insert it    *)
(*   put_context     save to the noc (await), build the item, insert it    *)
(*   search_context  get_context on the path, then on its ancestors        *)
(* The LRU (capacity 128, 10 minute expiry) may drop any entry at any      *)
(* time.  A context id is TransContext::gen_context_id(dec, path): ids are *)
(* the paths on the way from SearchPath up to "/" (<<>>), for one dec.     *)
(* A context's content is abstracted to a version; the device lookups of   *)
(* new_item change no state of the manager.                                *)
(***************************************************************************)
EXTENDS Naturals, Sequences

CONSTANTS
  SearchPath,   \* the path search_context is called with, as segments
  Versions,     \* contents a TransContext object may have
  Getters,      \* concurrent get_context calls (model values)
  Putters,      \* concurrent put_context calls (model values)
  NocMayFail,   \* may noc.put_object fail
  None          \* model value: no context

Ids == {SubSeq(SearchPath, 1, k) : k \in 0 .. Len(SearchPath)}

VARIABLES
  noc,     \* the noc: id -> stored version or None
  cache,   \* the LRU: id -> cached version or None
  saved,   \* history: <<id, version>> pairs put_context stored in the noc
  gpc, gid, gload,   \* get_context calls: step, id, version loaded
  ppc, pid, pver,    \* put_context calls: step, id, version
  spc, cur           \* search_context: step and current_path

vars == <<noc, cache, saved, gpc, gid, gload, ppc, pid, pver, spc, cur>>

(***************************************************************************)
(* get_context                                                             *)
(***************************************************************************)
\* notify_get under the mutex: a hit returns, a miss goes to the noc
GetLookup(c, id) ==
  /\ gpc[c] = "idle"
  /\ gid' = [gid EXCEPT ![c] = id]
  /\ gpc' = [gpc EXCEPT ![c] = IF cache[id] /= None THEN "idle" ELSE "load"]
  /\ UNCHANGED <<noc, cache, saved, gload, ppc, pid, pver, spc, cur>>

\* load_context_from_noc: not found or an error returns None
GetLoad(c) ==
  /\ gpc[c] = "load"
  /\ IF noc[gid[c]] = None
     THEN /\ gpc' = [gpc EXCEPT ![c] = "idle"]
          /\ UNCHANGED gload
     ELSE /\ gload' = [gload EXCEPT ![c] = noc[gid[c]]]
          /\ gpc' = [gpc EXCEPT ![c] = "update"]
  /\ UNCHANGED <<noc, cache, saved, gid, ppc, pid, pver, spc, cur>>

\* after new_item: update_context, notify_insert replacing any entry
GetUpdate(c) ==
  /\ gpc[c] = "update"
  /\ cache' = [cache EXCEPT ![gid[c]] = gload[c]]
  /\ gpc' = [gpc EXCEPT ![c] = "idle"]
  /\ UNCHANGED <<noc, saved, gid, gload, ppc, pid, pver, spc, cur>>

(***************************************************************************)
(* put_context                                                             *)
(***************************************************************************)
\* mutant: an error of noc.put_object is not propagated
PutNocIgnoreError(c, id, v) ==
  /\ ppc[c] = "idle"
  /\ pid' = [pid EXCEPT ![c] = id]
  /\ pver' = [pver EXCEPT ![c] = v]
  /\ \/ /\ noc' = [noc EXCEPT ![id] = v]
        /\ saved' = saved \cup {<<id, v>>}
     \/ /\ NocMayFail
        /\ UNCHANGED <<noc, saved>>
  /\ ppc' = [ppc EXCEPT ![c] = "update"]
  /\ UNCHANGED <<cache, gpc, gid, gload, spc, cur>>

\* noc.put_object(..).await; an error returns Err before the cache is touched
PutNoc(c, id, v) ==
  /\ ppc[c] = "idle"
  /\ pid' = [pid EXCEPT ![c] = id]
  /\ pver' = [pver EXCEPT ![c] = v]
  /\ \/ /\ noc' = [noc EXCEPT ![id] = v]
        /\ saved' = saved \cup {<<id, v>>}
        /\ ppc' = [ppc EXCEPT ![c] = "update"]
     \/ /\ NocMayFail
        /\ UNCHANGED <<noc, saved, ppc>>
  /\ UNCHANGED <<cache, gpc, gid, gload, spc, cur>>

\* after new_item: update_context
PutUpdate(c) ==
  /\ ppc[c] = "update"
  /\ cache' = [cache EXCEPT ![pid[c]] = pver[c]]
  /\ ppc' = [ppc EXCEPT ![c] = "idle"]
  /\ UNCHANGED <<noc, saved, gpc, gid, gload, pid, pver, spc, cur>>

\* environment: the LRU drops an entry (capacity or expiry)
Evict(id) ==
  /\ cache[id] /= None
  /\ cache' = [cache EXCEPT ![id] = None]
  /\ UNCHANGED <<noc, saved, gpc, gid, gload, ppc, pid, pver, spc, cur>>

(***************************************************************************)
(* search_context: one iteration of the loop.  get_context(current_path)  *)
(* is taken as one step (a noc hit is inserted into the cache); then "/"  *)
(* ends the search, else current_path becomes the part of path before its *)
(* last '/' ("" meaning "/").  The split is of path, not of current_path. *)
(***************************************************************************)
Parent(p) == SubSeq(p, 1, Len(p) - 1)

SearchStep ==
  /\ spc = "loop"
  /\ \/ /\ cache[cur] /= None
        /\ spc' = "done"
        /\ UNCHANGED <<cache, cur>>
     \/ /\ cache[cur] = None /\ noc[cur] /= None
        /\ cache' = [cache EXCEPT ![cur] = noc[cur]]
        /\ spc' = "done"
        /\ UNCHANGED cur
     \/ /\ cache[cur] = None /\ noc[cur] = None
        /\ IF cur = <<>>
           THEN spc' = "done" /\ UNCHANGED cur
           ELSE cur' = Parent(SearchPath) /\ UNCHANGED spc
        /\ UNCHANGED cache
  /\ UNCHANGED <<noc, saved, gpc, gid, gload, ppc, pid, pver>>

Init ==
  /\ noc = [id \in Ids |-> None]
  /\ cache = [id \in Ids |-> None]
  /\ saved = {}
  /\ gpc = [c \in Getters |-> "idle"]
  /\ gid = [c \in Getters |-> SearchPath]
  /\ gload = [c \in Getters |-> None]
  /\ ppc = [c \in Putters |-> "idle"]
  /\ pid = [c \in Putters |-> SearchPath]
  /\ pver = [c \in Putters |-> None]
  /\ spc = "loop"
  /\ cur = SearchPath

Next ==
  \/ \E c \in Getters : (\E id \in Ids : GetLookup(c, id)) \/ GetLoad(c) \/ GetUpdate(c)
  \/ \E c \in Putters : (\E id \in Ids, v \in Versions : PutNoc(c, id, v)) \/ PutUpdate(c)
  \/ \E id \in Ids : Evict(id)
  \/ SearchStep

\* the search task is polled while it can step; no put is assumed to come
Spec == Init /\ [][Next]_vars /\ WF_vars(SearchStep)

-----------------------------------------------------------------------------
Quiescent ==
  (\A c \in Getters : gpc[c] = "idle") /\ (\A c \in Putters : ppc[c] = "idle")

(* Only contexts that reached the noc are cached: put_context inserts into *)
(* the cache only after noc.put_object succeeded, and get_context only     *)
(* what it loaded from the noc.                                            *)
CachedWasPersisted ==
  \A id \in Ids : cache[id] /= None => <<id, cache[id]>> \in saved

(* When no call is in flight, a cached context is the one the noc holds:  *)
(* a get_context that loaded before a put_context never overwrites the    *)
(* put's newer entry with the version it loaded.                           *)
CacheMatchesNoc ==
  Quiescent => \A id \in Ids : cache[id] \in {None, noc[id]}

(* search_context returns: it walks from the path up to "/" and stops at  *)
(* the first context found or at "/".                                     *)
SearchTerminates == <>(spc = "done")
=============================================================================
