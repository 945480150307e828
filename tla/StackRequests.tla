--------------------------- MODULE StackRequests ---------------------------
(***************************************************************************)
(* The request paths of cyfs-stack that end in the NDN ACL: the NDN HTTP  *)
(* handler (NdnAccess) and the front service with its app service         *)
(* (FrontService).  Both share the ACL stage and its once-set loader; a   *)
(* state serves one request of either kind, again and again, while the    *)
(* loader is bound and apps are installed.                                *)
(***************************************************************************)
CONSTANTS Decs, AppNames, Dirs, Versions, NameMayChange, NonInnerChunk, None

VARIABLES loader, req, out, appNames, appCache

vars == <<loader, req, out, appNames, appCache>>

NA == INSTANCE NdnAccess
FS == INSTANCE FrontService

Init ==
  /\ loader = FALSE
  /\ req \in NA!Requests \cup FS!FrontRequests
  /\ out = NA!Err("pending")
  /\ appNames = [n \in AppNames |-> None]
  /\ appCache = [n \in AppNames |-> None]

Next ==
  \/ NA!BindNonProcessor /\ UNCHANGED <<appNames, appCache>>
  \/ req \in NA!Requests /\ NA!Handle /\ UNCHANGED <<appNames, appCache>>
  \/ FS!ServeFront
  \/ /\ req \in FS!FrontRequests
     /\ \E n \in AppNames, d \in Decs \cup {None} : FS!RegisterApp(n, d)

Spec == Init /\ [][Next]_vars

-----------------------------------------------------------------------------
(* NDN HTTP requests reach the processor after the ACL as the client      *)
(* asked for them (NdnAccess!ForwardedAsAsked).                           *)
ForwardedAsAsked == req \in NA!Requests => NA!ForwardedAsAsked

(* An NDN HTTP request from outside the zone is forwarded only once       *)
(* something vouched for its object (NdnAccess!OutsideZoneVouched).       *)
OutsideZoneVouched == req \in NA!Requests => NA!OutsideZoneVouched

AppServesInstalledDir == FS!AppServesInstalledDir

(* Front a requests by name are served from the app /app/names names now  *)
(* (FrontService!AppNameCurrent).                                          *)
AppNameCurrent == FS!AppNameCurrent
=============================================================================
