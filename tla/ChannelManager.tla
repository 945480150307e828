--------------------------- MODULE ChannelManager ---------------------------
(***************************************************************************)
(* ChannelManager of cyfs-bdt (src/.../ndn/channel/manager.rs): the        *)
(* registry of one Channel per remote device, its command receive loop and *)
(* the aggregate download speed.  The registry and the speeds sit under    *)
(* one RwLock.  create_channel first creates the remote's tunnel container *)
(* (no lock), then gets-or-inserts the channel under the write lock,       *)
(* seeding its speed with history.average() / (entries.len() + 1).         *)
(* recv_command, a spawned loop, routes each datagram to channel_of(src)  *)
(* or creates the channel from tunnel_manager().container_of(src).unwrap().*)
(*                                                                         *)
(* Channel and HistorySpeed are not under src/: a channel is an id with a  *)
(* seeded speed, its calc_speed/session counts are chosen by the           *)
(* environment at each tick, and HistorySpeed is modelled from spec.md 3   *)
(* as a smoothing by halves.  Both directions are modelled: each has its  *)
(* history, current speed and session flag, and a channel gets a seed of *)
(* each.                                                                   *)
(***************************************************************************)
EXTENDS Naturals, FiniteSets, Functions

CONSTANTS
  Peers,       \* remote devices (model values)
  Creators,    \* concurrent outbound create_channel calls (model values)
  MaxSpeed,    \* bound of a channel's calc_speed
  MaxIds       \* bound of the channel id counter

NoChannel == 0
\* the two directions of Channels' speeds
Dirs == {"download", "upload"}

VARIABLES
  entries,     \* BTreeMap<DeviceId, Channel>: peer -> channel id or NoChannel
  seed,        \* initial speed of each direction given to each channel
  nextId,      \* next channel id (identity of a Channel object)
  containers,  \* peers whose tunnel container the tunnel manager holds
  cpc,         \* step of each create_channel call
  target,      \* the remote of each create_channel call
  histSpeed,   \* {download,upload}_history_speed average
  curSpeed,    \* {download,upload}_cur_speed
  sessions,    \* {download,upload}_session_count > 0 at the last tick
  inbox,       \* peers with a datagram received by the command tunnel
  recvAlive    \* the recv_command task is still running

vars == <<entries, seed, nextId, containers, cpc, target, histSpeed,
          curSpeed, sessions, inbox, recvAlive>>

Channels == {p \in Peers : entries[p] /= NoChannel}

(***************************************************************************)
(* HistorySpeed, modelled from spec.md 3 / 4.5.                            *)
(***************************************************************************)
HsAverage(dir) == histSpeed[dir]
\* mutant: the history accumulates samples instead of averaging them
HsUpdateAccumulate(dir, sample, v) ==
  IF sample THEN histSpeed[dir] + v ELSE histSpeed[dir] \div 2
\* update(Some(v)) smooths towards v; update(None) decays towards zero
HsUpdate(dir, sample, v) ==
  IF sample THEN (histSpeed[dir] + v) \div 2 ELSE histSpeed[dir] \div 2

(***************************************************************************)
(* create_channel                                                          *)
(***************************************************************************)
\* initial_download_speed / initial_upload_speed: the history average of
\* each direction over (entries.len() + 1)
InitialSpeed == [dir \in Dirs |-> HsAverage(dir) \div (Cardinality(Channels) + 1)]

\* tunnel_manager().create_container(remote) before taking the lock
CreateContainer(c, p) ==
  /\ cpc[c] = "idle"
  /\ containers' = containers \cup {p}
  /\ target' = [target EXCEPT ![c] = p]
  /\ cpc' = [cpc EXCEPT ![c] = "locked"]
  /\ UNCHANGED <<entries, seed, nextId, histSpeed, curSpeed, sessions, inbox,
                 recvAlive>>

\* mutant: the locked section inserts a new channel without the lookup
GetOrInsertAlways(p) ==
  /\ nextId < MaxIds
  /\ entries' = [entries EXCEPT ![p] = nextId]
  /\ seed' = [seed EXCEPT ![p] = InitialSpeed]
  /\ nextId' = nextId + 1

\* under the write lock: entries.get(remote) or a new Channel seeded with
\* history.average() / (entries.len() + 1), inserted into entries
GetOrInsert(p) ==
  \/ /\ entries[p] /= NoChannel
     /\ UNCHANGED <<entries, seed, nextId>>
  \/ /\ entries[p] = NoChannel
     /\ nextId < MaxIds
     /\ entries' = [entries EXCEPT ![p] = nextId]
     /\ seed' = [seed EXCEPT ![p] = InitialSpeed]
     /\ nextId' = nextId + 1

CreateLocked(c) ==
  /\ cpc[c] = "locked"
  /\ GetOrInsert(target[c])
  /\ cpc' = [cpc EXCEPT ![c] = "idle"]
  /\ UNCHANGED <<containers, target, histSpeed, curSpeed, sessions, inbox,
                 recvAlive>>

\* environment: a datagram of p arrives over one of p's tunnels
Arrive(p) ==
  /\ p \in containers
  /\ inbox' = inbox \cup {p}
  /\ UNCHANGED <<entries, seed, nextId, containers, cpc, target, histSpeed,
                 curSpeed, sessions, recvAlive>>

(***************************************************************************)
(* recv_command: one datagram from peer p out of recv_v().  channel_of(p), *)
(* else container_of(p).unwrap() and create_channel(..).unwrap(); the      *)
(* unwrap of a missing container panics and ends the spawned loop.         *)
(***************************************************************************)
RecvDatagram(p) ==
  /\ recvAlive
  /\ p \in inbox
  /\ inbox' = inbox \ {p}
  /\ \/ /\ entries[p] /= NoChannel
        /\ UNCHANGED <<entries, seed, nextId, recvAlive>>
     \/ /\ entries[p] = NoChannel
        /\ p \in containers
        /\ GetOrInsert(p)
        /\ UNCHANGED recvAlive
     \/ /\ entries[p] = NoChannel
        /\ p \notin containers
        /\ recvAlive' = FALSE
        /\ UNCHANGED <<entries, seed, nextId>>
  /\ UNCHANGED <<containers, cpc, target, histSpeed, curSpeed, sessions>>

\* environment: the tunnel manager drops an idle tunnel container
ReleaseContainer(p) ==
  /\ p \in containers
  /\ containers' = containers \ {p}
  /\ UNCHANGED <<entries, seed, nextId, cpc, target, histSpeed, curSpeed,
                 sessions, inbox, recvAlive>>

(***************************************************************************)
(* on_schedule: sum calc_speed's (download, upload) pair over the         *)
(* channels; feed each direction's history with its sum if some channel   *)
(* has a session of that direction, with None otherwise.                  *)
(***************************************************************************)
\* the sum of one direction of the channels' calc_speed results
DirSum(d, dir) == SumFunction([p \in DOMAIN d |-> d[p][dir]])

\* mutant: the history is fed the sum even when no session is open
OnScheduleAlwaysSample ==
  \E d \in [Channels -> [Dirs -> 0 .. MaxSpeed]], open \in [Dirs -> BOOLEAN] :
    /\ curSpeed' = [dir \in Dirs |-> DirSum(d, dir)]
    /\ sessions' = open
    /\ histSpeed' = [dir \in Dirs |-> HsUpdate(dir, TRUE, DirSum(d, dir))]
    /\ UNCHANGED <<entries, seed, nextId, containers, cpc, target, inbox,
                   recvAlive>>

OnSchedule ==
  \E d \in [Channels -> [Dirs -> 0 .. MaxSpeed]], open \in [Dirs -> BOOLEAN] :
    /\ curSpeed' = [dir \in Dirs |-> DirSum(d, dir)]
    /\ sessions' = open
    /\ histSpeed' = [dir \in Dirs |-> HsUpdate(dir, open[dir], DirSum(d, dir))]
    /\ UNCHANGED <<entries, seed, nextId, containers, cpc, target, inbox,
                   recvAlive>>

Init ==
  /\ entries = [p \in Peers |-> NoChannel]
  /\ seed = [p \in Peers |-> [dir \in Dirs |-> 0]]
  /\ nextId = 1
  /\ containers = {}
  /\ cpc = [c \in Creators |-> "idle"]
  /\ target = [c \in Creators |-> CHOOSE p \in Peers : TRUE]
  /\ histSpeed = [dir \in Dirs |-> 0]
  /\ curSpeed = [dir \in Dirs |-> 0]
  /\ sessions = [dir \in Dirs |-> FALSE]
  /\ inbox = {}
  /\ recvAlive = TRUE

Next ==
  \/ \E c \in Creators, p \in Peers : CreateContainer(c, p)
  \/ \E c \in Creators : CreateLocked(c)
  \/ \E p \in Peers : Arrive(p) \/ RecvDatagram(p) \/ ReleaseContainer(p)
  \/ OnSchedule

Spec == Init /\ [][Next]_vars

-----------------------------------------------------------------------------
TypeOK ==
  /\ entries \in [Peers -> 0 .. MaxIds]
  /\ seed \in [Peers -> [Dirs -> Nat]]
  /\ nextId \in 1 .. MaxIds
  /\ containers \subseteq Peers
  /\ cpc \in [Creators -> {"idle", "locked"}]
  /\ target \in [Creators -> Peers]
  /\ histSpeed \in [Dirs -> 0 .. MaxSpeed * Cardinality(Peers)]
  /\ curSpeed \in [Dirs -> 0 .. MaxSpeed * Cardinality(Peers)]
  /\ sessions \in [Dirs -> BOOLEAN]
  /\ inbox \subseteq Peers
  /\ recvAlive \in BOOLEAN

(* A remote's Channel, once registered, is never replaced by another one:  *)
(* concurrent create_channel calls and the receive loop all end up with    *)
(* the same Channel, so no session is stranded on a dropped one.           *)
ChannelNeverReplaced ==
  [][\A p \in Peers : entries[p] /= NoChannel => entries'[p] = entries[p]]_vars

(* spec 4.5/8: with no session of a direction in any channel, a tick      *)
(* never raises that direction's historical speed, whatever the other     *)
(* direction and the channels' residual speeds do: it decays towards zero.*)
HistoryDecaysWithoutSessions ==
  [][\A dir \in Dirs : ~sessions'[dir] => histSpeed'[dir] <= histSpeed[dir]]_vars

(* spec 4.5: the command receive loop runs for ever; a datagram it cannot  *)
(* route is dropped, never fatal.                                          *)
RecvLoopAlive == recvAlive
=============================================================================
