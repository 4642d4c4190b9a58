------------------------------ MODULE Watchdog ------------------------------
(***************************************************************************)
(* The threads of a server: `run`, `serve` and the heartbeat task of       *)
(* bincache-serve/src/shard.rs, the heartbeats of                          *)
(* bincache-serve/src/stats.rs and the thread of bincache/src/watchdog.rs  *)
(* that reads them.                                                        *)
(*                                                                         *)
(* Time is discrete.  A shard's executor turns, or some task has wedged    *)
(* it, or its thread is gone.  A beat is two relaxed stores, which another *)
(* thread may see in either order.                                         *)
(***************************************************************************)
EXTENDS Integers

CONSTANTS
    Count,         \* --shards
    Heartbeat,     \* HEARTBEAT, in ticks
    Interval,      \* INTERVAL, in ticks
    Stales,        \* the values --stall-seconds may be given, in ticks
    Slack,         \* how late a turning executor may run a timer, in ticks
    Late,          \* how late the watchdog's sleep may end, in ticks
    StartBy,       \* shards start at boot: none later than this
    MaxTime        \* bound

ASSUME TimingAssumption ==
    /\ Count \in Nat \ {0}
    /\ Heartbeat \in Nat \ {0} /\ Interval \in Nat \ {0}
    /\ Stales \subseteq Nat
    /\ Slack \in Nat /\ Late \in Nat /\ StartBy \in Nat /\ MaxTime \in Nat

Shards == 0 .. Count - 1

VARIABLES
    now,           \* started.elapsed()
    stale,         \* --stall-seconds, in ticks: whatever the operator gave
    main,          \* what `run` is at: spawning, joining, exited
    turn,          \* the shard it binds for, or joins
    watching,      \* whether the watchdog thread came up
    mode,          \* unbound, spawned, turning, wedged, dead
    since,         \* when the shard got into that mode
    due,           \* when the heartbeat task's sleep ends
    heartbeat,     \* Shard::heartbeat, as another thread sees it
    heartbeats,    \* Shard::heartbeats > 0, as another thread sees it
    unseen,        \* stores of the latest beat other threads do not see yet
    watchDue,      \* when the watchdog's sleep ends
    stalled        \* what it reported when it last looked

process == <<main, turn, watching>>
beats == <<heartbeat, heartbeats, unseen>>
watch == <<watchDue, stalled>>
vars == <<now, stale, process, mode, since, due, beats, watch>>

Store == {"heartbeat", "heartbeats"}

Init ==
    /\ now = 0
    /\ stale \in Stales
    /\ main = "spawning"
    /\ turn = 0
    /\ watching \in BOOLEAN
    /\ mode = [s \in Shards |-> "unbound"]
    /\ since = [s \in Shards |-> 0]
    /\ due = [s \in Shards |-> 0]
    /\ heartbeat = [s \in Shards |-> 0]
    /\ heartbeats = [s \in Shards |-> FALSE]
    /\ unseen = [s \in Shards |-> {}]
    /\ watchDue = Interval
    /\ stalled = {}

-----------------------------------------------------------------------------
(* run                                                                     *)

\* One turn of the first loop: the listener is bound here, then the thread is
\* spawned with it.
Spawn ==
    /\ main = "spawning"
    /\ now <= StartBy
    /\ mode' = [mode EXCEPT ![turn] = "spawned"]
    /\ main' = IF turn + 1 < Count THEN "spawning" ELSE "joining"
    /\ turn' = IF turn + 1 < Count THEN turn + 1 ELSE 0
    /\ UNCHANGED <<now, stale, watching, since, due, beats, watch>>

\* `?` on bind, an address that can not be had, or on spawn: the process ends,
\* and with it the shards that are up.
SpawnFails ==
    /\ main = "spawning"
    /\ main' = "exited"
    /\ UNCHANGED <<now, stale, turn, watching, mode, since, due, beats, watch>>

\* One turn of the second loop. A thread never ends well, since accept does
\* not return: the first one joined that ends at all ends the process.
Join ==
    /\ main = "joining"
    /\ mode[turn] = "dead"
    /\ main' = "exited"
    /\ UNCHANGED <<now, stale, turn, watching, mode, since, due, beats, watch>>

-----------------------------------------------------------------------------
(* A shard.                                                                *)

\* serve: the runtime is up and has the listener. accept: the heartbeat task is
\* spawned, and sleeps first.
Start(s) ==
    /\ mode[s] = "spawned"
    /\ now <= StartBy
    /\ mode' = [mode EXCEPT ![s] = "turning"]
    /\ since' = [since EXCEPT ![s] = now]
    /\ due' = [due EXCEPT ![s] = now + Heartbeat]
    /\ UNCHANGED <<now, stale, process, beats, watch>>

\* Runtime and Adopt errors before the first beat, or a panic later. Its
\* outcome waits in the handle until `run` joins it.
Die(s) ==
    /\ mode[s] \in {"spawned", "turning", "wedged"} /\ unseen[s] = {}
    /\ mode' = [mode EXCEPT ![s] = "dead"]
    /\ since' = [since EXCEPT ![s] = now]
    /\ UNCHANGED <<now, stale, process, due, beats, watch>>

\* The beat comes from a thread of its own.
Turns_Anyway(s) == mode[s] \in {"turning", "wedged", "dead"}

\* The beat comes from a task of the executor it vouches for.
Turns(s) == mode[s] = "turning"

\* started.elapsed(), in milliseconds on both sides
Elapsed == now

\* The stores of `beat` are issued; the task sleeps again.
Beat(s) ==
    /\ Turns(s)
    /\ now >= due[s]
    /\ unseen[s] = {}
    /\ due' = [due EXCEPT ![s] = now + Heartbeat]
    /\ unseen' = [unseen EXCEPT ![s] = Store]
    /\ UNCHANGED <<now, stale, process, mode, since, heartbeat, heartbeats, watch>>

\* One of them becomes visible. Propagation takes no time that counts here.
Propagate(s) ==
    /\ \E store \in unseen[s] :
          /\ unseen' = [unseen EXCEPT ![s] = @ \ {store}]
          /\ heartbeat' = IF store = "heartbeat"
                          THEN [heartbeat EXCEPT ![s] = Elapsed] ELSE heartbeat
          /\ heartbeats' = IF store = "heartbeats"
                           THEN [heartbeats EXCEPT ![s] = TRUE] ELSE heartbeats
    /\ UNCHANGED <<now, stale, process, mode, since, due, watch>>

\* Some task of the shard does not come back to the executor, or does at last.
Wedge(s) ==
    /\ mode[s] = "turning" /\ unseen[s] = {}
    /\ mode' = [mode EXCEPT ![s] = "wedged"]
    /\ since' = [since EXCEPT ![s] = now]
    /\ UNCHANGED <<now, stale, process, due, beats, watch>>

Unwedge(s) ==
    /\ mode[s] = "wedged" /\ now > since[s]
    /\ mode' = [mode EXCEPT ![s] = "turning"]
    /\ since' = [since EXCEPT ![s] = now]
    /\ UNCHANGED <<now, stale, process, due, beats, watch>>

-----------------------------------------------------------------------------
(* The watchdog.                                                           *)

\* now.saturating_sub(stale)
Deadline == IF stale > now THEN 0 ELSE now - stale

\* A shard that has never beaten counts as one that beat at zero.
Started_Assumed(s) == TRUE

\* slot.heartbeats > 0
Started(s) == heartbeats[s]

\* Shards::stalled
Stalled == {s \in Shards : Started(s) /\ heartbeat[s] < Deadline}

\* What was reported once stays reported.
Seen_Latched == stalled \cup Stalled

\* Every look is from scratch.
Seen == Stalled

\* One turn of watch: thread::sleep promises INTERVAL, and no more than that.
Look ==
    /\ watching
    /\ now >= watchDue
    /\ stalled' = Seen
    /\ watchDue' = now + Interval
    /\ UNCHANGED <<now, stale, process, mode, since, due, beats>>

-----------------------------------------------------------------------------

\* A turning executor runs its timer by then.
Latest(s) == (IF due[s] > since[s] THEN due[s] ELSE since[s]) + Slack

\* Time passes, but not over a timer that has to fire first.
Tick ==
    /\ now < MaxTime
    /\ watching => now < watchDue + Late
    /\ \A s \in Shards :
          /\ unseen[s] = {}
          /\ mode[s] = "turning" => now < Latest(s)
    /\ now' = now + 1
    /\ UNCHANGED <<stale, process, mode, since, due, beats, watch>>

Next ==
    /\ main # "exited"
    /\ \/ Spawn \/ SpawnFails \/ Join
       \/ \E s \in Shards :
             \/ Start(s) \/ Die(s) \/ Beat(s) \/ Propagate(s) \/ Wedge(s) \/ Unwedge(s)
       \/ Look
       \/ Tick

Spec == Init /\ [][Next]_vars

-----------------------------------------------------------------------------

\* The executor does not turn, for good or for now.
Stuck(s) == mode[s] \in {"wedged", "dead"}

\* The last moment a shard can beat for the first time.
FirstBeatBy == StartBy + Heartbeat + Slack

\* A threshold that an idle shard's own period can pass: nothing keeps
\* --stall-seconds above it.
TooTight == stale < Heartbeat + Slack

\* Seen between the two stores of its first beat: counted, at time zero.
HalfSeen(s) == unseen[s] = {"heartbeat"} /\ stale < now /\ now <= FirstBeatBy

\* "a wedged shard visible": a shard that has beaten once and then is wedged,
\* or lost, for longer than --stall-seconds and one look, as late as it may
\* come, is on the report. One that is lost before its first beat is on no
\* report, and the process goes on without it as long as the shards joined
\* before it live.
StallsReported ==
    \A s \in Shards :
        /\ watching /\ Stuck(s) /\ heartbeats[s]
        /\ now - since[s] > stale + Interval + Late
        => s \in stalled

\* "idle, not wedged", whatever --stall-seconds is: a look reports a shard that
\* has in truth not beaten for longer than that, or whose beat of this moment
\* is only half seen; and it is wedged or lost, or came back so recently that
\* its beat is still due, or idles under a threshold tighter than the period
\* of an idle shard, or is seen half way through its first beat under one
\* tighter than a boot. None is ever reported for not having started.
NoFalseAlarm ==
    [][Look => \A s \in stalled' :
          /\ now > due[s] - Heartbeat + stale \/ "heartbeat" \in unseen[s]
          /\ \/ Stuck(s)
             \/ /\ mode[s] = "turning"
                /\ now <= since[s] + Slack \/ TooTight \/ HalfSeen(s)]_vars

\* A shard that came back is off the report after one beat and one look: a
\* report is of this look, never of an earlier one. One that only idled is on
\* it under a threshold that is too tight, or was half seen at boot.
Recovers ==
    \A s \in stalled :
        \/ Stuck(s)
        \/ now <= since[s] + Slack + Interval + Late
        \/ TooTight
        \/ stale < FirstBeatBy /\ now <= FirstBeatBy + Interval + Late

=============================================================================
