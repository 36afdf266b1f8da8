------------------------------- MODULE Throttle -------------------------------
(***************************************************************************)
(* One window of the sliding-window limiter (rate_limit.py) in one process *)
(* and the requests that call it.  Registration, the webhook and the LLM   *)
(* gateway check it and then record the request; a login checks it,        *)
(* verifies the password, and then records a failure or, after a success,  *)
(* clears the window.                                                      *)
(*                                                                         *)
(* Every call first asks _redis() where the window is and then goes to     *)
(* that store: two steps, between which other threads run.  The first call *)
(* connects to Redis lazily and without a lock; while it does, the others  *)
(* are sent to memory, and what they count there is not looked at any more *)
(* once the client is set.                                                 *)
(*                                                                         *)
(* Taking the time and the access to one store are one step (the memory    *)
(* backend holds a lock for it, the few Redis commands of a call are taken *)
(* as one).  Events are modelled by their age in ticks, so that the model  *)
(* needs no clock; an age of Window means expired, however long ago.  A    *)
(* Limit of 0, which switches the throttle off before any store is asked,  *)
(* is left out.                                                            *)
(***************************************************************************)
EXTENDS Integers, Sequences, FiniteSets

CONSTANTS
  Workers,    \* the requests that may be in progress at a time
  Limit,      \* events allowed in a window
  Window,     \* its length, in ticks
  Second,     \* ticks in a second; window_seconds is a whole number of them
  MaxEvents,  \* events stored or counted in a window, and
  MaxSwitches \* how often Redis goes away or comes back: bounds of the model;
              \* the first is reached in an outage only

ASSUME ThrottleAssumption ==
  /\ IsFiniteSet(Workers)
  /\ Limit \in Nat \ {0}
  /\ Window \in Nat \ {0}
  /\ Second \in Nat \ {0}
  /\ MaxEvents \in Nat
  /\ MaxSwitches \in Nat

VARIABLES
  window,     \* per store: the ages of the events of the key, the oldest first
  backend,    \* RATE_LIMIT_BACKEND
  client,     \* "unresolved", or the store _redis() answers with
  reachable,  \* Redis answers
  worker,     \* per request: what it is about to do, and with which store
  admitted,   \* history, per store: the ages of the requests let through (for a
              \* login: and failed) that it was told of since it was cleared
  switches    \* how often Redis has gone away or come back

vars ==
  <<window, backend, client, reachable, worker, admitted, switches>>

-----------------------------------------------------------------------------
(* Mutated forms of the definitions below; no specification uses them.     *)

KeptAll(s, events) == events
KeptShort(s, events) ==
  IF Len(events) >= Limit
  THEN SubSeq(events, Len(events) - Limit + 2, Len(events)) ELSE events
CheckedCounting(events) == Append(SubSeq(events, 2, Len(events)), 0)

\* Truncated only, without the second that makes up for it.
WholeSecondsOf(ticks) ==
  IF ticks \div Second > 1 THEN ticks \div Second ELSE 1

-----------------------------------------------------------------------------
(* A window *)

Stores == {"memory", "redis"}

Age == 0..Window
Older(events) ==
  [i \in DOMAIN events |-> IF events[i] < Window THEN events[i] + 1 ELSE Window]

\* _prune, and zremrangebyscore, after a wait: an event of age Window has expired.
\* The expired ones are the oldest, at the front.
Expired(events, wait) == {i \in DOMAIN events : events[i] + wait >= Window}
Remaining(events, wait) ==
  SubSeq(events, Cardinality(Expired(events, wait)) + 1, Len(events))

Live(events) == Remaining(events, 0)

\* record keeps the newest Limit events in memory; Redis keeps all.
Kept(s, events) ==
  IF s = "memory" /\ Len(events) > Limit
  THEN SubSeq(events, Len(events) - Limit + 1, Len(events))
  ELSE events

Spent(events) == Len(Live(events)) >= Limit

\* What check leaves in the store when it refuses.
Checked(events) == Live(events)

\* _retry_after: so many seconds until a time that is so many ticks ahead.
SecondsUntil(ticks) ==
  LET seconds == ticks \div Second + 1 IN IF seconds > 1 THEN seconds ELSE 1

\* The first event of the window is the one to wait for.
RetryAfter(events) == SecondsUntil(Window - Head(Live(events)))

\* A call that has chosen a store reaches it.  A Redis call that fails is
\* swallowed.
Reaches(s) == s = "memory" \/ reachable

-----------------------------------------------------------------------------
(* Where the window is: _redis() *)

\* Threads that find the backend unresolved go on to connect, each by itself.
FindUnresolved(w) ==
  /\ worker[w].at = "idle"
  /\ client = "unresolved"
  /\ worker' = [worker EXCEPT ![w].at = "unresolved"]
  /\ UNCHANGED <<window, backend, client, reachable, admitted, switches>>

\* _redis_resolved = True comes first: from here on the others get None, that
\* is memory, until a client is set.  The memory backend leaves it at that.
MarkResolved(w) ==
  /\ worker[w].at = "unresolved"
  /\ client' = IF client = "unresolved" THEN "memory" ELSE client
  /\ worker' = [worker EXCEPT
       ![w].at = IF backend = "redis" THEN "connecting" ELSE "idle"]
  /\ UNCHANGED <<window, backend, reachable, admitted, switches>>

\* The ping is answered, or not; either way the call then goes on (from "idle")
\* with the client as it finds it.
Connect(w) ==
  /\ worker[w].at = "connecting"
  /\ client' = IF reachable THEN "redis" ELSE "memory"
  /\ worker' = [worker EXCEPT ![w].at = "idle"]
  /\ UNCHANGED <<window, backend, reachable, admitted, switches>>

\* A call learns its store.
Turns(w, from, to) ==
  /\ worker[w].at = from
  /\ client # "unresolved"
  /\ worker' = [worker EXCEPT ![w] = [at |-> to, via |-> client]]
  /\ UNCHANGED <<window, backend, client, reachable, admitted, switches>>

-----------------------------------------------------------------------------
(* The calls *)

StartCheck(w) == Turns(w, "idle", "checking")

\* check answers 0: the request goes on.  So it does when Redis fails.
Pass(w) ==
  LET s == worker[w].via
  IN  /\ worker[w].at = "checking"
      /\ Reaches(s) => ~Spent(window[s])
      /\ worker' = [worker EXCEPT ![w].at = "passed"]
      /\ window' = [window EXCEPT ![s] = IF Reaches(s) THEN Live(@) ELSE @]
      /\ UNCHANGED <<backend, client, reachable, admitted, switches>>

\* check answers with the seconds to wait: status 429, nothing is recorded.
Refuse(w) ==
  LET s == worker[w].via
  IN  /\ worker[w].at = "checking"
      /\ Reaches(s) /\ Spent(window[s])
      /\ worker' = [worker EXCEPT ![w].at = "idle"]
      /\ window' = [window EXCEPT ![s] = Checked(@)]
      /\ UNCHANGED <<backend, client, reachable, admitted, switches>>

\* record, of the request itself or of a failed login
StartRecord(w) == Turns(w, "passed", "recording")

Record(w) ==
  LET s == worker[w].via
      stored == IF Reaches(s)
                THEN Kept(s, Append(Live(window[s]), 0)) ELSE window[s]
  IN  /\ worker[w].at = "recording"
      /\ Len(Live(admitted[s])) < MaxEvents /\ Len(stored) <= MaxEvents
      /\ worker' = [worker EXCEPT ![w].at = "idle"]
      /\ window' = [window EXCEPT ![s] = stored]
      /\ admitted' = [admitted EXCEPT ![s] = Append(Live(@), 0)]
      /\ UNCHANGED <<backend, client, reachable, switches>>

\* A successful login: clear_login_failures.  With a client the window is
\* deleted there first, then in memory.
StartClear(w) == Turns(w, "passed", "clearing")

Clear(w) ==
  LET s == worker[w].via
  IN  /\ worker[w].at = "clearing"
      /\ worker' = [worker EXCEPT
           ![w] = IF s = "redis" THEN [@ EXCEPT !.via = "memory"]
                                 ELSE [@ EXCEPT !.at = "idle"]]
      /\ window' = [window EXCEPT ![s] = IF Reaches(s) THEN <<>> ELSE @]
      /\ admitted' = [admitted EXCEPT ![s] = IF Reaches(s) THEN <<>> ELSE @]
      /\ UNCHANGED <<backend, client, reachable, switches>>

Tick ==
  /\ window' = [s \in Stores |-> Older(window[s])]
  /\ admitted' = [s \in Stores |-> Live(Older(admitted[s]))]
  /\ UNCHANGED <<backend, client, reachable, worker, switches>>

\* Redis goes away, or comes back.
Switch ==
  /\ backend = "redis"
  /\ switches < MaxSwitches
  /\ reachable' = ~reachable
  /\ switches' = switches + 1
  /\ UNCHANGED <<window, backend, client, worker, admitted>>

-----------------------------------------------------------------------------

Init ==
  /\ window = [s \in Stores |-> <<>>]
  /\ backend \in Stores
  /\ client = "unresolved"
  /\ reachable \in BOOLEAN
  /\ worker = [w \in Workers |-> [at |-> "idle", via |-> "memory"]]
  /\ admitted = [s \in Stores |-> <<>>]
  /\ switches = 0

Next ==
  \/ \E w \in Workers :
       \/ FindUnresolved(w) \/ MarkResolved(w) \/ Connect(w)
       \/ StartCheck(w) \/ Pass(w) \/ Refuse(w)
       \/ StartRecord(w) \/ Record(w)
       \/ StartClear(w) \/ Clear(w)
  \/ Tick
  \/ Switch

Spec == Init /\ [][Next]_vars

\* Time passes, whatever the requests do.
FairSpec == Spec /\ WF_vars(Tick)

-----------------------------------------------------------------------------
(* Properties *)

Stage == {"idle", "unresolved", "connecting", "checking", "passed",
          "recording", "clearing"}

\* Everything has its shape; the memory backend never stores more than Limit
\* events for a key, so that its dictionary cannot grow with the traffic.
TypeOK ==
  /\ window \in [Stores -> Seq(Age)]
  /\ Len(window["memory"]) <= Limit
  /\ backend \in Stores
  /\ client \in {"unresolved"} \cup Stores
  /\ reachable \in BOOLEAN
  /\ worker \in [Workers -> [at : Stage, via : Stores]]
  /\ admitted \in [Stores -> Seq(Age)]
  /\ switches \in 0..MaxSwitches

\* There was an outage.
everDown == switches > 0

\* How far the budget can be exceeded in one store because a call reads where
\* the window is, check and record are two such calls, and the answer may have
\* changed in between: by the other requests that are in progress, however they
\* interleave with each other and with the lazy connection, and although the
\* memory backend forgets all but the newest Limit events.
WithinBudget ==
  \A s \in Stores : Len(Live(admitted[s])) < Limit + Cardinality(Workers)

\* Without an outage no store admits more than that: a process that connects
\* while others are counted in memory spends the budget twice, never more.
AdmissionBound == ~everDown => WithinBudget

\* A request that the memory backend refuses and that comes back after the
\* announced seconds is let through, unless others have used the window in
\* between, although the difference of the times is truncated to whole seconds.
\* (A Redis window may hold more than Limit events, of requests that overlapped,
\* and the time announced is that of the oldest.)
RetryAfterSuffices ==
  LET memory == window["memory"]
  IN  Spent(memory) =>
        Len(Remaining(memory, RetryAfter(memory) * Second)) < Limit

\* A lockout ends, whatever is tried meanwhile: refused attempts do not count,
\* so a client that keeps asking is not locked out for ever.  (Outages let
\* requests through unchecked, which may extend a lockout again and again.)
LockoutLapses ==
  \A s \in Stores : Spent(window[s]) ~> ~Spent(window[s]) \/ everDown

-----------------------------------------------------------------------------
(* What the module's docstring says and the code does not do *)

\* "a Redis that cannot be reached degrades to memory" (rate_limit.py): the
\* limit holds, up to the requests in progress, when Redis goes away.
DegradesToMemory == WithinBudget

\* "so every throttle shares one backend" (rate_limit.py): without an outage the
\* requests admitted in a window are bounded by one budget.  What was counted in
\* memory while the first call was connecting is forgotten afterwards.
OneBudget ==
  ~everDown =>
    Len(Live(admitted["memory"])) + Len(Live(admitted["redis"]))
      < Limit + Cardinality(Workers)
=============================================================================
