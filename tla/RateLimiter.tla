---------------------------- MODULE RateLimiter ----------------------------
(***************************************************************************)
(* The sliding window of the API keys (Limiter.Allow): how many calls with *)
(* one key are let through.  A call reads the clock, waits for the mutex   *)
(* and decides while it holds it; nothing else is between the two, so a    *)
(* call that is overtaken decides with an old time against a list that     *)
(* others have pruned with newer ones.                                     *)
(*                                                                         *)
(* A hit in the list of a key is the admission that appended it.  The      *)
(* clock is monotonic and in ticks; a call gets the mutex within Delay     *)
(* ticks of reading it, which is an assumption about the machine and not   *)
(* something the code ensures.                                             *)
(***************************************************************************)
EXTENDS Integers, FiniteSets

CONSTANTS Request,  \* slots for the calls being decided
          Key,      \* API keys, each with its own list
          Limit,    \* rate_limit_rpm of each key
          Window,   \* ticks in the window
          Delay,    \* ticks between the clock read and the mutex, at most
          MaxTime,  \* the clock stops here
          None      \* no key

ASSUME LimiterAssumption == /\ Limit \in [Key -> Nat \ {0}]
                            /\ Window \in Nat \ {0}
                            /\ Delay \in Nat
                            /\ MaxTime \in Nat
                            /\ None \notin Key

VARIABLES now,      \* the clock
          hits,     \* Limiter.hits: the admissions that still count, for each key
          req,      \* the calls
          admitted  \* the admissions of this run of the server

vars == <<now, hits, req, admitted>>

-----------------------------------------------------------------------------
\* read: the time the call took; at: when it was decided; id tells those of one key apart.
Admission == [key : Key, id : Nat, read : Nat, at : Nat]

Pc == {"idle", "locking", "admitted", "refused"}

Call == [pc : Pc, key : Key \cup {None}, read : Nat]

Idle == [pc |-> "idle", key |-> None, read |-> 0]

TypeOK == /\ now \in Nat
          /\ req \in [Request -> Call]
          /\ \A r \in Request : req[r].pc = "locking" => req[r].key \in Key /\ req[r].read =< now
          /\ admitted \subseteq Admission
          /\ \A a \in admitted : a.read =< a.at /\ a.at =< now
          /\ hits \in [Key -> SUBSET admitted]
          /\ \A k \in Key : /\ \A a \in hits[k] : a.key = k
                            /\ Cardinality(hits[k]) =< Limit[k]

Init == /\ now = 0
        /\ hits = [k \in Key |-> {}]
        /\ req = [r \in Request |-> Idle]
        /\ admitted = {}

-----------------------------------------------------------------------------
\* A candidate key has passed its hash, expiry, address and permission; Allow takes the time.
ReadClock(r, k) ==
  /\ req[r].pc # "locking"
  /\ req' = [req EXCEPT ![r] = [pc |-> "locking", key |-> k, read |-> now]]
  /\ UNCHANGED <<now, hits, admitted>>

\* Seeded fault: the comparison with the cutoff is swapped (Before for After).
KeptOld(k, read) == {a \in hits[k] : a.read =< read - Window}

\* Seeded fault: the list is not pruned.
KeptAll(k, read) == hits[k]

\* The hits after the cutoff.
Kept(k, read) == {a \in hits[k] : a.read > read - Window}

\* Seeded fault: an off-by-one in the comparison with the limit.
Overfull(k, read) == Cardinality(Kept(k, read)) > Limit[k]

Full(k, read) == Cardinality(Kept(k, read)) >= Limit[k]

Used(k) == {a \in admitted : a.key = k}

\* The hit has the time the call read, which may be older than the hits before it.
Admit(r) ==
  LET k == req[r].key
      a == [key |-> k, id |-> Cardinality(Used(k)), read |-> req[r].read, at |-> now] IN
  /\ req[r].pc = "locking"
  /\ ~Full(k, req[r].read)
  /\ hits' = [hits EXCEPT ![k] = Kept(k, req[r].read) \cup {a}]
  /\ admitted' = admitted \cup {a}
  /\ req' = [req EXCEPT ![r] = [Idle EXCEPT !.pc = "admitted"]]
  /\ UNCHANGED now

\* A refused call prunes the list and leaves no hit of its own.
Refuse(r) ==
  LET k == req[r].key IN
  /\ req[r].pc = "locking"
  /\ Full(k, req[r].read)
  /\ hits' = [hits EXCEPT ![k] = Kept(k, req[r].read)]
  /\ req' = [req EXCEPT ![r] = [Idle EXCEPT !.pc = "refused"]]
  /\ UNCHANGED <<now, admitted>>

\* The lists are in memory.
Restart == /\ hits' = [k \in Key |-> {}]
           /\ req' = [r \in Request |-> Idle]
           /\ admitted' = {}
           /\ UNCHANGED now

\* The clock advances unless a call has waited for the mutex as long as it may.
Tick == /\ now < MaxTime
        /\ \A r \in Request : req[r].pc = "locking" => now < req[r].read + Delay
        /\ now' = now + 1
        /\ UNCHANGED <<hits, req, admitted>>

Next == \/ \E r \in Request : \/ \E k \in Key : ReadClock(r, k)
                              \/ Admit(r)
                              \/ Refuse(r)
        \/ Restart
        \/ Tick

Spec == Init /\ [][Next]_vars

-----------------------------------------------------------------------------
\* The admissions of key k decided from tick t on, for a span of ticks.
Burst(k, t, span) == {a \in Used(k) : t =< a.at /\ a.at < t + span}

(***************************************************************************)
(* However the calls overtake one another between reading the clock and    *)
(* taking the mutex, a key is never used more often than its limit in any  *)
(* span shorter than the window less the longest such delay.               *)
(***************************************************************************)
WindowRespected ==
  \A a \in admitted : Cardinality(Burst(a.key, a.at, Window - Delay)) =< Limit[a.key]

Recent(k, t) == {a \in Used(k) : a.read > t - Window}

(***************************************************************************)
(* A call is refused only if its own key really was used up to the limit   *)
(* within the window before it: refused calls, calls with other keys and   *)
(* calls long ago do not count, so a client that waits for the window      *)
(* (Retry-After) is let through.                                           *)
(***************************************************************************)
RefusedOnlyIfUsed ==
  [][\A r \in Request :
       req[r].pc = "locking" /\ req'[r].pc = "refused" =>
         Cardinality(Recent(req[r].key, req[r].read)) >= Limit[req[r].key]]_vars
=============================================================================
