------------------------- MODULE RateLimiterProofs -------------------------
(***************************************************************************)
(* Proofs about RateLimiter, for every set of calls and keys, every limit, *)
(* window and delay, and a clock that stops at any time.                   *)
(***************************************************************************)
EXTENDS RateLimiter, FiniteSetTheorems, TLAPS

-----------------------------------------------------------------------------
(* The inductive invariant.                                                   *)

\* A call gets the mutex in time.
Timely == /\ \A r \in Request : req[r].pc = "locking" => now =< req[r].read + Delay
          /\ \A a \in admitted : a.at =< a.read + Delay

\* As long as the span of a burst lasts, all of it is in the list.
Remembered ==
  \A k \in Key, t \in Nat :
    now < t + (Window - Delay) => Burst(k, t, Window - Delay) \subseteq hits[k]

\* No burst is over the limit, whenever it begins.
Bounded == \A k \in Key, t \in Nat : Cardinality(Burst(k, t, Window - Delay)) =< Limit[k]

Inv == TypeOK /\ IsFiniteSet(admitted) /\ Timely /\ Remembered /\ Bounded

-----------------------------------------------------------------------------
(* The lists.                                                                 *)

LEMMA Numbers ==
  Window \in Nat /\ Window > 0 /\ Delay \in Nat /\ Window - Delay \in Int
  /\ \A k \in Key : Limit[k] \in Nat /\ Limit[k] > 0
BY LimiterAssumption

\* Everything that is counted is finite.
LEMMA Finite ==
  ASSUME TypeOK, IsFiniteSet(admitted), NEW k \in Key
  PROVE  /\ IsFiniteSet(hits[k]) /\ Cardinality(hits[k]) \in Nat
         /\ IsFiniteSet(Used(k)) /\ Cardinality(Used(k)) \in Nat
<1>1. hits[k] \in SUBSET admitted /\ Used(k) \in SUBSET admitted
  BY DEF TypeOK, Used
<1>2. QED BY <1>1, FS_Subset, FS_CardinalityType

\* What a pruning keeps, and what it costs.
LEMMA Pruned ==
  ASSUME TypeOK, IsFiniteSet(admitted), NEW k \in Key, NEW t \in Nat
  PROVE  /\ Kept(k, t) \subseteq hits[k] /\ IsFiniteSet(Kept(k, t))
         /\ Cardinality(Kept(k, t)) \in Nat /\ Cardinality(Kept(k, t)) =< Limit[k]
<1>1. Kept(k, t) \in SUBSET hits[k]
  BY DEF Kept
<1>2. IsFiniteSet(Kept(k, t)) /\ Cardinality(Kept(k, t)) =< Cardinality(hits[k])
      /\ Cardinality(Kept(k, t)) \in Nat /\ Cardinality(hits[k]) \in Nat
  BY <1>1, Finite, FS_Subset, FS_CardinalityType
<1>3. Cardinality(hits[k]) =< Limit[k]
  BY DEF TypeOK
<1>4. QED BY <1>1, <1>2, <1>3, Numbers

\* A call that decides in time prunes nothing of a burst that still lasts, however old its time is.
LEMMA BurstKept ==
  ASSUME TypeOK, Timely, Remembered, NEW r \in Request, req[r].pc = "locking",
         NEW t \in Nat, now < t + (Window - Delay)
  PROVE  Burst(req[r].key, t, Window - Delay) \subseteq Kept(req[r].key, req[r].read)
<1> DEFINE k == req[r].key
<1>1. k \in Key /\ req[r].read \in Nat /\ req[r].read =< now /\ now \in Nat
  BY DEF TypeOK, Call
<1> SUFFICES ASSUME NEW c \in Burst(k, t, Window - Delay) PROVE c \in Kept(k, req[r].read)
  OBVIOUS
<1>2. c \in hits[k] /\ c \in admitted /\ t =< c.at
  BY <1>1 DEF Remembered, Burst, Used
<1>3. c.at \in Nat /\ c.read \in Nat /\ c.at =< c.read + Delay
  BY <1>2 DEF TypeOK, Admission, Timely
<1>4. c.read > req[r].read - Window
  BY <1>1, <1>2, <1>3, Numbers
<1>5. QED BY <1>2, <1>4 DEF Kept

-----------------------------------------------------------------------------
(* Steps.                                                                     *)

\* The clock is read.
LEMMA ReadInv ==
  ASSUME Inv, NEW r \in Request, NEW k \in Key, ReadClock(r, k)
  PROVE  Inv'
<1>1. TypeOK /\ now \in Nat /\ UNCHANGED <<now, hits, admitted>>
  BY DEF Inv, TypeOK, ReadClock
<1>2. [pc |-> "locking", key |-> k, read |-> now] \in Call
  BY <1>1 DEF Call, Pc
<1>3. req' \in [Request -> Call] /\ req'[r] = [pc |-> "locking", key |-> k, read |-> now]
      /\ \A s \in Request \ {r} : req'[s] = req[s]
  BY <1>1, <1>2 DEF ReadClock, TypeOK
<1>4. TypeOK'
  BY <1>1, <1>3 DEF TypeOK
<1>5. Timely'
  BY <1>1, <1>3, Numbers DEF Timely, Inv
<1>6. Remembered' /\ Bounded'
  BY <1>1 DEF Inv, Remembered, Bounded, Burst, Used
<1>7. QED BY <1>1, <1>4, <1>5, <1>6 DEF Inv

\* The call at hand is over, with a result.
LEMMA Decided ==
  ASSUME TypeOK, NEW r \in Request, NEW pc \in {"admitted", "refused"},
         req' = [req EXCEPT ![r] = [Idle EXCEPT !.pc = pc]]
  PROVE  req' \in [Request -> Call] /\ req'[r].pc = pc /\ \A s \in Request \ {r} : req'[s] = req[s]
<1>1. [Idle EXCEPT !.pc = pc] \in Call /\ [Idle EXCEPT !.pc = pc].pc = pc
  BY DEF Idle, Call, Pc
<1>2. QED BY <1>1 DEF TypeOK

\* A call is let through.
LEMMA AdmitInv ==
  ASSUME Inv, NEW r \in Request, Admit(r)
  PROVE  Inv'
<1>1. TypeOK /\ IsFiniteSet(admitted) /\ Timely /\ Remembered /\ Bounded
  BY DEF Inv
<1>k. PICK k \in Key, t \in Nat : k = req[r].key /\ t = req[r].read
  BY <1>1 DEF Admit, TypeOK, Call
<1>a. PICK a : a = [key |-> k, id |-> Cardinality(Used(k)), read |-> t, at |-> now]
  OBVIOUS
<1>2. /\ req[r].pc = "locking" /\ k \in Key /\ t \in Nat /\ now \in Nat /\ t =< now
      /\ now =< t + Delay /\ now' = now
  BY <1>1, <1>k DEF Admit, TypeOK, Timely
<1>3. a \in Admission /\ a.key = k /\ a.read = t /\ a.at = now
  BY <1>1, <1>2, <1>a, Finite DEF Admission
<1>4. hits' = [hits EXCEPT ![k] = Kept(k, t) \cup {a}] /\ admitted' = admitted \cup {a}
      /\ ~Full(k, t)
  BY <1>k, <1>a DEF Admit
<1>5. req' \in [Request -> Call] /\ req'[r].pc = "admitted"
      /\ \A s \in Request \ {r} : req'[s] = req[s]
  BY <1>1, Decided DEF Admit
<1>6. IsFiniteSet(admitted')
  BY <1>1, <1>4, FS_AddElement
<1>7. hits'[k] = Kept(k, t) \cup {a} /\ \A j \in Key \ {k} : hits'[j] = hits[j]
  BY <1>1, <1>2, <1>4 DEF TypeOK
<1>8. Cardinality(hits'[k]) \in Nat /\ Cardinality(hits'[k]) =< Limit[k]
  <2>1. Cardinality(Kept(k, t)) < Limit[k] /\ Cardinality(Kept(k, t)) \in Nat
        /\ IsFiniteSet(Kept(k, t))
    BY <1>1, <1>2, <1>4, Pruned, Numbers DEF Full
  <2>2. Cardinality(Kept(k, t) \cup {a}) \in {Cardinality(Kept(k, t)), Cardinality(Kept(k, t)) + 1}
    BY <2>1, FS_AddElement
  <2>3. QED BY <1>2, <1>7, <2>1, <2>2, Numbers
<1>9. TypeOK'
  <2>1. \A b \in admitted' : b \in Admission /\ b.read =< b.at /\ b.at =< now'
    BY <1>1, <1>2, <1>3, <1>4 DEF TypeOK
  <2>2. \A s \in Request : req'[s].pc = "locking" => req'[s].key \in Key /\ req'[s].read =< now'
    BY <1>1, <1>2, <1>5 DEF TypeOK
  <2>3. Kept(k, t) \subseteq hits[k]
    BY DEF Kept
  <2>4. hits' \in [Key -> SUBSET admitted']
    BY <1>1, <1>2, <1>4, <2>3 DEF TypeOK
  <2>5. \A j \in Key : (\A b \in hits'[j] : b.key = j) /\ Cardinality(hits'[j]) =< Limit[j]
    <3>1. ASSUME NEW j \in Key, j # k
          PROVE  (\A b \in hits'[j] : b.key = j) /\ Cardinality(hits'[j]) =< Limit[j]
      BY <1>1, <1>7, <3>1 DEF TypeOK
    <3>2. \A b \in hits'[k] : b.key = k
      BY <1>1, <1>3, <1>7, <2>3 DEF TypeOK
    <3>3. QED BY <1>8, <3>1, <3>2
  <2>6. QED BY <1>2, <1>5, <2>1, <2>2, <2>4, <2>5 DEF TypeOK
<1>10. Timely'
  BY <1>1, <1>2, <1>3, <1>4, <1>5 DEF Timely
<1>11. ASSUME NEW j \in Key, NEW u \in Nat
       PROVE  /\ Burst(j, u, Window - Delay)' \subseteq Burst(j, u, Window - Delay) \cup {a}
              /\ now >= u + (Window - Delay) \/ j # k =>
                   Burst(j, u, Window - Delay)' \subseteq Burst(j, u, Window - Delay)
  <2>0. PICK span \in Int : span = Window - Delay
    BY Numbers
  <2>1. now < u + span \/ now >= u + span
    BY <1>2
  <2>2. \A c \in Burst(j, u, span)' :
          /\ c \in admitted \/ c = a
          /\ c.key = j /\ u =< c.at /\ c.at < u + span
    BY <1>4 DEF Burst, Used
  <2>3. \A c \in Burst(j, u, span)' : c # a => c \in Burst(j, u, span)
    BY <2>2 DEF Burst, Used
  <2>4. now >= u + span \/ j # k => a \notin Burst(j, u, span)'
    BY <1>2, <1>3, <2>1, <2>2
  <2>5. QED BY <2>0, <2>3, <2>4
<1>12. ASSUME NEW u \in Nat, now < u + (Window - Delay)
       PROVE  Burst(k, u, Window - Delay)' \subseteq hits'[k]
  <2>1. Burst(k, u, Window - Delay) \subseteq Kept(k, t)
    BY <1>1, <1>2, <1>k, <1>12, BurstKept
  <2>2. QED BY <1>2, <1>7, <1>11, <2>1
<1>13. Remembered'
  <2>1. SUFFICES ASSUME NEW j \in Key, NEW u \in Nat, now < u + (Window - Delay)
                 PROVE  Burst(j, u, Window - Delay)' \subseteq hits'[j]
    BY <1>2 DEF Remembered
  <2>2. CASE j = k
    BY <1>12, <2>1, <2>2
  <2>3. CASE j # k
    BY <1>1, <1>7, <1>11, <2>1, <2>3 DEF Remembered
  <2>4. QED BY <2>2, <2>3
<1>14. Bounded'
  <2>1. SUFFICES ASSUME NEW j \in Key, NEW u \in Nat
                 PROVE  Cardinality(Burst(j, u, Window - Delay)') =< Limit[j]
    BY DEF Bounded
  <2>2. CASE now >= u + (Window - Delay) \/ j # k
    <3>1. Burst(j, u, Window - Delay)' \in SUBSET Burst(j, u, Window - Delay)
      BY <1>11, <2>2
    <3>2. Burst(j, u, Window - Delay) \in SUBSET admitted
      BY DEF Burst, Used
    <3>3. IsFiniteSet(Burst(j, u, Window - Delay))
      BY <1>1, <3>2, FS_Subset
    <3>4. /\ Cardinality(Burst(j, u, Window - Delay)') =< Cardinality(Burst(j, u, Window - Delay))
          /\ Cardinality(Burst(j, u, Window - Delay)) \in Nat
      BY <3>1, <3>3, FS_Subset, FS_CardinalityType
    <3>5. IsFiniteSet(Burst(j, u, Window - Delay)')
      BY <3>1, <3>3, FS_Subset
    <3>6. Cardinality(Burst(j, u, Window - Delay)') \in Nat
      BY <3>5, FS_CardinalityType
    <3>7. Cardinality(Burst(j, u, Window - Delay)) =< Limit[j]
      BY <1>1 DEF Bounded
    <3>8. QED BY <3>4, <3>6, <3>7, Numbers
  <2>3. CASE now < u + (Window - Delay) /\ j = k
    <3>1. Burst(k, u, Window - Delay)' \in SUBSET hits'[k]
      BY <1>12, <2>3
    <3>2. IsFiniteSet(hits'[k])
      <4>1. IsFiniteSet(Kept(k, t))
        BY <1>1, Pruned
      <4>2. IsFiniteSet(Kept(k, t) \cup {a})
        BY <4>1, FS_AddElement
      <4>3. QED BY <1>7, <4>2
    <3>3. IsFiniteSet(Burst(k, u, Window - Delay)')
          /\ Cardinality(Burst(k, u, Window - Delay)') =< Cardinality(hits'[k])
      BY <3>1, <3>2, FS_Subset
    <3>4. Cardinality(Burst(k, u, Window - Delay)') \in Nat
      BY <3>3, FS_CardinalityType
    <3>5. QED BY <1>2, <1>8, <2>3, <3>3, <3>4, Numbers
  <2>4. QED BY <1>2, <2>2, <2>3, Numbers
<1>15. QED BY <1>6, <1>9, <1>10, <1>13, <1>14 DEF Inv

\* A call is refused.
LEMMA RefuseInv ==
  ASSUME Inv, NEW r \in Request, Refuse(r)
  PROVE  Inv'
<1>1. TypeOK /\ IsFiniteSet(admitted) /\ Timely /\ Remembered /\ Bounded
  BY DEF Inv
<1>k. PICK k \in Key, t \in Nat : k = req[r].key /\ t = req[r].read
  BY <1>1 DEF Refuse, TypeOK, Call
<1>2. /\ req[r].pc = "locking" /\ k \in Key /\ t \in Nat /\ now \in Nat
      /\ UNCHANGED <<now, admitted>>
  BY <1>1 DEF Refuse, TypeOK
<1>3. req' \in [Request -> Call] /\ req'[r].pc = "refused"
      /\ \A s \in Request \ {r} : req'[s] = req[s]
  BY <1>1, Decided DEF Refuse
<1>4. hits'[k] = Kept(k, t) /\ \A j \in Key \ {k} : hits'[j] = hits[j]
  BY <1>1, <1>2, <1>k DEF Refuse, TypeOK
<1>5. Kept(k, t) \subseteq hits[k] /\ Cardinality(Kept(k, t)) =< Limit[k]
  BY <1>1, <1>2, Pruned
<1>6. TypeOK'
  <2>1. hits' \in [Key -> SUBSET admitted']
    BY <1>1, <1>2, <1>k, <1>5 DEF Refuse, TypeOK
  <2>2. \A j \in Key : (\A b \in hits'[j] : b.key = j) /\ Cardinality(hits'[j]) =< Limit[j]
    BY <1>1, <1>4, <1>5 DEF TypeOK
  <2>3. QED BY <1>1, <1>2, <1>3, <2>1, <2>2 DEF TypeOK
<1>7. Timely'
  BY <1>1, <1>2, <1>3 DEF Timely
<1>8. \A j \in Key, u \in Nat : Burst(j, u, Window - Delay)' = Burst(j, u, Window - Delay)
  BY <1>2 DEF Burst, Used
<1>9. Remembered'
  <2>1. SUFFICES ASSUME NEW j \in Key, NEW u \in Nat, now < u + (Window - Delay)
                 PROVE  Burst(j, u, Window - Delay)' \subseteq hits'[j]
    BY <1>2 DEF Remembered
  <2>2. CASE j = k
    BY <1>1, <1>2, <1>4, <1>k, <1>8, <2>1, <2>2, BurstKept
  <2>3. CASE j # k
    BY <1>1, <1>4, <1>8, <2>1, <2>3 DEF Remembered
  <2>4. QED BY <2>2, <2>3
<1>10. Bounded'
  BY <1>1, <1>8 DEF Bounded
<1>11. QED BY <1>1, <1>2, <1>6, <1>7, <1>9, <1>10 DEF Inv

LEMMA EmptyBurst ==
  ASSUME admitted = {}
  PROVE  \A k, t, span : Burst(k, t, span) = {} /\ Cardinality(Burst(k, t, span)) = 0
BY FS_EmptySet DEF Burst, Used

LEMMA InitInv == Init => Inv
<1> SUFFICES ASSUME Init PROVE Inv
  OBVIOUS
<1>1. Idle \in Call /\ Idle.pc = "idle"
  BY DEF Idle, Call, Pc
<1>2. TypeOK
  BY <1>1, FS_EmptySet, Numbers DEF Init, TypeOK
<1>3. IsFiniteSet(admitted) /\ admitted = {}
  BY FS_EmptySet DEF Init
<1>4. Timely
  BY <1>1 DEF Init, Timely
<1>5. Remembered /\ Bounded
  BY <1>3, EmptyBurst, Numbers DEF Remembered, Bounded
<1>6. QED BY <1>2, <1>3, <1>4, <1>5 DEF Inv

LEMMA NextInv == Inv /\ [Next]_vars => Inv'
<1> SUFFICES ASSUME Inv, [Next]_vars PROVE Inv'
  OBVIOUS
<1>1. CASE Restart
  <2>1. Idle \in Call /\ Idle.pc = "idle"
    BY DEF Idle, Call, Pc
  <2>2. TypeOK'
    BY <1>1, <2>1, FS_EmptySet, Numbers DEF Inv, Restart, TypeOK
  <2>3. IsFiniteSet(admitted') /\ admitted' = {}
    BY <1>1, FS_EmptySet DEF Restart
  <2>4. Timely'
    BY <1>1, <2>1 DEF Restart, Timely
  <2>5. \A k, t : Burst(k, t, Window - Delay)' = {}
    BY <2>3 DEF Burst, Used
  <2>6. Remembered' /\ Bounded'
    BY <2>5, FS_EmptySet, Numbers DEF Remembered, Bounded
  <2>7. QED BY <2>2, <2>3, <2>4, <2>6 DEF Inv
<1>2. CASE Tick
  <2>1. now \in Nat /\ now' = now + 1 /\ UNCHANGED <<hits, req, admitted>>
    BY <1>2 DEF Inv, TypeOK, Tick
  <2>2. TypeOK'
    BY <2>1 DEF Inv, TypeOK, Call, Admission
  <2>3. Timely'
    BY <1>2, <2>1, Numbers DEF Inv, Timely, Tick, TypeOK, Call
  <2>4. Remembered'
    BY <2>1, Numbers DEF Inv, Remembered, Burst, Used
  <2>5. Bounded'
    BY <2>1 DEF Inv, Bounded, Burst, Used
  <2>6. QED BY <2>1, <2>2, <2>3, <2>4, <2>5 DEF Inv
<1>3. CASE UNCHANGED vars
  BY <1>3 DEF vars, Inv, TypeOK, Timely, Remembered, Bounded, Burst, Used
<1>4. QED BY <1>1, <1>2, <1>3, ReadInv, AdmitInv, RefuseInv DEF Next

-----------------------------------------------------------------------------
(* The theorems.                                                              *)

\* The types, and that the list of a key never holds more hits than its limit, all of them its own.
THEOREM LimiterTyped == Spec => []TypeOK
<1>1. Inv => TypeOK
  BY DEF Inv
<1>2. QED BY <1>1, InitInv, NextInv, PTL DEF Spec

\* However the calls overtake one another between the clock and the mutex, a key is never used more
\* often than its limit in any span shorter than the window less the longest such delay.
THEOREM WindowSafe == Spec => []WindowRespected
<1>1. Inv => WindowRespected
  BY DEF Inv, Bounded, WindowRespected, TypeOK, Admission
<1>2. QED BY <1>1, InitInv, NextInv, PTL DEF Spec

\* A call is refused only if its own key was used up to the limit within the window before it.
THEOREM RefusedSafe == Spec => RefusedOnlyIfUsed
<1>1. ASSUME Inv, [Next]_vars, NEW r \in Request, req[r].pc = "locking", req'[r].pc = "refused"
      PROVE  Cardinality(Recent(req[r].key, req[r].read)) >= Limit[req[r].key]
  <2>1. TypeOK /\ IsFiniteSet(admitted)
    BY <1>1 DEF Inv
  <2>2. ASSUME NEW s \in Request, NEW k \in Key, ReadClock(s, k) PROVE FALSE
    BY <1>1, <2>1, <2>2 DEF ReadClock, TypeOK
  <2>3. ASSUME NEW s \in Request, Admit(s) PROVE FALSE
    BY <1>1, <2>1, <2>3, Decided DEF Admit
  <2>4. ~Restart /\ ~Tick /\ ~UNCHANGED vars
    BY <1>1 DEF Restart, Idle, Tick, vars
  <2>5. PICK s \in Request : Refuse(s)
    BY <1>1, <2>2, <2>3, <2>4 DEF Next
  <2>6. s = r
    BY <1>1, <2>1, <2>5, Decided DEF Refuse
  <2>7. req[r].key \in Key /\ req[r].read \in Nat
    BY <1>1, <2>1 DEF TypeOK, Call
  <2>8. Cardinality(Kept(req[r].key, req[r].read)) >= Limit[req[r].key]
    BY <2>5, <2>6 DEF Refuse, Full
  <2>9. Kept(req[r].key, req[r].read) \in SUBSET Recent(req[r].key, req[r].read)
    BY <2>1, <2>7 DEF Kept, Recent, Used, TypeOK
  <2>10. IsFiniteSet(Recent(req[r].key, req[r].read))
    <3>1. Recent(req[r].key, req[r].read) \in SUBSET admitted
      BY DEF Recent, Used
    <3>2. QED BY <2>1, <3>1, FS_Subset
  <2>11. QED BY <2>7, <2>8, <2>9, <2>10, FS_Subset, FS_CardinalityType, Numbers
<1>2. Inv /\ [Next]_vars =>
        [\A r \in Request :
           req[r].pc = "locking" /\ req'[r].pc = "refused" =>
             Cardinality(Recent(req[r].key, req[r].read)) >= Limit[req[r].key]]_vars
  BY <1>1
<1>3. QED BY <1>2, InitInv, NextInv, PTL DEF Spec, RefusedOnlyIfUsed
=============================================================================
