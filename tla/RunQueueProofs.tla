--------------------------- MODULE RunQueueProofs ---------------------------
(***************************************************************************)
(* Proofs about RunQueue for any set of calls, any keys and any limits.    *)
(*                                                                         *)
(* The argument turns on WorkConserving: because a run never waits while a *)
(* slot is free, the loop of pump() turns at most once in any call, and    *)
(* submit() and settle() each come down to two cases (AcceptCases and      *)
(* SettleCases).  Those are the actions of WorkPool.                       *)
(***************************************************************************)
EXTENDS RunQueue, FiniteSetTheorems, SequenceTheorems, TLAPS

\* The answer of a call agrees with what submit() told its caller.
AnswersAgree ==
    \A t \in Tasks :
        /\ ticket[t] = "none" => answer[t] = "pending"
        /\ ticket[t] \in {"key_limit", "queue_full"} <=> answer[t] = "rejected"

\* What the invariants need to be inductive.
IInv ==
    /\ TypeOK
    /\ AnswersAgree
    /\ IsFiniteSet(executing)
    /\ IsFiniteSet(InFlight)
    /\ SlotAccounting
    /\ WorkConserving
    /\ InFlightPlaced
    /\ KeyAccounting

(***************************************************************************)
(* The two cases of each state-changing operation.                         *)
(***************************************************************************)
\* One call of pump() that can start at most one run either starts none and
\* leaves the queue alone or starts exactly the head.
LEMMA PumpCases ==
    ASSUME NEW queue \in Seq(Tasks), NEW running \in Nat, NEW live,
           running <= MaxConcurrency,
           Len(queue) <= 1 \/ running + 1 >= MaxConcurrency,
           Pump(queue, running, live)
    PROVE  \/ /\ queue = <<>> \/ running = MaxConcurrency
              /\ waiting' = queue
              /\ runningCount' = running
              /\ executing' = live
           \/ /\ queue # <<>>
              /\ running < MaxConcurrency
              /\ waiting' = Tail(queue)
              /\ runningCount' = running + 1
              /\ executing' = live \cup {Head(queue)}
<1>1. CASE queue = <<>> \/ running = MaxConcurrency
  <2>1. PumpCount(queue, running) = 0
    BY <1>1, LimitsAssumption DEF PumpCount
  <2>2. SubSeq(queue, 0 + 1, Len(queue)) = queue
    BY SubSeqFull
  <2>3. running + 0 = running
    OBVIOUS
  <2>4. live \cup {queue[i] : i \in 1..0} = live
    OBVIOUS
  <2> QED
    BY <1>1, <2>1, <2>2, <2>3, <2>4, Zenon DEF Pump
<1>2. CASE queue # <<>> /\ running < MaxConcurrency
  <2>1. Len(queue) \in Nat /\ Len(queue) >= 1
    BY <1>2, EmptySeq
  <2>2. PumpCount(queue, running) = 1
    <3> DEFINE l == Len(queue)
    <3>1. /\ l \in Nat
          /\ l >= 1
          /\ l <= 1 \/ running + 1 >= MaxConcurrency
          /\ MaxConcurrency \in Nat
      BY <2>1, LimitsAssumption
    <3> HIDE DEF l
    <3>2. (IF running >= MaxConcurrency THEN 0
           ELSE IF l < MaxConcurrency - running
                THEN l ELSE MaxConcurrency - running) = 1
      BY <1>2, <3>1
    <3> QED
      BY <3>2 DEF PumpCount, l
  <2>3. SubSeq(queue, 1 + 1, Len(queue)) = Tail(queue)
    BY <1>2, TailIsSubSeq
  <2>4. {queue[i] : i \in 1..1} = {Head(queue)}
    BY <2>1
  <2> QED
    BY <1>2, <2>2, <2>3, <2>4, Zenon DEF Pump
<1> QED
  BY <1>1, <1>2, LimitsAssumption

\* An accepted call starts at once, or it joins a queue behind busy slots.
LEMMA AcceptCases ==
    ASSUME TypeOK, SlotAccounting, WorkConserving,
           NEW t \in Tasks, SubmitAccepted(t)
    PROVE  \/ /\ runningCount < MaxConcurrency
              /\ waiting = <<>>
              /\ waiting' = <<>>
              /\ runningCount' = runningCount + 1
              /\ executing' = executing \cup {t}
           \/ /\ runningCount = MaxConcurrency
              /\ waiting' = Append(waiting, t)
              /\ runningCount' = runningCount
              /\ executing' = executing
<1> DEFINE queue == Append(waiting, t)
<1>1. /\ queue \in Seq(Tasks)
      /\ Len(queue) = Len(waiting) + 1
      /\ queue # <<>>
  BY AppendProperties DEF TypeOK
<1>2. runningCount \in Nat /\ runningCount <= MaxConcurrency
  BY DEF TypeOK, SlotAccounting
<1>3. Len(queue) <= 1 \/ runningCount = MaxConcurrency
  BY <1>1 DEF WorkConserving, TypeOK
<1>4. Pump(queue, runningCount, executing)
  BY DEF SubmitAccepted
<1> HIDE DEF queue
<1>5. \/ /\ runningCount = MaxConcurrency
         /\ waiting' = queue
         /\ runningCount' = runningCount
         /\ executing' = executing
      \/ /\ runningCount < MaxConcurrency
         /\ waiting' = Tail(queue)
         /\ runningCount' = runningCount + 1
         /\ executing' = executing \cup {Head(queue)}
  BY <1>1, <1>2, <1>3, <1>4, LimitsAssumption, PumpCases
<1>6. ASSUME runningCount < MaxConcurrency
      PROVE  waiting = <<>> /\ Tail(queue) = <<>> /\ Head(queue) = t
  BY <1>6 DEF queue, WorkConserving, TypeOK
<1> QED
  BY <1>5, <1>6 DEF queue

\* A settled run frees its slot, or hands it to the oldest waiting run.
LEMMA SettleCases ==
    ASSUME TypeOK, SlotAccounting, WorkConserving, IsFiniteSet(executing),
           NEW t \in Tasks, NEW kind, Settle(t, kind)
    PROVE  /\ t \in executing
           /\ \/ /\ waiting = <<>>
                 /\ waiting' = <<>>
                 /\ runningCount' = runningCount - 1
                 /\ executing' = executing \ {t}
              \/ /\ waiting # <<>>
                 /\ waiting' = Tail(waiting)
                 /\ runningCount' = runningCount
                 /\ executing' = (executing \ {t}) \cup {Head(waiting)}
<1>1. t \in executing /\ Pump(waiting, runningCount - 1, executing \ {t})
  BY DEF Settle
<1>2. runningCount # 0
  BY <1>1, FS_EmptySet DEF SlotAccounting
<1>3. /\ runningCount - 1 \in Nat
      /\ runningCount - 1 < MaxConcurrency
      /\ waiting \in Seq(Tasks)
  BY <1>2, LimitsAssumption DEF TypeOK, SlotAccounting
<1>4. Len(waiting) <= 1 \/ (runningCount - 1) + 1 >= MaxConcurrency
  BY <1>3, LimitsAssumption DEF WorkConserving
<1> DEFINE r == runningCount - 1
<1>5. (r + 1 = runningCount) /\ r # MaxConcurrency
  BY <1>3, LimitsAssumption DEF TypeOK
<1>6. \/ /\ waiting = <<>> \/ r = MaxConcurrency
         /\ waiting' = waiting
         /\ runningCount' = r
         /\ executing' = executing \ {t}
      \/ /\ waiting # <<>>
         /\ r < MaxConcurrency
         /\ waiting' = Tail(waiting)
         /\ runningCount' = r + 1
         /\ executing' = (executing \ {t}) \cup {Head(waiting)}
  <2>1. r \in Nat /\ r <= MaxConcurrency
    BY <1>3, LimitsAssumption
  <2>2. Len(waiting) <= 1 \/ r + 1 >= MaxConcurrency
    BY <1>4
  <2>3. Pump(waiting, r, executing \ {t})
    BY <1>1
  <2> HIDE DEF r
  <2> QED
    BY <1>3, <2>1, <2>2, <2>3, PumpCases
<1> HIDE DEF r
<1> QED
  BY <1>1, <1>5, <1>6 DEF r

(***************************************************************************)
(* The elements of a sequence, and how the array changes them.             *)
(***************************************************************************)
\* Pushing a new element adds it, at the end and nowhere else.
LEMMA ElementsOfAppend ==
    ASSUME NEW w \in Seq(Tasks), NEW t \in Tasks, t \notin Elements(w),
           \A i, j \in 1..Len(w) : w[i] = w[j] => i = j
    PROVE  LET v == Append(w, t)
           IN  /\ Elements(v) = Elements(w) \cup {t}
               /\ \A i, j \in 1..Len(v) : v[i] = v[j] => i = j
<1> DEFINE v == Append(w, t)
<1>1. /\ Len(v) = Len(w) + 1
      /\ \A i \in 1..Len(w) : v[i] = w[i]
      /\ v[Len(w) + 1] = t
      /\ Len(w) \in Nat
  BY AppendProperties
<1> HIDE DEF v
<1>2. \A i \in 1..Len(w) : w[i] # t
  BY DEF Elements
<1>3. Elements(v) = Elements(w) \cup {t}
  <2>1. ASSUME NEW x \in Elements(v) PROVE x \in Elements(w) \cup {t}
    BY <1>1, <2>1 DEF Elements
  <2>2. ASSUME NEW x \in Elements(w) PROVE x \in Elements(v)
    BY <1>1, <2>2 DEF Elements
  <2>3. t \in Elements(v)
    BY <1>1 DEF Elements
  <2> QED
    BY <2>1, <2>2, <2>3
<1>4. \A i, j \in 1..Len(v) : v[i] = v[j] => i = j
  BY <1>1, <1>2
<1> QED
  BY <1>3, <1>4 DEF v

\* Shifting takes the head out, and only the head.
LEMMA ElementsOfTail ==
    ASSUME NEW w \in Seq(Tasks), w # <<>>,
           \A i, j \in 1..Len(w) : w[i] = w[j] => i = j
    PROVE  /\ Head(w) \in Tasks
           /\ Head(w) \in Elements(w)
           /\ Elements(Tail(w)) = Elements(w) \ {Head(w)}
           /\ \A i, j \in 1..Len(Tail(w)) : Tail(w)[i] = Tail(w)[j] => i = j
<1> DEFINE u == Tail(w)
           h == Head(w)
<1>1. /\ Len(u) = Len(w) - 1
      /\ \A i \in 1..Len(u) : u[i] = w[i + 1]
      /\ h \in Tasks
      /\ h = w[1]
      /\ Len(w) \in Nat
      /\ Len(w) >= 1
  BY HeadTailProperties, EmptySeq
<1> HIDE DEF u, h
<1>2. h \in Elements(w)
  BY <1>1 DEF Elements
<1>3. Elements(u) = Elements(w) \ {h}
  <2>1. ASSUME NEW x \in Elements(u) PROVE x \in Elements(w) \ {h}
    <3>1. PICK i \in 1..Len(u) : x = u[i]
      BY DEF Elements
    <3>2. x = w[i + 1] /\ i + 1 \in 1..Len(w) /\ i + 1 # 1
      BY <1>1, <3>1
    <3>3. 1 \in 1..Len(w)
      BY <1>1
    <3>4. x # h
      BY <1>1, <3>2, <3>3
    <3> QED
      BY <3>2, <3>4 DEF Elements
  <2>2. ASSUME NEW x \in Elements(w) \ {h} PROVE x \in Elements(u)
    <3>1. PICK i \in 1..Len(w) : x = w[i]
      BY DEF Elements
    <3>2. i # 1
      BY <1>1, <2>2, <3>1
    <3>3. i - 1 \in 1..Len(u) /\ u[i - 1] = w[i]
      BY <1>1, <3>2
    <3> QED
      BY <3>1, <3>3 DEF Elements
  <2> QED
    BY <2>1, <2>2
<1>4. \A i, j \in 1..Len(u) : u[i] = u[j] => i = j
  <2> SUFFICES ASSUME NEW i \in 1..Len(u), NEW j \in 1..Len(u), u[i] = u[j]
               PROVE  i = j
    OBVIOUS
  <2>1. i + 1 \in 1..Len(w) /\ j + 1 \in 1..Len(w)
    BY <1>1
  <2>2. w[i + 1] = w[j + 1]
    BY <1>1
  <2> QED
    BY <2>1, <2>2
<1> QED
  BY <1>1, <1>2, <1>3, <1>4 DEF u, h

(***************************************************************************)
(* The accepted, unanswered calls, and the count of each key.              *)
(***************************************************************************)
\* Accepting a call adds exactly that call.
LEMMA InFlightAccept ==
    ASSUME TypeOK, AnswersAgree, NEW t \in Tasks, SubmitAccepted(t)
    PROVE  t \notin InFlight /\ InFlight' = InFlight \cup {t}
  BY DEF TypeOK, AnswersAgree, SubmitAccepted, InFlight

\* Settling a call takes exactly that call away.
LEMMA InFlightSettle ==
    ASSUME TypeOK, InFlightPlaced, NEW t \in Tasks,
           NEW kind \in {"result", "error"}, Settle(t, kind)
    PROVE  t \in InFlight /\ InFlight' = InFlight \ {t}
<1>1. t \in InFlight
  BY DEF Settle, InFlightPlaced
<1> QED
  BY <1>1 DEF TypeOK, Settle, InFlight

\* Rejecting a call changes nothing.
LEMMA InFlightReject ==
    ASSUME TypeOK, NEW t \in Tasks, NEW verdict \in {"key_limit", "queue_full"},
           ticket[t] = "none", Reject(t, verdict)
    PROVE  InFlight' = InFlight
  BY DEF TypeOK, Reject, InFlight

\* countFor() reads the number of unanswered calls of a key, also of a key
\* the Map does not hold.
LEMMA CountIsInFlight ==
    ASSUME KeyAccounting, NEW k \in Keys
    PROVE  countFor(perKeyCount, k) = Cardinality(InFlightOf(k))
<1>1. CASE k \in DOMAIN perKeyCount
  BY <1>1 DEF countFor, KeyAccounting
<1>2. CASE k \notin DOMAIN perKeyCount
  <2>1. InFlightOf(k) = {}
    BY <1>2 DEF KeyAccounting, InFlightOf
  <2> QED
    BY <1>2, <2>1, FS_EmptySet DEF countFor
<1> QED
  BY <1>1, <1>2

(***************************************************************************)
(* The inductive invariant.                                                *)
(***************************************************************************)
LEMMA InitEstablishes == Init => IInv
<1> SUFFICES ASSUME Init PROVE IInv
  OBVIOUS
<1>1. TypeOK
  BY KeyAssumption DEF Init, TypeOK
<1>2. InFlight = {} /\ Elements(waiting) = {}
  BY DEF Init, InFlight, Elements
<1>3. IsFiniteSet(executing) /\ Cardinality(executing) = 0 /\ IsFiniteSet(InFlight)
  BY <1>2, FS_EmptySet DEF Init
<1>4. AnswersAgree
  BY DEF Init, AnswersAgree
<1>5. SlotAccounting /\ WorkConserving
  BY <1>3, LimitsAssumption DEF Init, SlotAccounting, WorkConserving
<1>6. InFlightPlaced
  BY <1>2 DEF Init, InFlightPlaced
<1>7. KeyAccounting
  BY <1>2 DEF Init, KeyAccounting
<1> QED
  BY <1>1, <1>3, <1>4, <1>5, <1>6, <1>7 DEF IInv

LEMMA RejectPreserves ==
    ASSUME IInv, NEW t \in Tasks, NEW verdict \in {"key_limit", "queue_full"},
           ticket[t] = "none", Reject(t, verdict)
    PROVE  IInv'
<1>1. InFlight' = InFlight
  BY InFlightReject DEF IInv
<1>2. \A k : InFlightOf(k)' = InFlightOf(k)
  BY <1>1 DEF InFlightOf
<1>3. UNCHANGED <<waiting, perKeyCount, runningCount, executing>>
  BY DEF Reject
<1>4. TypeOK' /\ AnswersAgree'
  BY DEF IInv, TypeOK, AnswersAgree, Reject
<1>5. SlotAccounting' /\ WorkConserving' /\ InFlightPlaced'
  BY <1>1, <1>3 DEF IInv, SlotAccounting, WorkConserving, InFlightPlaced, Elements
<1>6. KeyAccounting'
  BY <1>1, <1>2, <1>3 DEF IInv, KeyAccounting
<1> QED
  BY <1>1, <1>3, <1>4, <1>5, <1>6 DEF IInv

LEMMA AcceptPreserves ==
    ASSUME IInv, NEW t \in Tasks, SubmitAccepted(t)
    PROVE  IInv'
<1> DEFINE k == KeyOf[t]
<1> USE DEF IInv
<1>1. /\ t \notin InFlight
      /\ InFlight' = InFlight \cup {t}
  BY InFlightAccept
<1>2. k \in Keys
  BY KeyAssumption
<1>3. \/ /\ runningCount < MaxConcurrency
         /\ waiting = <<>>
         /\ waiting' = <<>>
         /\ runningCount' = runningCount + 1
         /\ executing' = executing \cup {t}
      \/ /\ runningCount = MaxConcurrency
         /\ waiting' = Append(waiting, t)
         /\ runningCount' = runningCount
         /\ executing' = executing
  BY AcceptCases
<1>4. t \notin Elements(waiting) /\ t \notin executing
  BY <1>1 DEF InFlightPlaced
<1>5. TypeOK'
  <2>1. waiting' \in Seq(Tasks) /\ arrivals' \in Seq(Tasks)
    <3>1. waiting \in Seq(Tasks) /\ arrivals \in Seq(Tasks)
      BY DEF TypeOK
    <3>2. arrivals' = Append(arrivals, t)
      BY DEF SubmitAccepted
    <3>3. Append(waiting, t) \in Seq(Tasks) /\ Append(arrivals, t) \in Seq(Tasks)
      BY <3>1, AppendProperties
    <3> QED
      BY <1>3, <3>1, <3>2, <3>3
  <2>2. runningCount' \in Nat /\ executing' \in SUBSET Tasks
    BY <1>3 DEF TypeOK
  <2>3. /\ DOMAIN perKeyCount' \subseteq Keys
        /\ perKeyCount' \in [DOMAIN perKeyCount' -> Nat]
    BY <1>2 DEF TypeOK, SubmitAccepted, AddToKeyCount, countFor
  <2>4. Len(waiting) \in Nat
    BY DEF TypeOK
  <2> QED
    BY <2>1, <2>2, <2>3, <2>4 DEF TypeOK, SubmitAccepted
<1>6. AnswersAgree'
  BY DEF TypeOK, AnswersAgree, SubmitAccepted
<1>7. IsFiniteSet(executing') /\ IsFiniteSet(InFlight')
  BY <1>1, <1>3, FS_AddElement
<1>8. SlotAccounting'
  BY <1>3, <1>4, FS_AddElement, LimitsAssumption DEF SlotAccounting, TypeOK
<1>9. WorkConserving'
  <2>1. Len(waiting) < MaxQueueLength
    BY LimitsAssumption DEF SubmitAccepted, QueueFull, TypeOK
  <2> QED
    BY <1>3, <2>1, AppendProperties, EmptySeq, LimitsAssumption
       DEF WorkConserving, TypeOK
<1>10. InFlightPlaced'
  <2>1. CASE waiting = <<>> /\ waiting' = <<>> /\ executing' = executing \cup {t}
    BY <1>1, <1>4, <2>1 DEF InFlightPlaced, Elements
  <2>2. CASE waiting' = Append(waiting, t) /\ executing' = executing
    <3>1. /\ Elements(waiting)' = Elements(waiting) \cup {t}
          /\ \A i, j \in 1..Len(waiting') : waiting'[i] = waiting'[j] => i = j
      BY <1>4, <2>2, ElementsOfAppend DEF InFlightPlaced, TypeOK, Elements
    <3> QED
      BY <1>1, <1>4, <2>2, <3>1 DEF InFlightPlaced
  <2> QED
    BY <1>3, <2>1, <2>2
<1>11. KeyAccounting'
  <2>1. InFlightOf(k)' = InFlightOf(k) \cup {t}
    BY <1>1 DEF InFlightOf
  <2>2. \A j : j # k => InFlightOf(j)' = InFlightOf(j)
    BY <1>1 DEF InFlightOf
  <2>3. t \notin InFlightOf(k) /\ IsFiniteSet(InFlightOf(k))
    BY <1>1, FS_Subset DEF InFlightOf
  <2>4. Cardinality(InFlightOf(k)') = Cardinality(InFlightOf(k)) + 1
    BY <2>1, <2>3, FS_AddElement
  <2>5. countFor(perKeyCount, k) = Cardinality(InFlightOf(k))
    BY <1>2, CountIsInFlight
  <2>6. Cardinality(InFlightOf(k)) \in Nat /\ Cardinality(InFlightOf(k)) < MaxPerKey
    BY <2>3, <2>5, FS_CardinalityType, LimitsAssumption
       DEF SubmitAccepted, KeyLimitReached
  <2>7. /\ DOMAIN perKeyCount' = DOMAIN perKeyCount \cup {k}
        /\ perKeyCount'[k] = countFor(perKeyCount, k) + 1
        /\ \A j \in DOMAIN perKeyCount : j # k => perKeyCount'[j] = perKeyCount[j]
    BY DEF SubmitAccepted, AddToKeyCount
  <2>8. DOMAIN perKeyCount' = {KeyOf[u] : u \in InFlight'}
    BY <1>1, <2>7 DEF KeyAccounting
  <2>9. ASSUME NEW j \in DOMAIN perKeyCount'
        PROVE  /\ perKeyCount'[j] = Cardinality(InFlightOf(j)')
               /\ perKeyCount'[j] <= MaxPerKey
    <3>1. CASE j = k
      BY <2>4, <2>5, <2>6, <2>7, <3>1, LimitsAssumption
    <3>2. CASE j # k
      BY <2>2, <2>7, <3>2 DEF KeyAccounting
    <3> QED
      BY <3>1, <3>2
  <2> QED
    BY <2>8, <2>9 DEF KeyAccounting
<1> QED
  BY <1>5, <1>6, <1>7, <1>8, <1>9, <1>10, <1>11

LEMMA SettlePreserves ==
    ASSUME IInv, NEW t \in Tasks, NEW kind \in {"result", "error"},
           Settle(t, kind)
    PROVE  IInv'
<1> DEFINE k == KeyOf[t]
<1> USE DEF IInv
<1>1. /\ t \in InFlight
      /\ InFlight' = InFlight \ {t}
  BY InFlightSettle
<1>2. k \in Keys
  BY KeyAssumption
<1>3. /\ t \in executing
      /\ \/ /\ waiting = <<>>
            /\ waiting' = <<>>
            /\ runningCount' = runningCount - 1
            /\ executing' = executing \ {t}
         \/ /\ waiting # <<>>
            /\ waiting' = Tail(waiting)
            /\ runningCount' = runningCount
            /\ executing' = (executing \ {t}) \cup {Head(waiting)}
  BY SettleCases
<1>4. waiting # <<>> =>
         /\ Head(waiting) \in Tasks
         /\ Head(waiting) \in Elements(waiting)
         /\ Elements(Tail(waiting)) = Elements(waiting) \ {Head(waiting)}
         /\ \A i, j \in 1..Len(Tail(waiting)) :
               Tail(waiting)[i] = Tail(waiting)[j] => i = j
  BY ElementsOfTail DEF InFlightPlaced, TypeOK
<1>5. /\ IsFiniteSet(executing \ {t})
      /\ Cardinality(executing \ {t}) = Cardinality(executing) - 1
      /\ Cardinality(executing) \in Nat /\ Cardinality(executing) > 0
  BY <1>3, FS_RemoveElement, FS_CardinalityType, FS_EmptySet
<1>6. TypeOK'
  <2>1. waiting' \in Seq(Tasks)
    <3>1. waiting \in Seq(Tasks)
      BY DEF TypeOK
    <3> HIDE DEF IInv
    <3>2. waiting # <<>> => Tail(waiting) \in Seq(Tasks)
      BY <3>1, HeadTailProperties
    <3> QED
      BY <1>3, <3>1, <3>2, Zenon
  <2>2. runningCount' \in Nat
    BY <1>3, <1>5 DEF TypeOK, SlotAccounting
  <2>3. executing' \in SUBSET Tasks
    BY <1>3, <1>4 DEF TypeOK
  <2>4. /\ DOMAIN perKeyCount' \subseteq Keys
        /\ perKeyCount' \in [DOMAIN perKeyCount' -> Nat]
    <3>1. CASE countFor(perKeyCount, k) <= 1
      BY <3>1 DEF TypeOK, Settle, TakeFromKeyCount
    <3>2. CASE ~(countFor(perKeyCount, k) <= 1)
      <4>1. k \in DOMAIN perKeyCount /\ perKeyCount[k] - 1 \in Nat
        BY <3>2 DEF countFor, TypeOK
      <4>2. perKeyCount' = [perKeyCount EXCEPT ![k] = perKeyCount[k] - 1]
        BY <3>2 DEF Settle, TakeFromKeyCount
      <4> QED
        BY <4>1, <4>2 DEF TypeOK
    <3> QED
      BY <3>1, <3>2
  <2> QED
    BY <2>1, <2>2, <2>3, <2>4 DEF TypeOK, Settle
<1>7. AnswersAgree'
  <2>1. ticket[t] = "accepted"
    BY <1>1 DEF InFlight
  <2> QED
    BY <2>1 DEF TypeOK, AnswersAgree, Settle
<1>8. IsFiniteSet(executing') /\ IsFiniteSet(InFlight')
  <2>1. IsFiniteSet(InFlight \ {t})
    BY FS_RemoveElement
  <2>2. \A x : IsFiniteSet((executing \ {t}) \cup {x})
    BY <1>5, FS_AddElement
  <2> QED
    BY <1>1, <1>3, <1>5, <2>1, <2>2
<1>9. SlotAccounting'
  <2>1. CASE waiting = <<>>
    <3>1. runningCount' = runningCount - 1 /\ executing' = executing \ {t}
      BY <1>3, <2>1
    <3>2. Cardinality(executing') = Cardinality(executing) - 1
      BY <1>5, <3>1
    <3> QED
      BY <1>5, <3>1, <3>2, LimitsAssumption DEF SlotAccounting
  <2>2. CASE waiting # <<>>
    <3> DEFINE others == executing \ {t}
               h == Head(waiting)
    <3>1. h \notin others
      BY <1>4, <2>2 DEF InFlightPlaced
    <3>2. IsFiniteSet(others) /\ Cardinality(others) = Cardinality(executing) - 1
      BY <1>5
    <3>3. executing' = others \cup {h} /\ runningCount' = runningCount
      BY <1>3, <2>2
    <3> HIDE DEF others, h
    <3>4. Cardinality(others \cup {h}) = Cardinality(others) + 1
      BY <3>1, <3>2, FS_AddElement
    <3>5. Cardinality(executing') = Cardinality(executing)
      BY <1>5, <3>2, <3>3, <3>4
    <3> QED
      BY <3>3, <3>5 DEF SlotAccounting
  <2> QED
    BY <2>1, <2>2
<1>10. WorkConserving'
  <2>1. CASE waiting = <<>>
    BY <1>3, <2>1, EmptySeq, LimitsAssumption DEF WorkConserving
  <2>2. CASE waiting # <<>>
    <3>1. Len(Tail(waiting)) = Len(waiting) - 1 /\ Len(waiting) \in Nat
      BY <2>2, HeadTailProperties DEF TypeOK
    <3>2. runningCount' = MaxConcurrency
      BY <1>3, <2>2 DEF WorkConserving
    <3>3. Len(waiting') <= MaxQueueLength
      BY <1>3, <2>2, <3>1, LimitsAssumption DEF WorkConserving
    <3> QED
      BY <3>2, <3>3 DEF WorkConserving
  <2> QED
    BY <2>1, <2>2
<1>11. InFlightPlaced'
  <2>1. CASE waiting = <<>>
    <3>1. Elements(waiting)' = {} /\ Elements(waiting) = {}
      BY <1>3, <2>1 DEF Elements
    <3>2. \A i, j \in 1..Len(waiting') : waiting'[i] = waiting'[j] => i = j
      BY <1>3, <2>1
    <3>3. executing' = executing \ {t}
      BY <1>3, <2>1
    <3>4. InFlight' = Elements(waiting)' \cup executing'
      BY <1>1, <3>1, <3>3 DEF InFlightPlaced
    <3> QED
      BY <3>1, <3>2, <3>4 DEF InFlightPlaced
  <2>2. CASE waiting # <<>>
    <3> DEFINE h == Head(waiting)
    <3>1. waiting' = Tail(waiting) /\ executing' = (executing \ {t}) \cup {h}
      BY <1>3, <2>2
    <3>2. Elements(waiting)' = Elements(Tail(waiting))
      BY <3>1 DEF Elements
    <3>3. /\ h \in Elements(waiting)
          /\ Elements(waiting)' = Elements(waiting) \ {h}
          /\ \A i, j \in 1..Len(waiting') : waiting'[i] = waiting'[j] => i = j
      BY <1>4, <2>2, <3>1, <3>2
    <3>4. t \notin Elements(waiting)
      BY <1>3 DEF InFlightPlaced
    <3> HIDE DEF h
    <3> QED
      BY <1>1, <3>1, <3>3, <3>4 DEF InFlightPlaced
  <2> QED
    BY <2>1, <2>2
<1>12. KeyAccounting'
  <2>1. InFlightOf(k)' = InFlightOf(k) \ {t}
    BY <1>1 DEF InFlightOf
  <2>2. \A j : j # k => InFlightOf(j)' = InFlightOf(j)
    BY <1>1 DEF InFlightOf
  <2>3. t \in InFlightOf(k) /\ IsFiniteSet(InFlightOf(k))
    BY <1>1, FS_Subset DEF InFlightOf
  <2>4. /\ Cardinality(InFlightOf(k)') = Cardinality(InFlightOf(k)) - 1
        /\ Cardinality(InFlightOf(k)) \in Nat
        /\ IsFiniteSet(InFlightOf(k)')
    BY <2>1, <2>3, FS_RemoveElement, FS_CardinalityType
  <2>5. /\ k \in DOMAIN perKeyCount
        /\ perKeyCount[k] = Cardinality(InFlightOf(k))
        /\ countFor(perKeyCount, k) = Cardinality(InFlightOf(k))
    BY <1>1 DEF KeyAccounting, countFor
  <2>6. CASE Cardinality(InFlightOf(k)) <= 1
    <3>1. InFlightOf(k)' = {}
      BY <2>1, <2>3, <2>4, <2>6, FS_EmptySet
    <3>2. perKeyCount' = [j \in DOMAIN perKeyCount \ {k} |-> perKeyCount[j]]
      BY <2>5, <2>6 DEF Settle, TakeFromKeyCount
    <3>3. DOMAIN perKeyCount' = {KeyOf[u] : u \in InFlight'}
      <4>1. \A u \in InFlight' : KeyOf[u] # k
        BY <3>1 DEF InFlightOf
      <4>2. \A u \in InFlight \ InFlight' : KeyOf[u] = k
        BY <1>1
      <4> QED
        BY <1>1, <3>2, <4>1, <4>2 DEF KeyAccounting
    <3> QED
      BY <2>2, <3>2, <3>3 DEF KeyAccounting
  <2>7. CASE Cardinality(InFlightOf(k)) > 1
    <3>1. perKeyCount' = [perKeyCount EXCEPT ![k] = perKeyCount[k] - 1]
      BY <2>4, <2>5, <2>7 DEF Settle, TakeFromKeyCount
    <3>2. PICK u \in InFlightOf(k)' : TRUE
      BY <2>4, <2>7, FS_EmptySet
    <3>3. u \in InFlight' /\ KeyOf[u] = k
      BY <3>2 DEF InFlightOf
    <3>4. DOMAIN perKeyCount' = {KeyOf[v] : v \in InFlight'}
      BY <1>1, <3>1, <3>3 DEF KeyAccounting
    <3>5. ASSUME NEW j \in DOMAIN perKeyCount'
          PROVE  /\ perKeyCount'[j] = Cardinality(InFlightOf(j)')
                 /\ perKeyCount'[j] <= MaxPerKey
      <4>1. CASE j = k
        <5>1. perKeyCount'[k] = Cardinality(InFlightOf(k)) - 1
          BY <2>5, <3>1 DEF TypeOK
        <5>2. Cardinality(InFlightOf(k)) <= MaxPerKey
          BY <2>5 DEF KeyAccounting
        <5> QED
          BY <2>4, <4>1, <5>1, <5>2, LimitsAssumption
      <4>2. CASE j # k
        BY <2>2, <3>1, <4>2 DEF KeyAccounting
      <4> QED
        BY <4>1, <4>2
    <3> QED
      BY <3>4, <3>5 DEF KeyAccounting
  <2> QED
    BY <2>4, <2>6, <2>7
<1> QED
  BY <1>6, <1>7, <1>8, <1>9, <1>10, <1>11, <1>12

\* Every step of the queue preserves the invariant.
LEMMA StepPreserves == IInv /\ [Next]_vars => IInv'
<1> SUFFICES ASSUME IInv, [Next]_vars PROVE IInv'
  OBVIOUS
<1>1. ASSUME NEW t \in Tasks, SubmitKeyLimit(t) PROVE IInv'
  BY <1>1, RejectPreserves DEF SubmitKeyLimit
<1>2. ASSUME NEW t \in Tasks, SubmitQueueFull(t) PROVE IInv'
  BY <1>2, RejectPreserves DEF SubmitQueueFull
<1>3. ASSUME NEW t \in Tasks, SubmitAccepted(t) PROVE IInv'
  BY <1>3, AcceptPreserves
<1>4. ASSUME NEW t \in Tasks, SettleAny(t) PROVE IInv'
  BY <1>4, SettlePreserves DEF SettleAny
<1>5. CASE UNCHANGED vars
  <2>1. InFlight' = InFlight /\ Elements(waiting)' = Elements(waiting)
    BY <1>5 DEF vars, InFlight, Elements
  <2>2. \A k : InFlightOf(k)' = InFlightOf(k)
    BY <2>1 DEF InFlightOf
  <2>3. TypeOK' /\ AnswersAgree' /\ IsFiniteSet(executing')
    BY <1>5 DEF vars, IInv, TypeOK, AnswersAgree
  <2>4. SlotAccounting' /\ WorkConserving' /\ InFlightPlaced'
    BY <1>5, <2>1 DEF vars, IInv, SlotAccounting, WorkConserving, InFlightPlaced
  <2>5. KeyAccounting'
    BY <1>5, <2>1, <2>2 DEF vars, IInv, KeyAccounting
  <2> QED
    BY <2>1, <2>3, <2>4, <2>5 DEF IInv
<1> QED
  BY <1>1, <1>2, <1>3, <1>4, <1>5 DEF Next, Submit

\* submit(), pump() and settle() keep the counters and what they count together.
THEOREM InductiveInvariant == Spec => []IInv
  BY InitEstablishes, StepPreserves, PTL DEF Spec

\* Every variable of the queue keeps its type.
THEOREM TypeCorrect == Spec => []TypeOK
<1>1. IInv => TypeOK
  BY DEF IInv
<1> QED
  BY <1>1, InductiveInvariant, PTL

\* The counter runningCount counts the running sandboxes and stays within
\* maxConcurrency, in every behaviour of submissions, results and failures.
THEOREM SlotsAreCounted == Spec => []SlotAccounting
<1>1. IInv => SlotAccounting
  BY DEF IInv
<1> QED
  BY <1>1, InductiveInvariant, PTL

\* No accepted call is lost or started twice.
THEOREM CallsArePlaced == Spec => []InFlightPlaced
<1>1. IInv => InFlightPlaced
  BY DEF IInv
<1> QED
  BY <1>1, InductiveInvariant, PTL

\* The Map of counts is exact: it holds the keys with unanswered calls, their
\* numbers, and none above maxPerKey.
THEOREM KeysAreCounted == Spec => []KeyAccounting
<1>1. IInv => KeyAccounting
  BY DEF IInv
<1> QED
  BY <1>1, InductiveInvariant, PTL

\* A run waits only while every slot is taken.
THEOREM NoIdleSlot == Spec => []WorkConserving
<1>1. IInv => WorkConserving
  BY DEF IInv
<1> QED
  BY <1>1, InductiveInvariant, PTL

(***************************************************************************)
(* The order of service.                                                   *)
(***************************************************************************)
OrderInv == IInv /\ FirstComeFirstServed /\ PositionIsHonest

LEMMA AcceptKeepsOrder ==
    ASSUME OrderInv, NEW t \in Tasks, SubmitAccepted(t)
    PROVE  FirstComeFirstServed' /\ PositionIsHonest'
<1> USE DEF OrderInv, IInv
<1>1. /\ waiting \in Seq(Tasks) /\ arrivals \in Seq(Tasks)
      /\ Len(waiting) \in Nat /\ Len(arrivals) \in Nat
      /\ position \in [Tasks -> Nat]
  BY DEF TypeOK
<1>2. /\ arrivals' = Append(arrivals, t)
      /\ position' = [position EXCEPT ![t] = Len(waiting)]
  BY DEF SubmitAccepted
<1>3. /\ Len(arrivals') = Len(arrivals) + 1
      /\ \A i \in 1..Len(arrivals) : arrivals'[i] = arrivals[i]
      /\ arrivals'[Len(arrivals) + 1] = t
  BY <1>1, <1>2, AppendProperties
<1>4. waiting' = <<>> \/ waiting' = Append(waiting, t)
  BY AcceptCases
<1>5. CASE waiting' = <<>>
  BY <1>1, <1>3, <1>5, EmptySeq DEF FirstComeFirstServed, PositionIsHonest
<1>6. CASE waiting' = Append(waiting, t)
  <2>1. /\ Len(waiting') = Len(waiting) + 1
        /\ \A i \in 1..Len(waiting) : waiting'[i] = waiting[i]
        /\ waiting'[Len(waiting) + 1] = t
    BY <1>1, <1>6, AppendProperties
  <2>2. \A i \in 1..Len(waiting) : waiting[i] # t /\ waiting[i] \in Tasks
    BY <1>1, InFlightAccept DEF InFlightPlaced, Elements
  <2>3. FirstComeFirstServed'
    <3>1. Len(waiting') <= Len(arrivals')
      BY <1>1, <1>3, <2>1 DEF FirstComeFirstServed
    <3>2. ASSUME NEW i \in 1..Len(waiting')
          PROVE  waiting'[i] = arrivals'[Len(arrivals') - Len(waiting') + i]
      <4>1. CASE i = Len(waiting) + 1
        <5>1. Len(arrivals') - Len(waiting') + i = Len(arrivals) + 1
          BY <1>1, <1>3, <2>1, <4>1
        <5> QED
          BY <1>3, <2>1, <4>1, <5>1
      <4>2. CASE i \in 1..Len(waiting)
        <5> DEFINE j == Len(arrivals) - Len(waiting) + i
        <5>1. Len(arrivals') - Len(waiting') + i = j
          BY <1>1, <1>3, <2>1, <4>2
        <5>2. j \in 1..Len(arrivals)
          BY <1>1, <4>2 DEF FirstComeFirstServed
        <5>3. waiting[i] = arrivals[j]
          BY <4>2 DEF FirstComeFirstServed
        <5> HIDE DEF j
        <5> QED
          BY <1>3, <2>1, <4>2, <5>1, <5>2, <5>3
      <4> QED
        BY <1>1, <2>1, <4>1, <4>2
    <3> QED
      BY <3>1, <3>2 DEF FirstComeFirstServed
  <2>4. PositionIsHonest'
    <3>1. ASSUME NEW i \in 1..Len(waiting') PROVE i - 1 <= position'[waiting'[i]]
      <4>1. CASE i = Len(waiting) + 1
        BY <1>1, <1>2, <2>1, <4>1
      <4>2. CASE i \in 1..Len(waiting)
        <5>1. position'[waiting[i]] = position[waiting[i]]
          BY <1>1, <1>2, <2>2, <4>2
        <5> QED
          BY <2>1, <4>2, <5>1 DEF PositionIsHonest
      <4> QED
        BY <1>1, <2>1, <4>1, <4>2
    <3> QED
      BY <3>1 DEF PositionIsHonest
  <2> QED
    BY <2>3, <2>4
<1> QED
  BY <1>4, <1>5, <1>6

LEMMA SettleKeepsOrder ==
    ASSUME OrderInv, NEW t \in Tasks, NEW kind \in {"result", "error"},
           Settle(t, kind)
    PROVE  FirstComeFirstServed' /\ PositionIsHonest'
<1> USE DEF OrderInv, IInv
<1>1. /\ waiting \in Seq(Tasks) /\ arrivals \in Seq(Tasks)
      /\ Len(waiting) \in Nat /\ Len(arrivals) \in Nat
      /\ position \in [Tasks -> Nat]
  BY DEF TypeOK
<1>2. arrivals' = arrivals /\ position' = position
  BY DEF Settle
<1>3. waiting' = <<>> \/ (waiting # <<>> /\ waiting' = Tail(waiting))
  BY SettleCases
<1>4. CASE waiting' = <<>>
  BY <1>1, <1>2, <1>4, EmptySeq DEF FirstComeFirstServed, PositionIsHonest
<1>5. CASE waiting # <<>> /\ waiting' = Tail(waiting)
  <2>1. /\ Len(waiting') = Len(waiting) - 1
        /\ \A i \in 1..Len(waiting') : waiting'[i] = waiting[i + 1]
        /\ \A i \in 1..Len(waiting) : waiting[i] \in Tasks
    BY <1>1, <1>5, HeadTailProperties
  <2>2. \A i \in 1..Len(waiting') : i + 1 \in 1..Len(waiting)
    BY <1>1, <2>1
  <2>3. FirstComeFirstServed'
    <3>1. Len(waiting') <= Len(arrivals')
      BY <1>1, <1>2, <2>1 DEF FirstComeFirstServed
    <3>2. ASSUME NEW i \in 1..Len(waiting')
          PROVE  waiting'[i] = arrivals'[Len(arrivals') - Len(waiting') + i]
      <4>1. Len(arrivals') - Len(waiting') + i
               = Len(arrivals) - Len(waiting) + (i + 1)
        BY <1>1, <1>2, <2>1
      <4>2. waiting[i + 1] = arrivals[Len(arrivals) - Len(waiting) + (i + 1)]
        BY <2>2 DEF FirstComeFirstServed
      <4> QED
        BY <1>2, <2>1, <4>1, <4>2
    <3> QED
      BY <3>1, <3>2 DEF FirstComeFirstServed
  <2>4. PositionIsHonest'
    <3>1. ASSUME NEW i \in 1..Len(waiting') PROVE i - 1 <= position'[waiting'[i]]
      <4>1. (i + 1) - 1 <= position[waiting[i + 1]]
        BY <2>2 DEF PositionIsHonest
      <4>2. position[waiting[i + 1]] \in Nat
        BY <1>1, <2>1, <2>2
      <4>3. position'[waiting'[i]] = position[waiting[i + 1]]
        BY <1>2, <2>1
      <4> DEFINE p == position[waiting[i + 1]]
      <4>4. i \in Int /\ (i + 1) - 1 <= p /\ p \in Nat
        BY <1>1, <2>1, <4>1, <4>2
      <4> HIDE DEF p
      <4>5. i - 1 <= p
        BY <4>4
      <4> QED
        BY <4>3, <4>5 DEF p
    <3> QED
      BY <3>1 DEF PositionIsHonest
  <2> QED
    BY <2>3, <2>4
<1> QED
  BY <1>3, <1>4, <1>5

LEMMA OrderIsInductive == Spec => []OrderInv
<1>1. Init => OrderInv
  BY InitEstablishes DEF OrderInv, Init, FirstComeFirstServed, PositionIsHonest
<1>2. OrderInv /\ [Next]_vars => OrderInv'
  <2> SUFFICES ASSUME OrderInv, [Next]_vars
               PROVE  FirstComeFirstServed' /\ PositionIsHonest'
    BY StepPreserves DEF OrderInv
  <2>1. ASSUME NEW t \in Tasks, SubmitAccepted(t)
        PROVE  FirstComeFirstServed' /\ PositionIsHonest'
    BY <2>1, AcceptKeepsOrder
  <2>2. ASSUME NEW t \in Tasks, SettleAny(t)
        PROVE  FirstComeFirstServed' /\ PositionIsHonest'
    BY <2>2, SettleKeepsOrder DEF SettleAny
  <2>3. ASSUME UNCHANGED <<waiting, position, arrivals>>
        PROVE  FirstComeFirstServed' /\ PositionIsHonest'
    BY <2>3 DEF OrderInv, FirstComeFirstServed, PositionIsHonest
  <2> QED
    BY <2>1, <2>2, <2>3
       DEF Next, Submit, SubmitKeyLimit, SubmitQueueFull, Reject, vars
<1> QED
  BY <1>1, <1>2, PTL DEF Spec

\* Whatever the order in which runs finish, they start in order of arrival.
THEOREM ServedInOrder == Spec => []FirstComeFirstServed
<1>1. OrderInv => FirstComeFirstServed
  BY DEF OrderInv
<1> QED
  BY <1>1, OrderIsInductive, PTL

\* The position on a ticket never understates the wait.
THEOREM PositionsAreHonest == Spec => []PositionIsHonest
<1>1. OrderInv => PositionIsHonest
  BY DEF OrderInv
<1> QED
  BY <1>1, OrderIsInductive, PTL

(***************************************************************************)
(* Rejections are deserved.                                                *)
(***************************************************************************)
\* An array without repetitions has as many elements as its length says.
LEMMA ElementsCounted ==
    ASSUME NEW w \in Seq(Tasks),
           \A i, j \in 1..Len(w) : w[i] = w[j] => i = j
    PROVE  IsFiniteSet(Elements(w)) /\ Cardinality(Elements(w)) = Len(w)
<1> DEFINE f == [i \in 1..Len(w) |-> w[i]]
<1>1. Len(w) \in Nat
  OBVIOUS
<1>2. f \in Bijection(1..Len(w), Elements(w))
  BY DEF Bijection, Injection, Surjection, Elements, IsInjective
<1>3. ExistsBijection(1..Len(w), Elements(w))
  BY <1>2 DEF ExistsBijection
<1>4. ASSUME NEW n \in Nat
      PROVE  IsFiniteSet(1..n) /\ Cardinality(1..n) = n
  <2>1. /\ IsFiniteSet(1..n)
        /\ Cardinality(1..n) = IF 1 > n THEN 0 ELSE n - 1 + 1
    BY FS_Interval
  <2>2. (IF 1 > n THEN 0 ELSE n - 1 + 1) = n
    OBVIOUS
  <2> QED
    BY <2>1, <2>2
<1> QED
  BY <1>1, <1>3, <1>4, FS_Bijection

\* With every slot busy, the calls in flight are the running and the waiting.
LEMMA InFlightCounted ==
    ASSUME IInv
    PROVE  Cardinality(InFlight) = Cardinality(executing) + Len(waiting)
<1> USE DEF IInv
<1>1. IsFiniteSet(Elements(waiting)) /\ Cardinality(Elements(waiting)) = Len(waiting)
  BY ElementsCounted DEF InFlightPlaced, TypeOK
<1>2. InFlight = Elements(waiting) \cup executing
  BY DEF InFlightPlaced
<1>3. Cardinality(Elements(waiting) \cap executing) = 0
  BY FS_EmptySet DEF InFlightPlaced
<1>4. Cardinality(Elements(waiting) \cup executing)
         = Cardinality(Elements(waiting)) + Cardinality(executing)
             - Cardinality(Elements(waiting) \cap executing)
  BY <1>1, FS_Union
<1>5. Cardinality(executing) \in Nat /\ Len(waiting) \in Nat
  BY FS_CardinalityType DEF TypeOK
<1> QED
  BY <1>1, <1>2, <1>3, <1>4, <1>5

\* A queue with at least one place is full only when every slot is busy.
LEMMA FullMeansBusy ==
    ASSUME IInv, MaxQueueLength > 0, QueueFull
    PROVE  /\ waiting # <<>>
           /\ Cardinality(executing) = MaxConcurrency
           /\ Len(waiting) >= MaxQueueLength
<1>1. waiting # <<>>
  BY LimitsAssumption, EmptySeq DEF QueueFull
<1> QED
  BY <1>1 DEF IInv, QueueFull, WorkConserving, SlotAccounting

\* With at least one place in the array, "queue_full" is only said by a queue
\* that holds maxConcurrency + maxQueueLength calls.
THEOREM FullIsAtCapacity ==
    ASSUME MaxQueueLength > 0
    PROVE  Spec => QueueFullMeansCapacity
<1> DEFINE Deserved ==
        \A t \in Tasks :
            (ticket[t] = "none" /\ ticket'[t] = "queue_full") =>
               Cardinality(InFlight) >= MaxConcurrency + MaxQueueLength
<1>1. IInv /\ [Next]_vars => Deserved
  <2> SUFFICES ASSUME IInv, [Next]_vars, NEW t \in Tasks,
                      ticket[t] = "none", ticket'[t] = "queue_full"
               PROVE  Cardinality(InFlight) >= MaxConcurrency + MaxQueueLength
    OBVIOUS
  <2>1. QueueFull
    BY DEF IInv, TypeOK, Next, Submit, SubmitKeyLimit, SubmitQueueFull,
           SubmitAccepted, Reject, SettleAny, Settle, vars
  <2>2. Cardinality(executing) = MaxConcurrency /\ Len(waiting) >= MaxQueueLength
    BY <2>1, FullMeansBusy
  <2>3. Len(waiting) \in Nat
    BY DEF IInv, TypeOK
  <2> QED
    BY <2>2, <2>3, InFlightCounted, LimitsAssumption
<1>2. []IInv /\ [][Next]_vars => [][Deserved]_vars
  BY <1>1, PTL
<1> QED
  BY <1>2, InductiveInvariant, PTL DEF Spec, QueueFullMeansCapacity

\* "key_limit" is only said to a key that has maxPerKey calls in flight.
THEOREM KeyLimitIsDeserved == Spec => KeyLimitIsOwnFault
<1> DEFINE Deserved ==
        \A t \in Tasks :
            (ticket[t] = "none" /\ ticket'[t] = "key_limit") =>
               Cardinality(InFlightOf(KeyOf[t])) >= MaxPerKey
<1>1. IInv /\ [Next]_vars => Deserved
  <2> SUFFICES ASSUME IInv, [Next]_vars, NEW t \in Tasks,
                      ticket[t] = "none", ticket'[t] = "key_limit"
               PROVE  Cardinality(InFlightOf(KeyOf[t])) >= MaxPerKey
    OBVIOUS
  <2>1. KeyLimitReached(KeyOf[t])
    BY DEF IInv, TypeOK, Next, Submit, SubmitKeyLimit, SubmitQueueFull,
           SubmitAccepted, Reject, SettleAny, Settle, vars
  <2> QED
    BY <2>1, CountIsInFlight, KeyAssumption DEF IInv, KeyLimitReached
<1>2. []IInv /\ [][Next]_vars => [][Deserved]_vars
  BY <1>1, PTL
<1> QED
  BY <1>2, InductiveInvariant, PTL DEF Spec, KeyLimitIsOwnFault

(***************************************************************************)
(* The queue implements the pool.                                          *)
(***************************************************************************)
\* The pool counts as the queue does.
LEMMA SameCardinality ==
    ASSUME NEW S
    PROVE  Pool!Cardinality(S) = Cardinality(S)
  BY DEF Pool!Cardinality, Cardinality

\* Each operation of the queue is one operation of the pool.
LEMMA PoolStep ==
    ASSUME MaxQueueLength > 0, IInv, [Next]_vars
    PROVE  [Pool!Next]_(Pool!poolVars)
<1> USE DEF IInv
<1>1. Pool!Queued = Elements(waiting)
  BY DEF Pool!Queued, Elements
<1>2. ASSUME NEW k PROVE Pool!UnfinishedOf(k) = InFlightOf(k)
  BY <1>1 DEF Pool!UnfinishedOf, InFlightOf, InFlightPlaced, InFlight
<1>3. ASSUME NEW t \in Tasks, ticket[t] = "none" PROVE Pool!Unknown(t)
  BY <1>1, <1>3 DEF Pool!Unknown, InFlightPlaced, InFlight, AnswersAgree
<1>4. ASSUME NEW t \in Tasks
      PROVE  Pool!QuotaUsed(KeyOf[t]) <=> KeyLimitReached(KeyOf[t])
  <2>1. Pool!Cardinality(Pool!UnfinishedOf(KeyOf[t])) = Cardinality(InFlightOf(KeyOf[t]))
    BY <1>2, SameCardinality
  <2> QED
    BY <2>1, CountIsInFlight, KeyAssumption DEF Pool!QuotaUsed, KeyLimitReached
<1>5. ASSUME NEW t \in Tasks, SubmitKeyLimit(t) PROVE Pool!Refuse(t)
  BY <1>3, <1>4, <1>5
     DEF Pool!Refuse, SubmitKeyLimit, Reject, TypeOK, AnswersAgree
<1>6. ASSUME NEW t \in Tasks, SubmitQueueFull(t) PROVE Pool!Refuse(t)
  <2>1. Pool!AtCapacity
    BY <1>6, FullMeansBusy, SameCardinality, LimitsAssumption
       DEF Pool!AtCapacity, Pool!WorkerFree, SubmitQueueFull
  <2> QED
    BY <1>3, <1>6, <2>1
       DEF Pool!Refuse, SubmitQueueFull, Reject, TypeOK, AnswersAgree
<1>7. ASSUME NEW t \in Tasks, SubmitAccepted(t)
      PROVE  Pool!Start(t) \/ Pool!Enqueue(t)
  <2>1. Pool!Unknown(t) /\ ~Pool!QuotaUsed(KeyOf[t])
    BY <1>3, <1>4, <1>7 DEF SubmitAccepted
  <2>2. Len(waiting) < MaxQueueLength
    BY <1>7, LimitsAssumption DEF SubmitAccepted, QueueFull, TypeOK
  <2>3. answer' = answer
    BY <1>7 DEF SubmitAccepted
  <2>4. Pool!WorkerFree <=> runningCount < MaxConcurrency
    BY SameCardinality DEF Pool!WorkerFree, SlotAccounting
  <2> QED
    BY <1>7, <2>1, <2>2, <2>3, <2>4, AcceptCases, LimitsAssumption
       DEF Pool!Start, Pool!Enqueue
<1>8. ASSUME NEW t \in Tasks, SettleAny(t) PROVE Pool!Finish(t)
  <2>1. PICK kind \in {"result", "error"} : Settle(t, kind)
    BY <1>8 DEF SettleAny
  <2>2. answer' = [answer EXCEPT ![t] = kind] /\ answer[t] = "pending"
    BY <2>1, InFlightSettle DEF Settle, InFlight
  <2>3. /\ {u \in Tasks : answer'[u] \in {"result", "error"}}
               = {u \in Tasks : answer[u] \in {"result", "error"}} \cup {t}
        /\ {u \in Tasks : answer'[u] = "rejected"}
               = {u \in Tasks : answer[u] = "rejected"}
    BY <2>2 DEF TypeOK
  <2> QED
    BY <2>1, <2>3, SettleCases DEF Pool!Finish
<1>9. CASE UNCHANGED vars
  BY <1>9 DEF vars, Pool!poolVars
<1> QED
  BY <1>5, <1>6, <1>7, <1>8, <1>9 DEF Next, Submit, Pool!Next

\* The queue, with its counters and its loop, implements the pool that has
\* neither, whatever the limits, as long as one run may wait.
THEOREM QueueImplementsPool ==
    ASSUME MaxQueueLength > 0
    PROVE  Spec => ImplementsPool
<1>1. Init => Pool!Init
  BY DEF Init, Pool!Init
<1>2. []IInv /\ [][Next]_vars => [][Pool!Next]_(Pool!poolVars)
  BY PoolStep, PTL
<1> QED
  BY <1>1, <1>2, InductiveInvariant, PTL DEF Spec, ImplementsPool, Pool!Spec
=============================================================================
