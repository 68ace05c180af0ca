--------------------------- MODULE DisabledProofs ---------------------------
(***************************************************************************)
(* The watcher of a disabled target: what it writes belongs to the CR it   *)
(* stands in, and at rest it has left no CR unmarked.                      *)
(***************************************************************************)
EXTENDS DisabledTarget, SequenceTheorems, TLAPS

Histories == Seq([Names -> {Absent} \cup CRs])

(* A stopped process has no work; only a running one has events to come.   *)
TypeOK ==
  /\ crHist \in Histories /\ Len(crHist) > 0
  /\ up \in BOOLEAN
  /\ queue \subseteq Names
  /\ \/ busy = Absent
     \/ busy \in Names /\ got \in CRs
  /\ fresh \in BOOLEAN
  /\ ~ up => queue = {} /\ busy = Absent /\ Len(crHist) = 1

(* An update that carries the live resourceVersion was computed from the   *)
(* live CR.                                                                *)
FreshIsLive == fresh => busy # Absent /\ got = Live[busy]

(* The watcher has nothing to do for this CR.                              *)
Good(cr) == cr = Absent \/ ~ (Transitioned(cr) \/ GenDrifted(cr))

(* The informer has yet to deliver a change of n after the i-th state.     *)
Pending(n, i) ==
  \E j \in i..(Len(crHist) - 1) : GenerationChanged(crHist[j][n], crHist[j + 1][n])

(* A CR does not turn bad behind the predicate's back.                     *)
ChangesPass ==
  \A n \in Names : \A i \in 1..Len(crHist) :
    Good(crHist[i][n]) /\ ~ Good(Live[n]) => Pending(n, i)

(* Somebody will look at a bad CR.                                         *)
Woken ==
  up => \A n \in Names :
    ~ Good(Live[n]) => n \in queue \/ n = busy \/ Pending(n, 1)

IInv == TypeOK /\ FreshIsLive /\ NeverAhead /\ ChangesPass /\ Woken

-----------------------------------------------------------------------------
(* The history.                                                            *)

LEMMA LiveTyped ==
  ASSUME TypeOK
  PROVE  /\ Live \in [Names -> {Absent} \cup CRs]
         /\ Len(crHist) \in Nat \ {0}
  BY DEF TypeOK, Histories, Live

LEMMA PushType ==
  ASSUME TypeOK, NEW crs \in [Names -> {Absent} \cup CRs], Push(crs)
  PROVE  /\ crHist' \in Histories /\ Len(crHist') > 0
         /\ Live' = crs
         /\ ~ up => Len(crHist') = 1
<1>1. CASE up
  <2>1. /\ Append(crHist, crs) \in Histories
        /\ Len(Append(crHist, crs)) = Len(crHist) + 1
        /\ Append(crHist, crs)[Len(crHist) + 1] = crs
    BY DEF TypeOK, Histories
  <2> QED BY <1>1, <2>1, LiveTyped DEF Push, Live
<1>2. CASE ~ up
  <2>1. <<crs>> \in Histories /\ Len(<<crs>>) = 1 /\ <<crs>>[1] = crs
    BY DEF Histories
  <2> QED BY <1>2, <2>1 DEF Push, Live
<1> QED BY <1>1, <1>2

LEMMA PushPending ==
  ASSUME TypeOK, up, NEW crs \in [Names -> {Absent} \cup CRs], Push(crs),
         NEW n \in Names, NEW i \in 1..Len(crHist)
  PROVE  /\ Pending(n, i) => Pending(n, i)'
         /\ GenerationChanged(Live[n], crs[n]) => Pending(n, i)'
<1>1. /\ crHist' = Append(crHist, crs)
      /\ Len(crHist') = Len(crHist) + 1
      /\ \A j \in 1..Len(crHist) : crHist'[j] = crHist[j]
      /\ crHist'[Len(crHist) + 1] = crs
      /\ Len(crHist) \in Nat
  BY DEF TypeOK, Histories, Push
<1>2. ASSUME Pending(n, i)
      PROVE  Pending(n, i)'
  <2>1. PICK j \in i..(Len(crHist) - 1) :
          GenerationChanged(crHist[j][n], crHist[j + 1][n])
    BY <1>2 DEF Pending
  <2>2. GenerationChanged(crHist'[j][n], crHist'[j + 1][n])
    BY <1>1, <2>1
  <2>3. j \in i..(Len(crHist') - 1)
    BY <1>1, <2>1
  <2> QED BY <2>2, <2>3 DEF Pending
<1>3. ASSUME GenerationChanged(Live[n], crs[n])
      PROVE  Pending(n, i)'
  <2>1. GenerationChanged(crHist'[Len(crHist)][n], crHist'[Len(crHist) + 1][n])
    BY <1>1, <1>3 DEF Live
  <2>2. Len(crHist) \in i..(Len(crHist') - 1)
    BY <1>1
  <2> QED BY <2>1, <2>2 DEF Pending
<1> QED BY <1>2, <1>3

(* What every write to the API server has to respect.                      *)
Respectful(crs) ==
  \A n \in Names : Good(crs[n]) \/ ~ Good(Live[n]) \/ GenerationChanged(Live[n], crs[n])

LEMMA PushChanges ==
  ASSUME TypeOK, ChangesPass, NEW crs \in [Names -> {Absent} \cup CRs],
         Push(crs), Respectful(crs)
  PROVE  ChangesPass'
<1> SUFFICES ASSUME NEW n \in Names, NEW i \in 1..Len(crHist'),
                    Good(crHist'[i][n]), ~ Good(crs[n])
             PROVE  Pending(n, i)'
  BY PushType DEF ChangesPass
<1>1. CASE ~ up
  <2>1. crHist' = <<crs>> /\ i = 1
    BY <1>1 DEF Push
  <2> QED BY <2>1
<1>2. CASE up
  <2>1. /\ Len(crHist') = Len(crHist) + 1
        /\ \A j \in 1..Len(crHist) : crHist'[j] = crHist[j]
        /\ crHist'[Len(crHist) + 1] = crs
        /\ Len(crHist) \in Nat
    BY <1>2 DEF TypeOK, Histories, Push
  <2>2. i \in 1..Len(crHist) /\ crHist'[i] = crHist[i]
    BY <2>1
  <2>3. ~ Good(Live[n]) => Pending(n, i)
    BY <2>2 DEF ChangesPass
  <2>4. Good(Live[n]) => GenerationChanged(Live[n], crs[n])
    BY DEF Respectful
  <2> QED BY <1>2, <2>2, <2>3, <2>4, PushPending
<1> QED BY <1>1, <1>2

LEMMA PushWoken ==
  ASSUME TypeOK, Woken, up, NEW crs \in [Names -> {Absent} \cup CRs],
         Push(crs), Respectful(crs), NEW n \in Names, ~ Good(crs[n])
  PROVE  n \in queue \/ n = busy \/ Pending(n, 1)'
<1>1. 1 \in 1..Len(crHist)
  BY LiveTyped
<1>2. ~ Good(Live[n]) => n \in queue \/ n = busy \/ Pending(n, 1)
  BY DEF Woken
<1>3. Good(Live[n]) => GenerationChanged(Live[n], crs[n])
  BY DEF Respectful
<1> QED BY <1>1, <1>2, <1>3, PushPending

-----------------------------------------------------------------------------
(* What users write.                                                       *)

LEMMA WriteCRKeeps ==
  ASSUME IInv, NEW n \in Names, NEW cr \in {Absent} \cup CRs, WriteCR(n, cr),
         UNCHANGED <<up, queue, busy, got>>,
         Good(cr) \/ GenerationChanged(Live[n], cr),
         cr # Absent => cr.status.observedGeneration <= cr.generation
  PROVE  IInv'
<1> USE DEF IInv
<1> DEFINE crs == [Live EXCEPT ![n] = cr]
<1>1. /\ Live \in [Names -> {Absent} \cup CRs]
      /\ crs \in [Names -> {Absent} \cup CRs]
      /\ crs[n] = cr
      /\ \A m \in Names \ {n} : crs[m] = Live[m]
  BY LiveTyped
<1>2. Push(crs)
  BY DEF WriteCR
<1> HIDE DEF crs
<1>3. Live' = crs /\ crHist' \in Histories /\ Len(crHist') > 0 /\ (~ up => Len(crHist') = 1)
  BY <1>1, <1>2, PushType
<1>4. Respectful(crs)
  BY <1>1 DEF Respectful
<1>5. TypeOK'
  BY <1>3 DEF TypeOK, WriteCR
<1>6. FreshIsLive'
  BY <1>1, <1>3 DEF FreshIsLive, WriteCR, TypeOK
<1>7. NeverAhead'
  BY <1>1, <1>3 DEF NeverAhead
<1>8. ChangesPass'
  BY <1>1, <1>2, <1>4, PushChanges
<1>9. Woken'
  BY <1>1, <1>2, <1>3, <1>4, PushWoken DEF Woken
<1> QED BY <1>5, <1>6, <1>7, <1>8, <1>9

LEMMA EditedSpec ==
  ASSUME NEW cr \in CRs, NEW spec \in Specs
  PROVE  LET new == [cr EXCEPT !.spec = spec, !.generation = @ + 1]
         IN  /\ new \in CRs
             /\ new.generation = cr.generation + 1
             /\ new.status = cr.status
             /\ cr.generation \in Nat
             /\ cr.status.observedGeneration \in Nat
<1> DEFINE new == [cr EXCEPT !.spec = spec, !.generation = @ + 1]
<1>1. cr.generation \in Nat /\ cr.generation + 1 \in Nat
  BY DEF CRs
<1>2. new \in CRs
  BY <1>1 DEF CRs
<1>3. new.generation = cr.generation + 1 /\ new.status = cr.status
  BY DEF CRs
<1>4. cr.status.observedGeneration \in Nat
  BY DEF CRs
<1> QED BY <1>1, <1>2, <1>3, <1>4

LEMMA UserEditKeeps ==
  ASSUME IInv, UserEdit
  PROVE  IInv'
<1> USE DEF IInv
<1>1. UNCHANGED <<up, queue, busy, got>>
  BY DEF UserEdit
<1>2. PICK n \in Names :
        \/ \E spec \in Specs : CreateCR(n, spec) \/ UpdateSpec(n, spec)
        \/ DeleteCR(n)
  BY DEF UserEdit
<1>3. Live[n] \in {Absent} \cup CRs
  BY LiveTyped
<1>4. CASE DeleteCR(n)
  BY <1>1, <1>4, WriteCRKeeps DEF DeleteCR, Good
<1>5. ASSUME NEW spec \in Specs, CreateCR(n, spec)
      PROVE  IInv'
  <2>1. /\ NewCR(spec) \in CRs
        /\ NewCR(spec).status.observedGeneration <= NewCR(spec).generation
    BY DEF NewCR, NoStatus, CRs
  <2>2. GenerationChanged(Live[n], NewCR(spec))
    BY <1>5, <2>1, ObjectAssumption DEF CreateCR, GenerationChanged
  <2> QED BY <1>1, <1>5, <2>1, <2>2, WriteCRKeeps DEF CreateCR
<1>6. ASSUME NEW spec \in Specs, UpdateSpec(n, spec)
      PROVE  IInv'
  <2> DEFINE new == [Live[n] EXCEPT !.spec = spec, !.generation = @ + 1]
  <2>1. Live[n] \in CRs
    BY <1>3, <1>6 DEF UpdateSpec
  <2>2. /\ new \in CRs
        /\ new.generation = Live[n].generation + 1
        /\ new.status = Live[n].status
        /\ Live[n].generation \in Nat
        /\ Live[n].status.observedGeneration \in Nat
    BY <2>1, EditedSpec
  <2> HIDE DEF new
  <2>3. Live[n].status.observedGeneration <= Live[n].generation
    BY <1>6 DEF NeverAhead, UpdateSpec
  <2>4. GenerationChanged(Live[n], new)
    <3>1. Live[n] # Absent /\ new # Absent /\ Live[n].generation # new.generation
      BY <2>1, <2>2, ObjectAssumption
    <3> QED BY <3>1 DEF GenerationChanged
  <2>5. new.status.observedGeneration <= new.generation
    BY <2>2, <2>3
  <2>6. WriteCR(n, new)
    BY <1>6 DEF UpdateSpec, new
  <2> QED BY <1>1, <2>2, <2>4, <2>5, <2>6, WriteCRKeeps
<1> QED BY <1>2, <1>4, <1>5, <1>6

-----------------------------------------------------------------------------
(* What the watcher writes.                                                *)

LEMMA DisabledIsGood ==
  ASSUME NEW cr \in CRs
  PROVE  LET new == [cr EXCEPT !.status = Disabled(cr)]
         IN  /\ new \in CRs
             /\ Good(new)
             /\ new.status.observedGeneration <= new.generation
<1> DEFINE new == [cr EXCEPT !.status = Disabled(cr)]
<1>1. /\ Disabled(cr).applied = "TargetDisabled"
      /\ Disabled(cr).observedGeneration = cr.generation
      /\ Disabled(cr) \in [observedGeneration : Nat,
                           applied : {"none", "True", "False", "TargetDisabled"}]
  BY DEF Disabled, CRs
<1>2. new \in CRs /\ new.status = Disabled(cr) /\ new.generation = cr.generation
  BY <1>1 DEF CRs
<1>3. cr.generation \in Nat
  BY DEF CRs
<1> QED BY <1>1, <1>2, <1>3 DEF Good, Transitioned, GenDrifted

(* A status write leaves the CR good; all the others stand as they stood.  *)
LEMMA StatusWriteKeeps ==
  ASSUME IInv, busy # Absent, fresh, UNCHANGED up,
         Push([Live EXCEPT ![busy].status = Disabled(got)]),
         EndReconcile, queue' \in {queue, queue \cup {busy}}
  PROVE  IInv'
<1> USE DEF IInv
<1>1. busy \in Names /\ got \in CRs /\ got = Live[busy] /\ up
  BY DEF TypeOK, FreshIsLive
<1> DEFINE new == [got EXCEPT !.status = Disabled(got)]
           crs == [Live EXCEPT ![busy].status = Disabled(got)]
<1>2. new \in CRs /\ Good(new) /\ new.status.observedGeneration <= new.generation
  BY <1>1, DisabledIsGood
<1> HIDE DEF new
<1>3. crs = [Live EXCEPT ![busy] = new]
  BY <1>1, LiveTyped DEF new
<1> HIDE DEF crs
<1>4. /\ crs \in [Names -> {Absent} \cup CRs]
      /\ crs[busy] = new
      /\ \A m \in Names \ {busy} : crs[m] = Live[m]
  BY <1>1, <1>2, <1>3, LiveTyped
<1>5. Push(crs)
  BY DEF crs
<1>6. Live' = crs /\ crHist' \in Histories /\ Len(crHist') > 0
  BY <1>4, <1>5, PushType
<1>7. Respectful(crs)
  BY <1>2, <1>4 DEF Respectful
<1>8. TypeOK'
  BY <1>1, <1>6 DEF TypeOK, EndReconcile
<1>9. FreshIsLive'
  BY DEF FreshIsLive, EndReconcile
<1>10. NeverAhead'
  BY <1>2, <1>4, <1>6 DEF NeverAhead
<1>11. ChangesPass'
  BY <1>4, <1>5, <1>7, PushChanges
<1>12. Woken'
  BY <1>1, <1>2, <1>4, <1>5, <1>6, <1>7, PushWoken DEF Woken
<1> QED BY <1>8, <1>9, <1>10, <1>11, <1>12

(* A write that did not happen: the CR is gone, or its name is back in the *)
(* queue.                                                                  *)
LEMMA NoWriteKeeps ==
  ASSUME IInv, busy # Absent, UNCHANGED <<crHist, up>>, EndReconcile,
         queue' = queue \cup {busy} \/ (queue' = queue /\ Live[busy] = Absent)
  PROVE  IInv'
<1> USE DEF IInv
<1>1. Live' = Live
  BY DEF Live
<1>2. TypeOK'
  BY DEF TypeOK, EndReconcile
<1>3. FreshIsLive' /\ NeverAhead'
  BY <1>1 DEF FreshIsLive, NeverAhead, EndReconcile
<1>4. ChangesPass'
  BY <1>1 DEF ChangesPass, Pending
<1>5. Woken'
  BY <1>1 DEF Woken, Pending, Good
<1> QED BY <1>2, <1>3, <1>4, <1>5

LEMMA UpdateKeeps ==
  ASSUME IInv, Update \/ UpdateError
  PROVE  IInv'
<1>1. CASE Update
  <2>1. CASE fresh /\ Push([Live EXCEPT ![busy].status = Disabled(got)]) /\ UNCHANGED queue
    BY <1>1, <2>1, StatusWriteKeeps DEF Update
  <2>2. CASE UNCHANGED crHist /\ (queue' = queue \cup {busy} \/ (queue' = queue /\ Live[busy] = Absent))
    BY <1>1, <2>2, NoWriteKeeps DEF Update
  <2> QED BY <1>1, <2>1, <2>2 DEF Update
<1>2. CASE UpdateError
  <2>1. CASE UNCHANGED crHist
    BY <1>2, <2>1, NoWriteKeeps DEF UpdateError
  <2>2. CASE fresh /\ Push([Live EXCEPT ![busy].status = Disabled(got)])
    BY <1>2, <2>2, StatusWriteKeeps DEF UpdateError
  <2> QED BY <1>2, <2>1, <2>2 DEF UpdateError
<1> QED BY <1>1, <1>2

-----------------------------------------------------------------------------
(* The watch, the read and the life of the process.                        *)

LEMMA DeliverKeeps ==
  ASSUME IInv, Deliver
  PROVE  IInv'
<1> USE DEF IInv
<1>1. /\ crHist' = Tail(crHist)
      /\ up /\ UNCHANGED <<up, busy, got, fresh>>
      /\ queue' = queue \cup { n \in Names : GenerationChanged(crHist[1][n], crHist[2][n]) }
      /\ Len(crHist) > 1
  BY DEF Deliver
<1>2. /\ crHist' \in Histories
      /\ Len(crHist') = Len(crHist) - 1
      /\ \A i \in 1..(Len(crHist) - 1) : crHist'[i] = crHist[i + 1]
      /\ Len(crHist) \in Nat
  BY <1>1 DEF TypeOK, Histories
<1>3. Live' = Live
  BY <1>1, <1>2 DEF Live
<1>4. ASSUME NEW n \in Names, NEW i \in 1..Len(crHist'), Pending(n, i + 1)
      PROVE  Pending(n, i)'
  <2>1. PICK j \in (i + 1)..(Len(crHist) - 1) :
          GenerationChanged(crHist[j][n], crHist[j + 1][n])
    BY <1>4 DEF Pending
  <2>2. j - 1 \in i..(Len(crHist') - 1)
    BY <1>2, <2>1
  <2>3. crHist'[j - 1] = crHist[j] /\ crHist'[(j - 1) + 1] = crHist[j + 1]
    BY <1>2, <1>4, <2>1
  <2>4. GenerationChanged(crHist'[j - 1][n], crHist'[(j - 1) + 1][n])
    BY <2>1, <2>3
  <2> QED BY <2>2, <2>4 DEF Pending
<1>5. TypeOK'
  BY <1>1, <1>2 DEF TypeOK
<1>6. FreshIsLive' /\ NeverAhead'
  BY <1>1, <1>3 DEF FreshIsLive, NeverAhead
<1>7. ChangesPass'
  <2> SUFFICES ASSUME NEW n \in Names, NEW i \in 1..Len(crHist'),
                      Good(crHist'[i][n]), ~ Good(Live[n])
               PROVE  Pending(n, i)'
    BY <1>3 DEF ChangesPass
  <2>1. i + 1 \in 1..Len(crHist) /\ crHist'[i] = crHist[i + 1]
    BY <1>2
  <2> QED BY <1>4, <2>1 DEF ChangesPass
<1>8. Woken'
  <2> SUFFICES ASSUME NEW n \in Names, ~ Good(Live[n]), n \notin queue', n # busy
               PROVE  Pending(n, 1)'
    BY <1>1, <1>3 DEF Woken
  <2>1. Pending(n, 1) /\ ~ GenerationChanged(crHist[1][n], crHist[1 + 1][n])
    BY <1>1 DEF Woken
  <2>2. PICK j \in 1..(Len(crHist) - 1) :
          GenerationChanged(crHist[j][n], crHist[j + 1][n])
    BY <2>1 DEF Pending
  <2>3. j # 1
    BY <2>1, <2>2
  <2>4. Pending(n, 1 + 1)
    BY <1>2, <2>2, <2>3 DEF Pending
  <2>5. 1 \in 1..Len(crHist')
    BY <1>1, <1>2
  <2> QED BY <1>4, <2>4, <2>5
<1> QED BY <1>5, <1>6, <1>7, <1>8

LEMMA GetKeeps ==
  ASSUME IInv, NEW n \in Names, Get(n)
  PROVE  IInv'
<1> USE DEF IInv
<1> DEFINE cr == crHist[1][n]
           changed == cr # Absent /\ (Transitioned(cr) \/ GenDrifted(cr))
<1>1. /\ up /\ busy = Absent
      /\ queue' = queue \ {n}
      /\ busy' = IF changed THEN n ELSE Absent
      /\ got' = IF changed THEN cr ELSE Absent
      /\ fresh' = (changed /\ \A i \in DOMAIN crHist : crHist[i][n] = cr)
      /\ UNCHANGED <<crHist, up>>
  BY DEF Get, Cached
<1>2. changed <=> ~ Good(cr)
  BY DEF Good
<1>3. Live' = Live
  BY <1>1 DEF Live
<1>4. cr \in {Absent} \cup CRs /\ 1 \in 1..Len(crHist)
      /\ Len(crHist) \in DOMAIN crHist
  BY DEF TypeOK, Histories
<1>5. changed => cr \in CRs
  BY <1>4
<1> HIDE DEF changed, cr
<1>6. TypeOK'
  BY <1>1, <1>5 DEF TypeOK
<1>7. FreshIsLive'
  BY <1>1, <1>3, <1>4, ObjectAssumption DEF FreshIsLive, Live
<1>8. NeverAhead' /\ ChangesPass'
  BY <1>1, <1>3 DEF NeverAhead, ChangesPass, Pending
<1>9. Woken'
  <2> SUFFICES ASSUME NEW m \in Names, ~ Good(Live[m]), m \notin queue', m # busy'
               PROVE  Pending(m, 1)
    BY <1>1, <1>3 DEF Woken, Pending
  <2>1. CASE m # n
    BY <1>1, <2>1, ObjectAssumption DEF Woken
  <2>2. CASE m = n
    <3>1. Good(crHist[1][n])
      BY <1>1, <1>2, <2>2 DEF cr
    <3> QED BY <1>4, <2>2, <3>1 DEF ChangesPass
  <2> QED BY <2>1, <2>2
<1> QED BY <1>6, <1>7, <1>8, <1>9

LEMMA CrashKeeps ==
  ASSUME IInv, Crash
  PROVE  IInv'
<1> USE DEF IInv
<1>1. <<Live>> \in Histories /\ Len(<<Live>>) = 1 /\ <<Live>>[1] = Live
  BY LiveTyped DEF Histories
<1>2. /\ crHist' = <<Live>> /\ up' = FALSE /\ queue' = {} /\ EndReconcile
  BY DEF Crash
<1>3. Live' = Live /\ Len(crHist') = 1
  BY <1>1, <1>2 DEF Live
<1>4. TypeOK'
  <2>1. crHist' \in Histories /\ Len(crHist') = 1
    BY <1>1, <1>2
  <2>2. up' \in BOOLEAN /\ fresh' \in BOOLEAN /\ busy' = Absent /\ queue' = {}
    BY <1>2 DEF EndReconcile
  <2> QED BY <2>1, <2>2 DEF TypeOK
<1>5. FreshIsLive' /\ NeverAhead'
  BY <1>2, <1>3 DEF FreshIsLive, NeverAhead, EndReconcile
<1>6. ChangesPass'
  BY <1>1, <1>2, <1>3 DEF ChangesPass
<1>7. Woken'
  BY <1>2 DEF Woken
<1> QED BY <1>4, <1>5, <1>6, <1>7

LEMMA RestartKeeps ==
  ASSUME IInv, Restart
  PROVE  IInv'
<1> USE DEF IInv
<1>1. /\ ~ up /\ up' = TRUE
      /\ queue' = { n \in Names : Live[n] # Absent }
      /\ UNCHANGED <<crHist, busy, got, fresh>>
  BY DEF Restart
<1>2. Live' = Live
  BY <1>1 DEF Live
<1>3. TypeOK'
  BY <1>1 DEF TypeOK
<1>4. FreshIsLive' /\ NeverAhead' /\ ChangesPass'
  BY <1>1, <1>2 DEF FreshIsLive, NeverAhead, ChangesPass, Pending
<1>5. Woken'
  BY <1>1, <1>2 DEF Woken, Good
<1> QED BY <1>3, <1>4, <1>5

LEMMA StutterKeeps ==
  ASSUME IInv, UNCHANGED vars
  PROVE  IInv'
  BY DEF IInv, vars, TypeOK, FreshIsLive, NeverAhead, ChangesPass, Woken, Pending, Live

-----------------------------------------------------------------------------
LEMMA InitIInv ==
  ASSUME Init
  PROVE  IInv
<1>1. PICK crs \in [Names -> {Absent} \cup InitialCRs] : crHist = <<crs>>
  BY DEF Init
<1>2. crs \in [Names -> {Absent} \cup CRs]
  BY ObjectAssumption
<1>3. <<crs>> \in Histories /\ Len(<<crs>>) = 1 /\ <<crs>>[1] = crs
  BY <1>2 DEF Histories
<1>4. Live = crs /\ Len(crHist) = 1
  BY <1>1, <1>3 DEF Live
<1>5. TypeOK
  <2>1. crHist \in Histories /\ Len(crHist) = 1
    BY <1>1, <1>3
  <2>2. up \in BOOLEAN /\ fresh \in BOOLEAN /\ busy = Absent /\ queue = {}
    BY DEF Init
  <2> QED BY <2>1, <2>2 DEF TypeOK
<1>6. NeverAhead
  BY <1>4, ObjectAssumption DEF NeverAhead
<1>7. FreshIsLive /\ Woken
  BY DEF Init, FreshIsLive, Woken
<1>8. ChangesPass
  BY <1>1, <1>3, <1>4 DEF ChangesPass
<1> QED BY <1>5, <1>6, <1>7, <1>8 DEF IInv

LEMMA StepKeeps ==
  ASSUME IInv, [Next]_vars
  PROVE  IInv'
  BY UserEditKeeps, UpdateKeeps, DeliverKeeps, GetKeeps, CrashKeeps, RestartKeeps,
     StutterKeeps DEF Next, ReconcileStep

LEMMA Invariance == Spec => []IInv
  BY InitIInv, StepKeeps, PTL DEF Spec

(* For every set of names and specs, every limit on the disturbances and   *)
(* every start: what was computed for a CR that has been deleted never     *)
(* lands in its namesake.                                                  *)
THEOREM StatusNeverAhead == Spec => []NeverAhead
<1>1. IInv => NeverAhead
  BY DEF IInv
<1> QED BY <1>1, Invariance, PTL

(* A watcher at rest has marked every CR for its current generation: no    *)
(* stale read, refused update, error or restart loses a CR.                *)
THEOREM RestMeansMarked == Spec => []SettledMarked
<1>1. ASSUME IInv PROVE SettledMarked
  <2> SUFFICES ASSUME Settled, NEW n \in Names, Live[n] # Absent
               PROVE  /\ Live[n].status.applied = "TargetDisabled"
                      /\ Live[n].status.observedGeneration = Live[n].generation
    BY DEF SettledMarked, Marked
  <2>1. ~ Pending(n, 1)
    BY DEF Settled, Pending
  <2>2. Good(Live[n])
    BY <1>1, <2>1, ObjectAssumption DEF IInv, Woken, Settled
  <2> QED BY <2>2 DEF Good, Transitioned, GenDrifted
<1> QED BY <1>1, Invariance, PTL
=============================================================================
