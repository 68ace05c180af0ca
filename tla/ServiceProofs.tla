---------------------------- MODULE ServiceProofs ----------------------------
(***************************************************************************)
(* The reconcile loop implements OverridesService: each of its steps, seen *)
(* through the refinement mapping, is one of the service or none.          *)
(***************************************************************************)
EXTENDS ReconcilerService, WakeupProofs

-----------------------------------------------------------------------------
(* Windows.                                                                *)

AllSpecs == [Keys -> Specs \cup {Absent}]

LEMMA SpecsOfType ==
  ASSUME NEW crs \in Snapshots
  PROVE  SpecsOf(crs) \in AllSpecs
<1>1. \A k \in Keys : crs[k] # Absent => crs[k].spec \in Specs
  BY PresentType DEF CRs
<1> QED BY <1>1 DEF SpecsOf, AllSpecs

(* Sequences as functions.                                                 *)
LEMMA SequenceForms ==
  ASSUME NEW T, NEW s \in Seq(T), NEW x \in T
  PROVE  /\ Append(s, x) = [i \in 1 .. Len(s) + 1 |-> Append(s, x)[i]]
         /\ \A i \in 1 .. Len(s) : Append(s, x)[i] = s[i]
         /\ Append(s, x)[Len(s) + 1] = x
         /\ Len(s) > 1 => Tail(s) = [i \in 1 .. Len(s) - 1 |-> s[i+1]]
<1>1. Len(s) \in Nat
  OBVIOUS
<1>2. /\ Append(s, x) \in Seq(T)
      /\ Len(Append(s, x)) = Len(s) + 1
      /\ \A i \in 1 .. Len(s) : Append(s, x)[i] = s[i]
      /\ Append(s, x)[Len(s) + 1] = x
  BY <1>1
<1>3. \A r \in Seq(T) : r = [i \in 1 .. Len(r) |-> r[i]]
  OBVIOUS
<1>4. Append(s, x) = [i \in 1 .. Len(s) + 1 |-> Append(s, x)[i]]
  BY <1>2, <1>3
<1>5. ASSUME Len(s) > 1
      PROVE  Tail(s) = [i \in 1 .. Len(s) - 1 |-> s[i+1]]
  <2>1. /\ Tail(s) \in Seq(T)
        /\ Len(Tail(s)) = Len(s) - 1
        /\ \A i \in 1 .. Len(s) - 1 : Tail(s)[i] = s[i+1]
    BY <1>1, <1>5
  <2>2. Tail(s) = [i \in 1 .. Len(s) - 1 |-> Tail(s)[i]]
    BY <1>3, <2>1
  <2> QED BY <2>1, <2>2
<1> QED BY <1>2, <1>4, <1>5

(* The suffixes a window may be cut to.                                    *)
LEMMA SuffixFacts ==
  ASSUME NEW T, NEW s \in Seq(T), s # <<>>
  PROVE  /\ s \in Service!Suffixes(s)
         /\ <<s[Len(s)]>> \in Service!Suffixes(s)
         /\ Len(s) > 1 => Tail(s) \in Service!Suffixes(s)
<1>1. Len(s) \in Nat \ {0}
  OBVIOUS
<1>2. s = SubSeq(s, 1, Len(s))
  BY <1>1
<1>3. <<s[Len(s)]>> = SubSeq(s, Len(s), Len(s))
  BY <1>1
<1>4. Tail(s) = SubSeq(s, 2, Len(s))
  BY <1>1
<1>5. Len(s) > 1 => 2 \in 1 .. Len(s)
  BY <1>1
<1>6. 1 \in 1 .. Len(s) /\ Len(s) \in 1 .. Len(s)
  BY <1>1
<1> QED BY <1>2, <1>3, <1>4, <1>5, <1>6 DEF Service!Suffixes

WindowOf(h) == [i \in DOMAIN h |-> SpecsOf(h[i])]

LEMMA WindowFacts ==
  ASSUME NEW h \in Seq(Snapshots), h # <<>>
  PROVE  /\ WindowOf(h) \in Seq(AllSpecs) /\ WindowOf(h) # <<>>
         /\ Len(WindowOf(h)) = Len(h)
         /\ WindowOf(h)[1] = SpecsOf(Cached(h))
         /\ WindowOf(h)[Len(h)] = SpecsOf(Live(h))
         /\ WindowOf(<<Live(h)>>) = <<WindowOf(h)[Len(h)]>>
         /\ Len(h) > 1 => WindowOf(Tail(h)) = Tail(WindowOf(h))
         /\ \A x \in Snapshots :
              /\ WindowOf(Append(h, x)) = Append(WindowOf(h), SpecsOf(x))
              /\ WindowOf(<<x>>) = <<SpecsOf(x)>>
<1> DEFINE w == WindowOf(h)
<1>1. /\ Len(h) \in Nat \ {0} /\ DOMAIN h = 1 .. Len(h)
      /\ \A i \in 1 .. Len(h) : h[i] \in Snapshots
  BY HistoryFacts
<1>2. w = [i \in 1 .. Len(h) |-> SpecsOf(h[i])]
  BY <1>1 DEF WindowOf
<1>3. \A i \in 1 .. Len(h) : SpecsOf(h[i]) \in AllSpecs
  BY <1>1, SpecsOfType
<1>4. w \in Seq(AllSpecs) /\ Len(w) = Len(h)
  BY <1>1, <1>2, <1>3
<1>5. w # <<>>
  <2>1. Len(<<>>) = 0
    OBVIOUS
  <2> HIDE DEF w
  <2> QED BY <1>1, <1>4, <2>1
<1>6. w[1] = SpecsOf(Cached(h)) /\ w[Len(h)] = SpecsOf(Live(h))
  BY <1>1, <1>2 DEF Cached, Live
<1>7. ASSUME NEW x \in Snapshots
      PROVE  WindowOf(<<x>>) = <<SpecsOf(x)>>
  BY DEF WindowOf
<1>8. WindowOf(<<Live(h)>>) = <<w[Len(h)]>>
  BY <1>6, <1>7, HistoryFacts
<1>9. ASSUME Len(h) > 1
      PROVE  WindowOf(Tail(h)) = Tail(w)
  <2>1. /\ Tail(h) \in Seq(Snapshots) /\ Len(Tail(h)) = Len(h) - 1
        /\ \A i \in 1 .. Len(h) - 1 : Tail(h)[i] = h[i+1]
    BY <1>9, TailFacts
  <2>2. DOMAIN Tail(h) = 1 .. Len(h) - 1
    BY <1>1, <2>1
  <2>3. WindowOf(Tail(h)) = [i \in 1 .. Len(h) - 1 |-> SpecsOf(h[i+1])]
    BY <2>1, <2>2 DEF WindowOf
  <2>4. Tail(w) = [i \in 1 .. Len(h) - 1 |-> w[i+1]]
    <3>1. Len(w) > 1
      BY <1>4, <1>9
    <3>2. PICK x \in AllSpecs : TRUE
      BY <1>1, <1>3
    <3> HIDE DEF w
    <3> QED BY <1>4, <3>1, <3>2, SequenceForms
  <2>5. \A i \in 1 .. Len(h) - 1 : w[i+1] = SpecsOf(h[i+1])
    BY <1>1, <1>2
  <2> HIDE DEF w
  <2> QED BY <2>3, <2>4, <2>5
<1>10. ASSUME NEW x \in Snapshots
       PROVE  WindowOf(Append(h, x)) = Append(w, SpecsOf(x))
  <2> DEFINE a == Append(h, x)
             b == Append(w, SpecsOf(x))
  <2>1. /\ a \in Seq(Snapshots) /\ Len(a) = Len(h) + 1
        /\ \A i \in 1 .. Len(h) : a[i] = h[i]
        /\ a[Len(h) + 1] = x
    BY AppendFacts
  <2>2. DOMAIN a = 1 .. Len(h) + 1
    <3> HIDE DEF a
    <3> QED BY <1>1, <2>1
  <2>3. /\ b = [i \in 1 .. Len(h) + 1 |-> b[i]]
        /\ \A i \in 1 .. Len(h) : b[i] = w[i]
        /\ b[Len(h) + 1] = SpecsOf(x)
    <3>1. SpecsOf(x) \in AllSpecs
      BY SpecsOfType
    <3> HIDE DEF w
    <3> QED BY <1>4, <3>1, SequenceForms
  <2>4. ASSUME NEW i \in 1 .. Len(h) + 1
        PROVE  SpecsOf(a[i]) = b[i]
    <3>1. CASE i \in 1 .. Len(h)
      <4>1. w[i] = SpecsOf(h[i])
        BY <1>2, <3>1
      <4> HIDE DEF a, b, w
      <4> QED BY <2>1, <2>3, <3>1, <4>1
    <3>2. CASE i = Len(h) + 1
      <4> HIDE DEF a, b, w
      <4> QED BY <2>1, <2>3, <3>2
    <3>3. i \in 1 .. Len(h) \/ i = Len(h) + 1
      BY <1>1, <2>4
    <3> HIDE DEF a, b, w
    <3> QED BY <3>1, <3>2, <3>3
  <2>5. WindowOf(a) = [i \in 1 .. Len(h) + 1 |-> SpecsOf(a[i])]
    <3> HIDE DEF a
    <3> QED BY <2>2 DEF WindowOf
  <2>6. WindowOf(a) = b
    <3> HIDE DEF a, b, w
    <3> QED BY <2>3, <2>4, <2>5
  <2> QED BY <2>6
<1> QED BY <1>4, <1>5, <1>6, <1>7, <1>8, <1>9, <1>10

-----------------------------------------------------------------------------
(* The refinement mapping, action by action.                               *)

(* The window and its suffixes in a state of the loop.                     *)
LEMMA WindowState ==
  ASSUME TypeOK
  PROVE  /\ serviceWindow = WindowOf(crHist)
         /\ serviceWindow[1] = SpecsOf(Cached(crHist))
         /\ serviceWindow \in Service!Suffixes(serviceWindow)
         /\ WindowOf(<<Live(crHist)>>) \in Service!Suffixes(serviceWindow)
         /\ Len(crHist) > 1 =>
              WindowOf(Tail(crHist)) \in Service!Suffixes(serviceWindow)
         /\ \A x \in Snapshots :
              /\ SpecsOf(x) \in AllSpecs
              /\ WindowOf(Append(crHist, x)) \in
                   Service!Suffixes(Append(serviceWindow, SpecsOf(x)))
              /\ WindowOf(<<x>>) \in
                   Service!Suffixes(Append(serviceWindow, SpecsOf(x)))
<1> DEFINE w == WindowOf(crHist)
<1>1. /\ w \in Seq(AllSpecs) /\ w # <<>>
      /\ Len(w) = Len(crHist)
      /\ w[1] = SpecsOf(Cached(crHist))
      /\ WindowOf(<<Live(crHist)>>) = <<w[Len(crHist)]>>
      /\ Len(crHist) > 1 => WindowOf(Tail(crHist)) = Tail(w)
      /\ \A x \in Snapshots :
           /\ WindowOf(Append(crHist, x)) = Append(w, SpecsOf(x))
           /\ WindowOf(<<x>>) = <<SpecsOf(x)>>
  BY WindowFacts DEF TypeOK
<1>2. serviceWindow = w
  BY DEF serviceWindow, WindowOf
<1> HIDE DEF w
<1>3. ASSUME NEW x \in Snapshots
      PROVE  /\ SpecsOf(x) \in AllSpecs
             /\ Append(w, SpecsOf(x)) \in Service!Suffixes(Append(w, SpecsOf(x)))
             /\ <<SpecsOf(x)>> \in Service!Suffixes(Append(w, SpecsOf(x)))
  <2> DEFINE sp == SpecsOf(x)
             a  == Append(w, sp)
  <2>1. sp \in AllSpecs
    BY SpecsOfType
  <2> HIDE DEF sp
  <2>2. /\ a \in Seq(AllSpecs) /\ a # <<>>
        /\ a[Len(a)] = sp
    BY <1>1, <2>1, AppendFacts DEF Live
  <2> HIDE DEF a
  <2>3. a \in Service!Suffixes(a) /\ <<sp>> \in Service!Suffixes(a)
    BY <2>2, SuffixFacts
  <2> QED BY <2>1, <2>3 DEF a, sp
<1>4. /\ w \in Service!Suffixes(w)
      /\ <<w[Len(w)]>> \in Service!Suffixes(w)
      /\ Len(w) > 1 => Tail(w) \in Service!Suffixes(w)
  BY <1>1, SuffixFacts
<1>5. ASSUME NEW x \in Snapshots
      PROVE  /\ SpecsOf(x) \in AllSpecs
             /\ WindowOf(Append(crHist, x)) \in
                  Service!Suffixes(Append(serviceWindow, SpecsOf(x)))
             /\ WindowOf(<<x>>) \in
                  Service!Suffixes(Append(serviceWindow, SpecsOf(x)))
  BY <1>1, <1>2, <1>3
<1>6. /\ serviceWindow = WindowOf(crHist)
      /\ serviceWindow[1] = SpecsOf(Cached(crHist))
      /\ serviceWindow \in Service!Suffixes(serviceWindow)
      /\ WindowOf(<<Live(crHist)>>) \in Service!Suffixes(serviceWindow)
      /\ Len(crHist) > 1 =>
           WindowOf(Tail(crHist)) \in Service!Suffixes(serviceWindow)
  BY <1>1, <1>2, <1>4 DEF w
<1> QED BY <1>5, <1>6

LEMMA SameView == UNCHANGED <<pc, seen>> => UNCHANGED serviceView
BY DEF serviceView, PastGather

LEMMA SameVacancy == UNCHANGED <<boot, cmHist>> => UNCHANGED serviceVacancy
BY DEF serviceVacancy

LEMMA SameWindow == UNCHANGED crHist => UNCHANGED serviceWindow
BY DEF serviceWindow

(* A write to a CR is a change of the CRs, though it may change no spec.   *)
LEMMA WriteChanges ==
  ASSUME TypeOK, NEW k \in Keys, NEW cr \in CRs \cup {Absent}, WriteCR(k, cr),
         UNCHANGED <<cmHist, boot, pc, seen>>
  PROVE  Service!Change
<1> DEFINE new == [Live(crHist) EXCEPT ![k] = cr]
<1>1. new \in Snapshots
  BY TypeFacts DEF Snapshots
<1>2. crHist' = Append(crHist, new) \/ crHist' = <<new>>
  BY DEF WriteCR, Push
<1> HIDE DEF new
<1>3. serviceWindow' = WindowOf(crHist')
  BY DEF serviceWindow, WindowOf
<1>4. SpecsOf(new) \in AllSpecs
  BY <1>1, SpecsOfType
<1>5. serviceWindow' \in Service!Suffixes(Append(serviceWindow, SpecsOf(new)))
  BY <1>1, <1>2, <1>3, WindowState
<1>6. UNCHANGED <<serviceView, serviceVacancy, Live(cmHist)>>
  BY SameView, SameVacancy
<1> QED BY <1>4, <1>5, <1>6 DEF Service!Change, AllSpecs

LEMMA ServiceUserEdit ==
  ASSUME TypeOK, UserEdit
  PROVE  Service!Change
<1>1. PICK k \in Keys, cr \in CRs \cup {Absent} : WriteCR(k, cr)
  <2>1. PICK k \in Keys : \/ \E spec \in Specs : CreateCR(k, spec) \/ UpdateSpec(k, spec)
                         \/ DeleteCR(k)
    BY DEF UserEdit
  <2>2. ASSUME NEW spec \in Specs, CreateCR(k, spec)
        PROVE  \E cr \in CRs \cup {Absent} : WriteCR(k, cr)
    BY <2>2, NewCRType DEF CreateCR
  <2>3. ASSUME NEW spec \in Specs, UpdateSpec(k, spec)
        PROVE  \E cr \in CRs \cup {Absent} : WriteCR(k, cr)
    <3>1. Live(crHist)[k] \in CRs
      BY <2>3, TypeFacts, PresentType DEF UpdateSpec
    <3>2. [Live(crHist)[k] EXCEPT !.spec = spec, !.generation = @ + 1] \in CRs
      BY <3>1, UpdatedCRType
    <3> QED BY <2>3, <3>2 DEF UpdateSpec
  <2>4. ASSUME DeleteCR(k)
        PROVE  \E cr \in CRs \cup {Absent} : WriteCR(k, cr)
    BY <2>4 DEF DeleteCR
  <2> QED BY <2>1, <2>2, <2>3, <2>4
<1> QED BY <1>1, WriteChanges DEF UserEdit, bootVars

LEMMA ServiceStatusStep ==
  ASSUME BaseInv, NEW k \in Keys, UpdateStatus(k) \/ StatusError(k)
  PROVE  Service!Change \/ UNCHANGED Service!serviceVars
<1>1. /\ pc = "status" /\ UNCHANGED <<cmHist, boot, pc, seen>>
      /\ WriteStatus(k) \/ UNCHANGED crHist
  BY StatusStep DEF bootVars
<1>2. CASE WriteStatus(k)
  BY <1>1, <1>2, StatusWriteFacts, WriteChanges DEF BaseInv
<1>3. CASE UNCHANGED crHist
  BY <1>1, <1>3, SameView, SameVacancy, SameWindow DEF Service!serviceVars
<1> QED BY <1>1, <1>2, <1>3

LEMMA ServiceCREvents ==
  ASSUME TypeOK, DeliverCR \/ RelistCR
  PROVE  Service!Advance
<1>1. \/ Len(crHist) > 1 /\ crHist' = Tail(crHist)
      \/ crHist' = <<Live(crHist)>>
  BY DEF DeliverCR, RelistCR
<1>2. UNCHANGED <<cmHist, pc, seen, boot>>
  BY DEF DeliverCR, RelistCR, locals, bootVars
<1>3. serviceWindow' = WindowOf(crHist')
  BY DEF serviceWindow, WindowOf
<1>4. serviceWindow' \in Service!Suffixes(serviceWindow)
  BY <1>1, <1>3, WindowState
<1>5. UNCHANGED <<serviceView, serviceVacancy, Live(cmHist)>>
  BY <1>2, SameView, SameVacancy
<1> QED BY <1>4, <1>5 DEF Service!Advance

(* Whether there is a vacancy is a matter of yes and no.                   *)
LEMMA VacancyType == serviceVacancy \in BOOLEAN /\ serviceVacancy' \in BOOLEAN
BY DEF serviceVacancy

(* A vacancy ends when the cache no longer shows it.                       *)
LEMMA ServiceCMEvents ==
  ASSUME TypeOK, DeliverCM \/ RelistCM
  PROVE  Service!Close \/ UNCHANGED Service!serviceVars
<1>1. \/ Len(cmHist) > 1 /\ cmHist' = Tail(cmHist)
      \/ cmHist' = <<Live(cmHist)>>
  BY DEF DeliverCM, RelistCM
<1>2. UNCHANGED <<crHist, pc, seen, boot>>
  BY DEF DeliverCM, RelistCM, locals, bootVars
<1>3. /\ Len(cmHist) \in Nat \ {0} /\ DOMAIN cmHist = 1 .. Len(cmHist)
      /\ Live(cmHist) = cmHist[Len(cmHist)]
  BY HistoryFacts DEF TypeOK, Live
<1>4. /\ Live(cmHist') = Live(cmHist)
      /\ \A i \in DOMAIN cmHist' : \E j \in DOMAIN cmHist : cmHist'[i] = cmHist[j]
  <2>1. CASE Len(cmHist) > 1 /\ cmHist' = Tail(cmHist)
    <3>1. /\ Tail(cmHist) \in Seq(ConfigMaps)
          /\ Len(Tail(cmHist)) = Len(cmHist) - 1
          /\ \A i \in 1 .. Len(cmHist) - 1 : Tail(cmHist)[i] = cmHist[i+1]
          /\ Live(Tail(cmHist)) = Live(cmHist)
      BY <2>1, TailFacts DEF TypeOK
    <3>2. DOMAIN cmHist' = 1 .. Len(cmHist) - 1
      BY <1>3, <2>1, <3>1
    <3>3. \A i \in 1 .. Len(cmHist) - 1 : i + 1 \in DOMAIN cmHist
      BY <1>3
    <3> QED BY <2>1, <3>1, <3>2, <3>3
  <2>2. CASE cmHist' = <<Live(cmHist)>>
    <3>1. DOMAIN cmHist' = {1} /\ cmHist'[1] = Live(cmHist) /\ Live(cmHist') = Live(cmHist)
      BY <2>2 DEF Live
    <3>2. Len(cmHist) \in DOMAIN cmHist
      BY <1>3
    <3> QED BY <1>3, <3>1, <3>2
  <2> QED BY <1>1, <2>1, <2>2
<1>5. serviceVacancy' => serviceVacancy
  BY <1>2, <1>4 DEF serviceVacancy
<1>6. serviceVacancy' = serviceVacancy \/ serviceVacancy' = FALSE
  BY <1>5, VacancyType
<1>7. UNCHANGED <<serviceWindow, serviceView>>
  BY <1>2, SameView, SameWindow
<1> QED BY <1>4, <1>6, <1>7 DEF Service!Close, Service!serviceVars

(* What a write of the ConfigMap does to a vacancy: none arises but by a   *)
(* deletion.                                                               *)
LEMMA PushVacancy ==
  ASSUME TypeOK, NEW cm, cmHist' = Push(cmHist, cm), boot' = boot
  PROVE  /\ up /\ cm # Absent => UNCHANGED serviceVacancy
         /\ serviceVacancy' = serviceVacancy \/ serviceVacancy' = (cm = Absent)
<1>1. Len(cmHist) \in Nat \ {0} /\ DOMAIN cmHist = 1 .. Len(cmHist)
  BY HistoryFacts DEF TypeOK
<1>2. CASE up
  <2>1. cmHist' = Append(cmHist, cm)
    BY <1>2 DEF Push
  <2>2. /\ DOMAIN cmHist' = 1 .. Len(cmHist) + 1
        /\ \A i \in 1 .. Len(cmHist) : cmHist'[i] = cmHist[i]
        /\ cmHist'[Len(cmHist) + 1] = cm
    BY <1>1, <2>1 DEF TypeOK
  <2>3. (\E i \in DOMAIN cmHist' : cmHist'[i] = Absent)
          <=> (\E i \in DOMAIN cmHist : cmHist[i] = Absent) \/ cm = Absent
    BY <1>1, <2>2
  <2> QED BY <2>3 DEF serviceVacancy
<1>3. CASE ~ up
  <2>1. DOMAIN cmHist' = {1} /\ cmHist'[1] = cm
    BY <1>3 DEF Push
  <2>2. (\E i \in DOMAIN cmHist' : cmHist'[i] = Absent) <=> cm = Absent
    BY <2>1
  <2> QED BY <1>3, <2>2 DEF serviceVacancy
<1> QED BY <1>2, <1>3

LEMMA ServiceTamper ==
  ASSUME TypeOK, Tamper
  PROVE  Service!Interfere
<1>1. PICK cm \in {Absent, NoKey} \cup Foreign : cmHist' = Push(cmHist, cm)
  BY DEF Tamper
<1>2. UNCHANGED <<crHist, pc, seen, boot>>
  BY DEF Tamper, process, locals, bootVars
<1>3. Live(cmHist') = cm
  <2>1. cm \in ConfigMaps
    BY DEF ConfigMaps
  <2> QED BY <1>1, <2>1, PushFacts DEF TypeOK
<1>4. serviceVacancy' \in {serviceVacancy, Live(cmHist') = Absent}
  BY <1>1, <1>2, <1>3, PushVacancy
<1>5. UNCHANGED <<serviceWindow, serviceView>>
  BY <1>2, SameView, SameWindow
<1> QED BY <1>3, <1>4, <1>5 DEF Service!Interfere

(* The end of a reconcile, however it came about.                          *)
LEMMA ServiceEndReconcile ==
  ASSUME TypeOK, EndReconcile, UNCHANGED <<crHist, cmHist, boot>>
  PROVE  Service!Forget
<1>1. serviceView' = NoView
  BY DEF EndReconcile, serviceView, PastGather
<1>2. UNCHANGED <<serviceWindow, serviceVacancy, Live(cmHist)>>
  BY SameWindow, SameVacancy
<1>3. serviceWindow' \in Service!Suffixes(serviceWindow)
  BY <1>2, WindowState
<1> QED BY <1>1, <1>2, <1>3 DEF Service!Forget

LEMMA ServiceGather ==
  ASSUME TypeOK, Gather
  PROVE  Service!Look \/ Service!Forget
<1>1. UNCHANGED <<crHist, cmHist, boot>>
  BY DEF Gather, bootVars
<1>2. EndReconcile \/ (pc' = "apply" /\ seen' = Cached(crHist))
  BY DEF Gather, FailReconcile
<1>3. CASE pc' = "apply" /\ seen' = Cached(crHist)
  <2>1. serviceView' = serviceWindow[1]
    BY <1>3, WindowState DEF serviceView, PastGather
  <2>2. UNCHANGED <<serviceWindow, serviceVacancy, Live(cmHist)>>
    BY <1>1, SameWindow, SameVacancy
  <2> QED BY <2>1, <2>2 DEF Service!Look
<1> QED BY <1>1, <1>2, <1>3, ServiceEndReconcile

(* A patch serves the snapshot that was listed, and leaves any vacancy to  *)
(* the bootstrap.                                                          *)
LEMMA PatchServes ==
  ASSUME BaseInv, BodyFromSeen, pc = "patch", ServerSideApply(body),
         UNCHANGED <<crHist, boot>>, serviceView' \in {serviceView, NoView}
  PROVE  Service!Serve
<1>1. up /\ PastGather /\ body \in Bodies /\ seen \in Snapshots
  BY DEF BaseInv, PhaseInv, PastGather, TypeOK
<1>2. serviceView = SpecsOf(seen)
  BY <1>1 DEF serviceView
<1>3. serviceView # NoView
  BY <1>1, <1>2, SpecsOfType, NoViewAssumption DEF AllSpecs
<1>4. Live(cmHist') = Desired(serviceView)
  BY <1>1, <1>2, ApplyType DEF BaseInv, BodyFromSeen
<1>5. UNCHANGED serviceVacancy
  <2>1. body # Absent
    BY <1>1, DistinctAssumption
  <2> QED BY <1>1, <2>1, SameVacancy, PushVacancy DEF ServerSideApply, BaseInv
<1>6. UNCHANGED serviceWindow
  BY SameWindow
<1> QED BY <1>3, <1>4, <1>5, <1>6 DEF Service!Serve

LEMMA ServiceReconcile ==
  ASSUME BaseInv, BodyFromSeen,
         CheckDrift \/ ApplyGet \/ PatchCM \/ ReGet \/ ReconcileDone \/ APIError
  PROVE  \/ Service!Serve
         \/ Service!Forget
         \/ UNCHANGED Service!serviceVars
<1> USE DEF BaseInv
<1>1. CASE UNCHANGED <<crHist, cmHist, boot, serviceView>>
  BY <1>1, SameWindow, SameVacancy DEF Service!serviceVars
<1>2. CASE EndReconcile /\ UNCHANGED <<crHist, cmHist, boot>>
  BY <1>2, ServiceEndReconcile
<1>3. CASE CheckDrift
  <2>1. UNCHANGED serviceView
    BY <1>3 DEF CheckDrift, serviceView, PastGather
  <2> QED BY <1>1, <1>3, <2>1 DEF CheckDrift, bootVars
<1>4. CASE ApplyGet
  <2>1. UNCHANGED serviceView
    BY <1>4 DEF ApplyGet, Applied, serviceView, PastGather
  <2> QED BY <1>1, <1>4, <2>1 DEF ApplyGet, bootVars
<1>5. CASE PatchCM
  <2>1. UNCHANGED serviceView
    BY <1>5 DEF PatchCM, serviceView, PastGather
  <2> QED BY <1>5, <2>1, PatchServes DEF PatchCM, bootVars
<1>6. CASE ReGet
  <2>1. CASE Cached(cmHist) = Absent
    BY <1>2, <1>6, <2>1 DEF ReGet, FailReconcile, bootVars
  <2>2. CASE Cached(cmHist) # Absent
    <3>1. UNCHANGED serviceView
      BY <1>6, <2>2 DEF ReGet, Applied, serviceView, PastGather
    <3> QED BY <1>1, <1>6, <3>1 DEF ReGet, bootVars
  <2> QED BY <2>1, <2>2
<1>7. CASE ReconcileDone
  BY <1>2, <1>7 DEF ReconcileDone, bootVars
<1>8. CASE APIError
  <2>1. EndReconcile /\ UNCHANGED <<crHist, boot>>
    BY <1>8 DEF APIError, FailReconcile, bootVars
  <2>2. CASE pc = "patch" /\ ServerSideApply(body)
    <3>1. serviceView' = NoView
      BY <2>1 DEF EndReconcile, serviceView, PastGather
    <3> QED BY <2>1, <2>2, <3>1, PatchServes
  <2>3. CASE UNCHANGED cmHist
    BY <1>2, <2>1, <2>3
  <2> QED BY <1>8, <2>2, <2>3 DEF APIError
<1> QED BY <1>3, <1>4, <1>5, <1>6, <1>7, <1>8

LEMMA ServiceExit ==
  ASSUME TypeOK, Exit
  PROVE  Service!Forget
<1>1. serviceView' = NoView
  BY DEF Exit, EndReconcile, serviceView, PastGather
<1>2. serviceWindow' \in Service!Suffixes(serviceWindow)
  <2>1. serviceWindow' = WindowOf(<<Live(crHist)>>)
    BY DEF Exit, serviceWindow, WindowOf
  <2> QED BY <2>1, WindowState
<1>3. Live(cmHist') = Live(cmHist) /\ serviceVacancy' = (Live(cmHist) = Absent)
  <2>1. /\ DOMAIN cmHist' = {1} /\ cmHist'[1] = Live(cmHist)
        /\ boot' = "get" /\ Live(cmHist') = Live(cmHist)
    BY DEF Exit, Live
  <2> QED BY <2>1 DEF serviceVacancy
<1> QED BY <1>1, <1>2, <1>3 DEF Service!Forget

(* The bootstrap finds a vacancy, fills it, or lets it go.                 *)
LEMMA ServiceBootStep ==
  ASSUME BaseInv, BootStep
  PROVE  \/ Service!Fill
         \/ Service!Close
         \/ Service!Forget
         \/ UNCHANGED Service!serviceVars
<1> USE DEF BaseInv
<1>1. CASE UNCHANGED <<crHist, cmHist, pc, seen>> /\ boot' \in {"set", "done"}
  <2>1. serviceVacancy' = FALSE
    BY <1>1 DEF serviceVacancy
  <2> QED BY <1>1, <2>1, SameWindow, SameView DEF Service!Close
<1>2. CASE /\ UNCHANGED <<crHist, cmHist, pc, seen>>
           /\ serviceVacancy /\ serviceVacancy'
  BY <1>2, SameWindow, SameView, VacancyType DEF Service!serviceVars
<1>3. CASE BootGet
  <2>1. CASE boot' = "apply"
    <3>1. boot = "get" /\ cmHist[1] = Absent /\ 1 \in DOMAIN cmHist
      BY <1>3, <2>1, HistoryFacts DEF BootGet, Cached, TypeOK
    <3>2. serviceVacancy /\ serviceVacancy'
      BY <2>1, <3>1 DEF serviceVacancy
    <3> QED BY <1>2, <1>3, <3>2 DEF BootGet, locals
  <2>2. CASE boot' = "set"
    BY <1>1, <1>3, <2>2 DEF BootGet, locals
  <2> QED BY <1>3, <2>1, <2>2 DEF BootGet
<1>4. CASE BootApplyGet
  <2>1. CASE boot' = "patch"
    <3>1. serviceVacancy /\ serviceVacancy'
      BY <1>4, <2>1 DEF BootApplyGet, serviceVacancy
    <3> QED BY <1>2, <1>4, <3>1 DEF BootApplyGet, locals
  <2>2. CASE boot' = "set"
    BY <1>1, <1>4, <2>2 DEF BootApplyGet, locals
  <2> QED BY <1>4, <2>1, <2>2 DEF BootApplyGet
<1>5. CASE BootPatch
  <2>1. serviceVacancy /\ serviceVacancy' = FALSE
    BY <1>5 DEF BootPatch, serviceVacancy
  <2>2. Live(cmHist') = EmptyBody
    BY <1>5, EmptyBodyType, ApplyType DEF BootPatch
  <2>3. UNCHANGED <<serviceWindow, serviceView>>
    BY <1>5, SameWindow, SameView DEF BootPatch, locals
  <2> QED BY <2>1, <2>2, <2>3 DEF Service!Fill
<1>6. CASE BootReGet
  <2>1. CASE Exit
    BY <2>1, ServiceExit
  <2>2. CASE ~ Exit
    BY <1>1, <1>6, <2>2 DEF BootReGet, locals
  <2> QED BY <2>1, <2>2
<1>7. CASE BootSet
  BY <1>1, <1>7 DEF BootSet, locals
<1> QED BY <1>3, <1>4, <1>5, <1>6, <1>7 DEF BootStep

-----------------------------------------------------------------------------
LEMMA ServiceInitial == Init => Service!ServiceInit
<1> SUFFICES ASSUME Init PROVE Service!ServiceInit
  OBVIOUS
<1>1. PICK x : crHist = <<x>>
  BY DEF Init
<1>2. x \in Snapshots
  <2>1. TypeOK
    BY TypeInit
  <2>2. Live(crHist) = x
    BY <1>1 DEF Live
  <2> QED BY <2>1, <2>2, TypeFacts
<1>3. serviceWindow = <<SpecsOf(x)>> /\ SpecsOf(x) \in AllSpecs
  BY <1>1, <1>2, SpecsOfType DEF serviceWindow
<1>4. serviceView = NoView
  BY DEF Init, serviceView, PastGather
<1>5. PICK cm \in InitialCMs : cmHist = <<cm>>
  BY DEF Init
<1>6. DOMAIN cmHist = {1} /\ cmHist[1] = cm /\ Live(cmHist) = cm
  BY <1>5 DEF Live
<1>7. serviceVacancy = (Live(cmHist) = Absent)
  BY <1>6 DEF Init, serviceVacancy
<1>8. Live(cmHist) \in {Absent, NoKey} \cup Foreign
  BY <1>6, InitialAssumption
<1> QED BY <1>3, <1>4, <1>7, <1>8 DEF Service!ServiceInit, AllSpecs

LEMMA ServiceStep ==
  ASSUME BaseInv, BodyFromSeen, [Next]_vars
  PROVE  [Service!ServiceNext]_(Service!serviceVars)
<1> USE DEF BaseInv, Service!ServiceNext
<1>1. CASE UserEdit
  BY <1>1, ServiceUserEdit
<1>2. CASE Tamper
  BY <1>2, ServiceTamper
<1>3. CASE DeliverCR \/ RelistCR
  BY <1>3, ServiceCREvents
<1>4. CASE DeliverCM \/ RelistCM
  BY <1>4, ServiceCMEvents
<1>5. CASE Gather
  BY <1>5, ServiceGather
<1>6. CASE CheckDrift \/ ApplyGet \/ PatchCM \/ ReGet \/ ReconcileDone \/ APIError
  BY <1>6, ServiceReconcile
<1>7. ASSUME NEW k \in Keys, UpdateStatus(k) \/ StatusError(k)
      PROVE  [Service!ServiceNext]_(Service!serviceVars)
  BY <1>7, ServiceStatusStep
<1>8. CASE BootStep
  BY <1>8, ServiceBootStep
<1>9. CASE Crash
  BY <1>9, ServiceExit DEF Crash
<1>10. CASE Restart \/ UNCHANGED vars
  <2>1. UNCHANGED <<crHist, cmHist, pc, seen, boot>>
    BY <1>10 DEF Restart, vars, process, locals, bootVars
  <2> QED BY <2>1, SameWindow, SameView, SameVacancy DEF Service!serviceVars
<1> QED
  BY <1>1, <1>2, <1>3, <1>4, <1>5, <1>6, <1>7, <1>8, <1>9, <1>10
     DEF Next, ReconcileStep

(* The loop, its bootstrap, its failures and restarts implement the        *)
(* abstract service: what the backends are served is a third party's, the  *)
(* output of one snapshot of the CRs, no older than the one served before, *)
(* or the empty body in place of a ConfigMap that was missing.             *)
THEOREM ReconcilerImplementsService == Spec => ServesTheService
<1>1. BaseInv /\ BodyFromSeen /\ [Next]_vars
      => [Service!ServiceNext]_(Service!serviceVars)
  BY ServiceStep
<1> QED
  BY <1>1, ServiceInitial, BaseInvariant, BodyInvariant, PTL
     DEF Spec, ServesTheService, Service!ServiceSpec
=============================================================================
