--------------------------- MODULE ModelStoreProofs ---------------------------
(***************************************************************************)
(* For any keys, models, policies, topics and layouts, and for any failure *)
(* of any table write: the committed tables never hold a row that outlived *)
(* its model, the index of a unique immutable field is exact, and the six  *)
(* tables behave as one map of models, for callers who insert what a get   *)
(* can give back: every call maps to the map's call of that kind, or to    *)
(* its failure.                                                            *)
(***************************************************************************)
EXTENDS ModelStore, FiniteSetTheorems, TLAPS

\* The tables hold no row of the auxiliary tables under the key.
NoAux(t, pk) ==
  /\ \A x \in Targets : <<pk, x>> \notin t.vec
  /\ t.opt[pk] = None
  /\ \A topic \in Topics : t.subs[topic][pk] = None
  /\ t.blob[pk] = None

\* Tables as whole calls leave them.  A primary row is filed under its own key:
\* a delete removes relations by the key it reads from the row.
Whole(t) ==
  /\ t \in Tables
  /\ \A pk \in Pks : t.primary[pk] # None => t.primary[pk].pk = pk
  /\ NoOrphansIn(t)
  /\ ExactIn(t)

\* The model is the one its key leads to.
Live(t, m) == t.primary[m.pk] = Skeleton(m)

----------------------------------------------------------------------------
(* The five steps of an insert.                                            *)

\* The skeleton keeps the key and the indexed field.
LEMMA SkeletonFacts ==
  ASSUME NEW m \in Model
  PROVE  Skeleton(m) \in Model /\ Skeleton(m).pk = m.pk /\ Skeleton(m).sec = m.sec
<1>1. CASE layout.pure
  <2> DEFINE k == [m EXCEPT !.vec = <<>>, !.opt = None, !.blob = DefaultBlob]
  <2>1. Skeleton(m) = k
    BY <1>1 DEF Skeleton
  <2>2. <<>> \in Seq(Targets)
    OBVIOUS
  <2>3. k \in Model /\ k.pk = m.pk /\ k.sec = m.sec
    BY <2>2, ModelAssumption DEF Model
  <2> QED BY <2>1, <2>3
<1>2. CASE ~layout.pure
  BY <1>2 DEF Skeleton
<1> QED BY <1>1, <1>2

\* The models callers insert have keys, index values and no row's absence.
LEMMA ModelFacts ==
  ASSUME NEW m \in Models
  PROVE  /\ m \in Model /\ m.pk \in Pks /\ m.sec \in Secs /\ m.vec \in Seq(Targets)
         /\ m.opt \in Targets \cup {None} /\ m.blob \in Blobs
         /\ m # None /\ Skeleton(m) # None
<1>1. m \in Model
  BY ModelAssumption
<1>2. Skeleton(m) \in Model
  BY <1>1, SkeletonFacts
<1> QED BY <1>1, <1>2, ModelAssumption DEF Model

\* The primary row: the key was free or its model is replaced, and a unique
\* index value stays what it was.
LEMMA PrimaryInsertWhole ==
  ASSUME NEW t, Whole(t), NEW m \in Models
  PROVE  Whole(primary_insert(t, m)) /\ Live(primary_insert(t, m), m)
<1> DEFINE u == primary_insert(t, m)
<1>1. t \in Tables
  BY DEF Whole
<1>2. /\ u = [t EXCEPT !.primary = [t.primary EXCEPT ![m.pk] = Skeleton(m)]]
  BY <1>1 DEF primary_insert, Tables
<1>3. /\ u.primary = [t.primary EXCEPT ![m.pk] = Skeleton(m)]
      /\ u.secondary = t.secondary /\ u.vec = t.vec /\ u.opt = t.opt
      /\ u.subs = t.subs /\ u.blob = t.blob
  BY <1>1, <1>2 DEF Tables
<1>4. [t.primary EXCEPT ![m.pk] = Skeleton(m)] \in [Pks -> Model \cup {None}]
  BY <1>1, ModelFacts, SkeletonFacts DEF Tables
<1>5. u \in Tables
  BY <1>1, <1>2, <1>4 DEF Tables
<1>6. \A pk \in Pks : u.primary[pk] = IF pk = m.pk THEN Skeleton(m) ELSE t.primary[pk]
  BY <1>1, <1>3 DEF Tables
<1> HIDE DEF u
<1>7. \A pk \in Pks : u.primary[pk] # None => u.primary[pk].pk = pk
  BY <1>6, ModelFacts, SkeletonFacts DEF Whole
<1>8. NoOrphansIn(u)
  BY <1>3, <1>6, ModelFacts DEF Whole, NoOrphansIn
<1>9. ASSUME NEW n \in Models, UniqueSec(n), u.secondary[n.sec] # None
      PROVE  u.secondary[n.sec] = n.pk /\ u.primary[n.pk] # None /\ u.primary[n.pk].sec = n.sec
  <2>1. /\ t.secondary[n.sec] = n.pk /\ t.primary[n.pk] # None
        /\ t.primary[n.pk].sec = n.sec
    BY <1>3, <1>9 DEF Whole, ExactIn
  <2>2. n.pk = m.pk => m.sec = n.sec
    BY <1>9 DEF UniqueSec
  <2> QED BY <1>3, <1>6, <2>1, <2>2, ModelFacts, SkeletonFacts
<1>10. Whole(u)
  BY <1>5, <1>7, <1>8, <1>9 DEF Whole, ExactIn
<1>11. Live(u, m)
  BY <1>6, ModelFacts DEF Live
<1> QED BY <1>10, <1>11 DEF u

\* The index row leads to the live model.
LEMMA SecondaryInsertWhole ==
  ASSUME NEW t, Whole(t), NEW m \in Models, Live(t, m)
  PROVE  Whole(secondary_insert(t, m)) /\ Live(secondary_insert(t, m), m)
<1> DEFINE u == secondary_insert(t, m)
<1>1. t \in Tables
  BY DEF Whole
<1>2. u = [t EXCEPT !.secondary = [t.secondary EXCEPT ![m.sec] = m.pk]]
  BY <1>1 DEF secondary_insert, Tables
<1>3. /\ u.secondary = [t.secondary EXCEPT ![m.sec] = m.pk]
      /\ u.primary = t.primary /\ u.vec = t.vec /\ u.opt = t.opt
      /\ u.subs = t.subs /\ u.blob = t.blob
  BY <1>1, <1>2 DEF Tables
<1>4. [t.secondary EXCEPT ![m.sec] = m.pk] \in [Secs -> Pks \cup {None}]
  BY <1>1, ModelFacts DEF Tables
<1>5. u \in Tables
  BY <1>1, <1>2, <1>4 DEF Tables
<1>6. \A s \in Secs : u.secondary[s] = IF s = m.sec THEN m.pk ELSE t.secondary[s]
  BY <1>1, <1>3 DEF Tables
<1> HIDE DEF u
<1>7. NoOrphansIn(u)
  BY <1>3 DEF Whole, NoOrphansIn
<1>8. ASSUME NEW n \in Models, UniqueSec(n), u.secondary[n.sec] # None
      PROVE  u.secondary[n.sec] = n.pk /\ u.primary[n.pk] # None /\ u.primary[n.pk].sec = n.sec
  <2>1. CASE n.sec = m.sec
    <3>1. n.pk = m.pk
      BY <1>8, <2>1 DEF UniqueSec
    <3> QED BY <1>3, <1>6, <2>1, <3>1, ModelFacts, SkeletonFacts DEF Live
  <2>2. CASE n.sec # m.sec
    BY <1>3, <1>6, <1>8, <2>2, ModelFacts DEF Whole, ExactIn
  <2> QED BY <2>1, <2>2
<1>9. Whole(u)
  BY <1>3, <1>5, <1>7, <1>8 DEF Whole, ExactIn
<1> QED BY <1>3, <1>9 DEF Live, u

\* The other tables take rows of a live model's key only.
LEMMA AuxInsertWhole ==
  ASSUME NEW t, Whole(t), NEW m \in Models, Live(t, m), NEW u \in Tables,
         u.primary = t.primary, u.secondary = t.secondary,
         \A pk \in Pks \ {m.pk} : NoAux(t, pk) => NoAux(u, pk)
  PROVE  Whole(u) /\ Live(u, m)
<1>1. ASSUME NEW pk \in Pks, u.primary[pk] = None PROVE NoAux(u, pk)
  <2>1. pk # m.pk
    BY <1>1, ModelFacts DEF Live
  <2>2. NoAux(t, pk)
    BY <1>1 DEF Whole, NoOrphansIn, NoAux
  <2> QED BY <2>1, <2>2
<1>2. NoOrphansIn(u)
  BY <1>1 DEF NoOrphansIn, NoAux
<1>3. ExactIn(u)
  BY DEF Whole, ExactIn
<1> QED BY <1>2, <1>3 DEF Whole, Live

\* The list relation, or the first of its pairs.
LEMMA VecInsertWhole ==
  ASSUME NEW t, Whole(t), NEW m \in Models, Live(t, m), NEW elems \in SUBSET Targets
  PROVE  Whole(vec_insert(t, m, elems)) /\ Live(vec_insert(t, m, elems), m)
<1> DEFINE u == vec_insert(t, m, elems)
<1>1. t \in Tables
  BY DEF Whole
<1>2. u = [t EXCEPT !.vec = t.vec \cup ({m.pk} \X elems)]
  BY DEF vec_insert
<1>3. /\ u.vec = t.vec \cup ({m.pk} \X elems)
      /\ u.primary = t.primary /\ u.secondary = t.secondary /\ u.opt = t.opt
      /\ u.subs = t.subs /\ u.blob = t.blob
  BY <1>1, <1>2 DEF Tables
<1>4. t.vec \cup ({m.pk} \X elems) \in SUBSET (Pks \X Targets)
  BY <1>1, ModelFacts DEF Tables
<1>5. u \in Tables
  BY <1>1, <1>2, <1>4 DEF Tables
<1> HIDE DEF u
<1>6. \A pk \in Pks \ {m.pk} : NoAux(t, pk) => NoAux(u, pk)
  BY <1>3 DEF NoAux
<1> QED BY <1>3, <1>5, <1>6, AuxInsertWhole DEF u

\* The list and the optional relation.
LEMMA RelationalInsertWhole ==
  ASSUME NEW t, Whole(t), NEW m \in Models, Live(t, m)
  PROVE  Whole(relational_insert(t, m)) /\ Live(relational_insert(t, m), m)
<1> DEFINE v == vec_insert(t, m, Elements(m.vec))
           o == IF m.opt = None THEN v.opt[m.pk] ELSE m.opt
           u == relational_insert(t, m)
<1>1. Elements(m.vec) \in SUBSET Targets
  BY ModelFacts DEF Elements
<1>2. Whole(v) /\ Live(v, m)
  BY <1>1, VecInsertWhole
<1>3. u = [v EXCEPT !.opt = [v.opt EXCEPT ![m.pk] = o]]
  BY DEF relational_insert
<1> HIDE DEF v
<1>4. v \in Tables
  BY <1>2 DEF Whole
<1>5. o \in Targets \cup {None}
  BY <1>4, ModelFacts DEF Tables
<1> HIDE DEF o, u
<1>6. /\ u.opt = [v.opt EXCEPT ![m.pk] = o]
      /\ u.primary = v.primary /\ u.secondary = v.secondary /\ u.vec = v.vec
      /\ u.subs = v.subs /\ u.blob = v.blob
  BY <1>3, <1>4 DEF Tables
<1>7. [v.opt EXCEPT ![m.pk] = o] \in [Pks -> Targets \cup {None}]
  BY <1>4, <1>5 DEF Tables
<1>8. u \in Tables
  BY <1>3, <1>4, <1>7 DEF Tables
<1>9. \A pk \in Pks \ {m.pk} : u.opt[pk] = v.opt[pk]
  BY <1>4, <1>6 DEF Tables
<1>10. \A pk \in Pks \ {m.pk} : NoAux(v, pk) => NoAux(u, pk)
  BY <1>6, <1>9 DEF NoAux
<1> QED BY <1>2, <1>6, <1>8, <1>10, AuxInsertWhole DEF u

\* The hash rows of the topics, or of some of them.
LEMMA SubscriptionInsertWhole ==
  ASSUME NEW t, Whole(t), NEW m \in Models, Live(t, m), NEW topics
  PROVE  Whole(subscription_insert(t, m, topics)) /\ Live(subscription_insert(t, m, topics), m)
<1> DEFINE rows == [topic \in Topics |->
                      IF topic \in topics THEN [t.subs[topic] EXCEPT ![m.pk] = m]
                                          ELSE t.subs[topic]]
           u == subscription_insert(t, m, topics)
<1>1. t \in Tables
  BY DEF Whole
<1>2. u = [t EXCEPT !.subs = rows]
  BY DEF subscription_insert
<1>3. rows \in [Topics -> [Pks -> Models \cup {None}]]
  BY <1>1 DEF Tables
<1>4. \A topic \in Topics, pk \in Pks \ {m.pk} : rows[topic][pk] = t.subs[topic][pk]
  BY <1>1 DEF Tables
<1> HIDE DEF rows, u
<1>5. /\ u.subs = rows
      /\ u.primary = t.primary /\ u.secondary = t.secondary /\ u.vec = t.vec
      /\ u.opt = t.opt /\ u.blob = t.blob
  BY <1>1, <1>2 DEF Tables
<1>6. u \in Tables
  BY <1>1, <1>2, <1>3 DEF Tables
<1>7. \A pk \in Pks \ {m.pk} : NoAux(t, pk) => NoAux(u, pk)
  BY <1>4, <1>5 DEF NoAux
<1> QED BY <1>5, <1>6, <1>7, AuxInsertWhole DEF u

\* The blob.
LEMMA BlobInsertWhole ==
  ASSUME NEW t, Whole(t), NEW m \in Models, Live(t, m)
  PROVE  Whole(blob_insert(t, m))
<1> DEFINE b == IF layout.whole THEN m ELSE m.blob
           u == blob_insert(t, m)
<1>1. t \in Tables
  BY DEF Whole
<1>2. u = [t EXCEPT !.blob = [t.blob EXCEPT ![m.pk] = b]]
  BY DEF blob_insert
<1>3. b \in Blobs \cup Models \cup {None}
  BY ModelFacts
<1> HIDE DEF b, u
<1>4. /\ u.blob = [t.blob EXCEPT ![m.pk] = b]
      /\ u.primary = t.primary /\ u.secondary = t.secondary /\ u.vec = t.vec
      /\ u.opt = t.opt /\ u.subs = t.subs
  BY <1>1, <1>2 DEF Tables
<1>5. [t.blob EXCEPT ![m.pk] = b] \in [Pks -> Blobs \cup Models \cup {None}]
  BY <1>1, <1>3 DEF Tables
<1>6. u \in Tables
  BY <1>1, <1>2, <1>5 DEF Tables
<1>7. \A pk \in Pks \ {m.pk} : u.blob[pk] = t.blob[pk]
  BY <1>1, <1>4 DEF Tables
<1>8. \A pk \in Pks \ {m.pk} : NoAux(t, pk) => NoAux(u, pk)
  BY <1>4, <1>7 DEF NoAux
<1> QED BY <1>4, <1>6, <1>8, AuxInsertWhole DEF u

\* Every step of an insert leaves whole tables: the primary row comes first.
LEMMA InsertStepsWhole ==
  ASSUME NEW t, Whole(t), NEW m \in Models, NEW P, NEW topics
  PROVE  LET steps == InsertSteps(t, m, P, topics)
         IN  /\ \A i \in 1..5 : Whole(steps[i])
             /\ Elements(steps) = {steps[i] : i \in 1..5}
             /\ Live(steps[2], m) /\ Live(steps[3], m)
<1> DEFINE s1 == primary_insert(t, m)
           s2 == IF P.secondary THEN secondary_insert(s1, m) ELSE s1
           s3 == IF P.relational THEN relational_insert(s2, m) ELSE s2
           s4 == IF P.subscriptions THEN subscription_insert(s3, m, topics) ELSE s3
           s5 == IF P.blob THEN blob_insert(s4, m) ELSE s4
<1>1. InsertSteps(t, m, P, topics) = <<s1, s2, s3, s4, s5>>
  BY DEF InsertSteps
<1>2. Whole(s1) /\ Live(s1, m)
  BY PrimaryInsertWhole
<1> HIDE DEF s1
<1>3. Whole(s2) /\ Live(s2, m)
  BY <1>2, SecondaryInsertWhole
<1> HIDE DEF s2
<1>4. Whole(s3) /\ Live(s3, m)
  BY <1>3, RelationalInsertWhole
<1> HIDE DEF s3
<1>5. Whole(s4) /\ Live(s4, m)
  BY <1>4, SubscriptionInsertWhole
<1> HIDE DEF s4
<1>6. Whole(s5)
  BY <1>5, BlobInsertWhole
<1> HIDE DEF s5
<1> QED BY <1>1, <1>2, <1>3, <1>4, <1>5, <1>6 DEF Elements

\* So does every point between two writes of a step.
LEMMA PartialInsertsWhole ==
  ASSUME NEW t, Whole(t), NEW m \in Models, NEW P, NEW topics,
         NEW u \in PartialInserts(InsertSteps(t, m, P, topics), m, P, topics)
  PROVE  Whole(u)
<1> DEFINE steps == InsertSteps(t, m, P, topics)
<1>1. Whole(steps[2]) /\ Whole(steps[3]) /\ Live(steps[2], m) /\ Live(steps[3], m)
  BY InsertStepsWhole
<1> HIDE DEF steps
<1>2. ASSUME NEW n \in 1..Len(m.vec), u = vec_insert(steps[2], m, Elements(SubSeq(m.vec, 1, n)))
      PROVE  Whole(u)
  <2>1. m.vec \in Seq(Targets)
    BY ModelFacts
  <2>2. SubSeq(m.vec, 1, n) \in Seq(Targets)
    BY <2>1
  <2>3. Elements(SubSeq(m.vec, 1, n)) \in SUBSET Targets
    BY <2>2 DEF Elements
  <2> QED BY <1>1, <1>2, <2>3, VecInsertWhole
<1>3. ASSUME NEW part, u = subscription_insert(steps[3], m, part)
      PROVE  Whole(u)
  BY <1>1, <1>3, SubscriptionInsertWhole
<1> QED BY <1>2, <1>3 DEF PartialInserts, steps

----------------------------------------------------------------------------
(* The five steps of a delete.                                             *)

\* A delete ends with no row under the key, and with the index row of the
\* model that was there gone.
LEMMA DeleteStepsWhole ==
  ASSUME NEW t, Whole(t), NEW pk \in Pks, t.primary[pk] # None
  PROVE  LET steps == DeleteSteps(t, pk)
         IN  /\ Whole(steps[5])
             /\ \A i \in 1..5 : steps[i] \in Tables
             /\ Elements(steps) = {steps[i] : i \in 1..5}
<1> DEFINE row == t.primary[pk]
           s1 == primary_delete(t, pk)
           s2 == secondary_delete(s1, row)
           s3 == relational_delete(s2, row)
           s4 == subscription_delete(s3, pk)
           s5 == blob_delete(s4, pk)
<1>1. DeleteSteps(t, pk) = <<s1, s2, s3, s4, s5>>
  BY DEF DeleteSteps
<1>2. t \in Tables
  BY DEF Whole
<1>3. row \in Model /\ row.sec \in Secs /\ row.pk = pk
  BY <1>2 DEF Whole, Tables, Model
<1> HIDE DEF row
<1>4. /\ s1 \in Tables
      /\ s1.primary = [t.primary EXCEPT ![pk] = None]
      /\ s1.secondary = t.secondary /\ s1.vec = t.vec /\ s1.opt = t.opt
      /\ s1.subs = t.subs /\ s1.blob = t.blob
  BY <1>2 DEF primary_delete, Tables
<1> HIDE DEF s1
<1>5. /\ s2 \in Tables
      /\ s2.secondary = [s1.secondary EXCEPT ![row.sec] = None]
      /\ s2.primary = s1.primary /\ s2.vec = s1.vec /\ s2.opt = s1.opt
      /\ s2.subs = s1.subs /\ s2.blob = s1.blob
  BY <1>3, <1>4 DEF secondary_delete, Tables
<1> HIDE DEF s2
<1>6. /\ s3 \in Tables
      /\ s3.vec = {p \in s2.vec : p[1] # pk} /\ s3.opt = [s2.opt EXCEPT ![pk] = None]
      /\ s3.primary = s2.primary /\ s3.secondary = s2.secondary
      /\ s3.subs = s2.subs /\ s3.blob = s2.blob
  <2> DEFINE v == {p \in s2.vec : p[1] # pk}
             o == [s2.opt EXCEPT ![pk] = None]
  <2>1. s3 = [s2 EXCEPT !.vec = v, !.opt = o]
    BY <1>3, <1>5 DEF relational_delete, Tables
  <2>2. v \in SUBSET (Pks \X Targets) /\ o \in [Pks -> Targets \cup {None}]
    BY <1>5 DEF Tables
  <2> HIDE DEF v, o, s3
  <2>3. s3 \in Tables /\ s3.vec = v /\ s3.opt = o
        /\ s3.primary = s2.primary /\ s3.secondary = s2.secondary
        /\ s3.subs = s2.subs /\ s3.blob = s2.blob
    BY <1>5, <2>1, <2>2 DEF Tables
  <2> QED BY <2>3 DEF v, o
<1> HIDE DEF s3
<1>7. /\ s4 \in Tables
      /\ s4.subs = [topic \in Topics |-> [s3.subs[topic] EXCEPT ![pk] = None]]
      /\ s4.primary = s3.primary /\ s4.secondary = s3.secondary
      /\ s4.vec = s3.vec /\ s4.opt = s3.opt /\ s4.blob = s3.blob
  <2> DEFINE rows == [topic \in Topics |-> [s3.subs[topic] EXCEPT ![pk] = None]]
  <2>1. s4 = [s3 EXCEPT !.subs = rows]
    BY DEF subscription_delete
  <2>2. rows \in [Topics -> [Pks -> Models \cup {None}]]
    BY <1>6 DEF Tables
  <2> HIDE DEF rows, s4
  <2>3. s4 \in Tables /\ s4.subs = rows
        /\ s4.primary = s3.primary /\ s4.secondary = s3.secondary
        /\ s4.vec = s3.vec /\ s4.opt = s3.opt /\ s4.blob = s3.blob
    BY <1>6, <2>1, <2>2 DEF Tables
  <2> QED BY <2>3 DEF rows
<1> HIDE DEF s4
<1>8. /\ s5 \in Tables
      /\ s5.blob = [s4.blob EXCEPT ![pk] = None]
      /\ s5.primary = s4.primary /\ s5.secondary = s4.secondary
      /\ s5.vec = s4.vec /\ s5.opt = s4.opt /\ s5.subs = s4.subs
  BY <1>7 DEF blob_delete, Tables
<1> HIDE DEF s5
<1>9. \A k \in Pks : s5.primary[k] = IF k = pk THEN None ELSE t.primary[k]
  BY <1>2, <1>4, <1>5, <1>6, <1>7, <1>8 DEF Tables
<1>10. \A s \in Secs : s5.secondary[s] = IF s = row.sec THEN None ELSE t.secondary[s]
  BY <1>2, <1>4, <1>5, <1>6, <1>7, <1>8 DEF Tables
<1>11. ASSUME NEW k \in Pks, k = pk \/ NoAux(t, k) PROVE NoAux(s5, k)
  <2>1. s5.opt = [t.opt EXCEPT ![pk] = None] /\ s5.blob = [t.blob EXCEPT ![pk] = None]
    BY <1>4, <1>5, <1>6, <1>7, <1>8
  <2>2. s5.opt[k] = None /\ s5.blob[k] = None
    BY <1>2, <1>11, <2>1 DEF NoAux, Tables
  <2>3. s5.subs = [topic \in Topics |-> [t.subs[topic] EXCEPT ![pk] = None]]
    BY <1>4, <1>5, <1>6, <1>7, <1>8
  <2>4. \A topic \in Topics : s5.subs[topic][k] = None
    BY <1>2, <1>11, <2>3 DEF NoAux, Tables
  <2>5. s5.vec = {p \in t.vec : p[1] # pk}
    BY <1>4, <1>5, <1>6, <1>7, <1>8
  <2>6. \A x \in Targets : <<k, x>> \notin s5.vec
    BY <1>11, <2>5 DEF NoAux
  <2> QED BY <2>2, <2>4, <2>6 DEF NoAux
<1>12. NoOrphansIn(s5)
  <2>1. ASSUME NEW k \in Pks, s5.primary[k] = None PROVE k = pk \/ NoAux(t, k)
    BY <1>9, <2>1 DEF Whole, NoOrphansIn, NoAux
  <2> QED BY <1>11, <2>1 DEF NoOrphansIn, NoAux
<1>13. ASSUME NEW m \in Models, UniqueSec(m), s5.secondary[m.sec] # None
       PROVE  s5.secondary[m.sec] = m.pk /\ s5.primary[m.pk] # None /\ s5.primary[m.pk].sec = m.sec
  <2>1. m.sec # row.sec /\ t.secondary[m.sec] # None /\ s5.secondary[m.sec] = t.secondary[m.sec]
    BY <1>10, <1>13, ModelFacts
  <2>2. t.secondary[m.sec] = m.pk /\ t.primary[m.pk] # None /\ t.primary[m.pk].sec = m.sec
    BY <1>13, <2>1 DEF Whole, ExactIn
  <2>3. m.pk # pk
    BY <2>1, <2>2 DEF row
  <2> QED BY <1>9, <2>1, <2>2, <2>3, ModelFacts
<1>14. Whole(s5)
  BY <1>8, <1>9, <1>12, <1>13 DEF Whole, ExactIn
<1> QED BY <1>1, <1>4, <1>5, <1>6, <1>7, <1>8, <1>14 DEF Elements

----------------------------------------------------------------------------
(* The invariant, call by call.                                            *)

\* Between calls the tables a transaction sees are whole; a call that was
\* interrupted leaves any tables, which a failed transaction never publishes.
Inv ==
  /\ TypeOK
  /\ Whole(committed)
  /\ tx = "write" => Whole(staged)

\* A store without rows.
LEMMA InitInv == Init => Inv
<1> SUFFICES ASSUME Init PROVE Inv
  OBVIOUS
<1>1. NoRows \in Tables
  BY DEF NoRows, Tables
<1>2. \A pk \in Pks : NoRows.primary[pk] = None
  BY DEF NoRows
<1>3. NoOrphansIn(NoRows)
  BY DEF NoOrphansIn, NoRows
<1>4. ExactIn(NoRows)
  BY ModelFacts DEF ExactIn, NoRows
<1>5. Whole(NoRows)
  BY <1>1, <1>2, <1>3, <1>4 DEF Whole
<1> QED BY <1>1, <1>5 DEF Init, Inv, TypeOK

\* An insert ends with whole tables, even where it is interrupted.
LEMMA InsertInv ==
  ASSUME Inv, NEW m \in Models, NEW P \in Policies, NEW topics \in SUBSET Topics,
         orchestrate_insert(m, P, topics)
  PROVE  Inv'
<1> DEFINE steps == InsertSteps(staged, m, P, topics)
           partials == {staged} \cup Elements(steps) \cup PartialInserts(steps, m, P, topics)
<1>1. Whole(staged)
  BY DEF orchestrate_insert, Inv
<1>2. \A u \in partials : Whole(u)
  <2>1. \A u \in Elements(steps) : Whole(u)
    BY <1>1, InsertStepsWhole
  <2>2. \A u \in PartialInserts(steps, m, P, topics) : Whole(u)
    BY <1>1, PartialInsertsWhole
  <2> HIDE DEF steps
  <2> QED BY <1>1, <2>1, <2>2
<1>3. Whole(steps[5])
  BY <1>1, InsertStepsWhole
<1>4. \/ staged' = steps[5] /\ UNCHANGED <<layout, tx, committed>>
      \/ Interrupted(partials)
  BY DEF orchestrate_insert
<1> HIDE DEF steps, partials
<1>5. Whole(staged') /\ UNCHANGED <<layout, committed>> /\ tx' \in {"write", "failed"}
  BY <1>2, <1>3, <1>4 DEF Interrupted, orchestrate_insert
<1> QED BY <1>5 DEF Inv, TypeOK, Whole

\* A delete ends with whole tables, unless it is interrupted.
LEMMA DeleteInv ==
  ASSUME Inv, NEW pk \in Pks, orchestrate_delete(pk)
  PROVE  Inv'
<1> DEFINE steps == DeleteSteps(staged, pk)
           partials == {staged} \cup Elements(steps)
<1>1. Whole(staged) /\ tx = "write" /\ staged \in Tables
  BY DEF orchestrate_delete, Inv, Whole
<1>2. CASE UNCHANGED <<layout, tx, committed, staged>>
  BY <1>2 DEF Inv, TypeOK
<1>3. CASE /\ staged.primary[pk] # None
           /\ \/ staged' = steps[5] /\ UNCHANGED <<layout, tx, committed>>
              \/ Interrupted(partials)
  <2>1. Whole(steps[5]) /\ \A u \in partials : u \in Tables
    BY <1>1, <1>3, DeleteStepsWhole
  <2> HIDE DEF steps, partials
  <2>2. CASE staged' = steps[5] /\ UNCHANGED <<layout, tx, committed>>
    BY <1>1, <2>1, <2>2 DEF Inv, TypeOK, Whole
  <2>3. CASE Interrupted(partials)
    BY <2>1, <2>3 DEF Interrupted, Inv, TypeOK
  <2> QED BY <1>3, <2>2, <2>3
<1> QED BY <1>2, <1>3 DEF orchestrate_delete

\* The invariant is inductive.
LEMMA StepInv == Inv /\ [Next]_vars => Inv'
<1> SUFFICES ASSUME Inv, [Next]_vars PROVE Inv'
  OBVIOUS
<1>1. CASE read_transaction
  BY <1>1 DEF read_transaction, Inv, TypeOK
<1>2. CASE write_transaction
  BY <1>2 DEF write_transaction, Inv, TypeOK
<1>3. CASE commit
  BY <1>3 DEF commit, Inv, TypeOK
<1>4. CASE Drop
  BY <1>4 DEF Drop, Inv, TypeOK
<1>5. ASSUME NEW m \in Models, NEW P \in Policies, NEW topics \in SUBSET Topics,
             orchestrate_insert(m, P, topics)
      PROVE  Inv'
  BY <1>5, InsertInv
<1>6. ASSUME NEW pk \in Pks, orchestrate_delete(pk) PROVE Inv'
  BY <1>6, DeleteInv
<1>7. ASSUME NEW pk \in Pks, orchestrate_get(pk) PROVE Inv'
  BY <1>7 DEF orchestrate_get, Inv, TypeOK
<1>8. CASE UNCHANGED vars
  BY <1>8 DEF vars, Inv, TypeOK
<1> QED BY <1>1, <1>2, <1>3, <1>4, <1>5, <1>6, <1>7, <1>8 DEF Next

\* The invariant holds.
LEMMA SpecInv == Spec => []Inv
BY InitInv, StepInv, PTL DEF Spec

----------------------------------------------------------------------------
(* The theorems.                                                           *)

\* The tables keep their types through every call and every failure.
THEOREM TypeCorrect == Spec => []TypeOK
<1>1. Inv => TypeOK
  BY DEF Inv
<1> QED BY <1>1, SpecInv, PTL

\* No auxiliary row outlives its model, whatever policies, layouts and
\* interruptions the calls met: a failed call's tables are never committed.
THEOREM NeverOrphans == Spec => []NoOrphans
<1>1. Inv => NoOrphans
  BY DEF Inv, Whole, NoOrphans
<1> QED BY <1>1, SpecInv, PTL

\* The index of a unique immutable field leads to a live model that has the
\* value: never to a deleted model, nor to one of another value.
THEOREM IndexStaysExact == Spec => []UniqueIndexExact
<1>1. Inv => UniqueIndexExact
  BY DEF Inv, Whole, UniqueIndexExact
<1> QED BY <1>1, SpecInv, PTL

----------------------------------------------------------------------------
(* An ascending list is read back from the multimap as it was written.     *)

\* The numbers of an ascending list up to one of its places are that many.
LEMMA AscendingCount ==
  ASSUME NEW s \in Seq(Nat), Ascending(s), NEW n \in 0..Len(s)
  PROVE  Cardinality({s[i] : i \in 1..n}) = n
<1> DEFINE S == {s[i] : i \in 1..n}
           f == [i \in 1..n |-> s[i]]
<1>1. n \in Nat /\ \A i \in 1..n : i \in 1..Len(s) /\ s[i] \in Nat
  OBVIOUS
<1>2. f \in Surjection(1..n, S)
  BY DEF Surjection
<1>3. \A i, j \in 1..n : f[i] = f[j] => i = j
  <2>1. ASSUME NEW i \in 1..n, NEW j \in 1..n, i < j PROVE s[i] < s[j]
    BY <1>1, <2>1 DEF Ascending
  <2>2. ASSUME NEW i \in 1..n, NEW j \in 1..n, i # j PROVE s[i] # s[j]
    <3>1. CASE i < j
      BY <1>1, <2>1, <3>1
    <3>2. CASE j < i
      BY <1>1, <2>1, <3>2
    <3> QED BY <2>2, <3>1, <3>2
  <2> QED BY <2>2
<1>4. f \in Bijection(1..n, S)
  BY <1>2, <1>3 DEF Bijection, Injection, IsInjective, Surjection
<1> HIDE DEF f
<1>5. ExistsBijection(1..n, S)
  BY <1>4 DEF ExistsBijection
<1> HIDE DEF S
<1>6. Cardinality(S) = n
  BY <1>1, <1>5, FS_CountingElements
<1> QED BY <1>6 DEF S

\* InOrder of the elements of an ascending list is the list.
LEMMA AscendingReadBack ==
  ASSUME NEW s \in Seq(Nat), Ascending(s)
  PROVE  InOrder(Elements(s)) = s
<1> DEFINE S == Elements(s)
           At(x) == Cardinality({y \in S : y < x})
<1>1. Len(s) \in Nat /\ \A i \in 1..Len(s) : s[i] \in Nat
  OBVIOUS
<1>2. Cardinality(S) = Len(s)
  <2>1. Len(s) \in 0..Len(s)
    BY <1>1
  <2> QED BY <2>1, AscendingCount DEF Elements
<1>3. ASSUME NEW k \in 1..Len(s) PROVE At(s[k]) = k - 1
  <2>1. \A i \in 1..Len(s) : s[i] < s[k] <=> i < k
    <3>1. ASSUME NEW i \in 1..Len(s), i < k PROVE s[i] < s[k]
      BY <3>1 DEF Ascending
    <3>2. ASSUME NEW i \in 1..Len(s), k < i PROVE s[k] < s[i]
      BY <3>2 DEF Ascending
    <3>3. ASSUME NEW i \in 1..Len(s), ~(i < k) PROVE ~(s[i] < s[k])
      <4>1. i = k \/ k < i
        BY <3>3
      <4> QED BY <1>1, <3>2, <4>1
    <3> QED BY <3>1, <3>3
  <2>2. {y \in S : y < s[k]} = {s[i] : i \in 1..k - 1}
    BY <1>1, <2>1 DEF Elements
  <2>3. k - 1 \in 0..Len(s)
    OBVIOUS
  <2> QED BY <2>2, <2>3, AscendingCount
<1>4. ASSUME NEW i \in 1..Len(s)
      PROVE  (CHOOSE x \in S : At(x) = i - 1) = s[i]
  <2>1. s[i] \in S /\ At(s[i]) = i - 1
    BY <1>3 DEF Elements
  <2>2. ASSUME NEW x \in S, At(x) = i - 1 PROVE x = s[i]
    <3>1. PICK k \in 1..Len(s) : x = s[k]
      BY DEF Elements
    <3>2. At(x) = k - 1
      BY <1>3, <3>1
    <3> QED BY <2>2, <3>1, <3>2
  <2> HIDE DEF S, At
  <2> QED BY <2>1, <2>2
<1>5. s = [i \in 1..Len(s) |-> s[i]]
  OBVIOUS
<1>6. InOrder(S) = [i \in 1..Len(s) |-> CHOOSE x \in S : At(x) = i - 1]
  BY <1>2 DEF InOrder
<1> HIDE DEF S, At
<1>7. [i \in 1..Len(s) |-> CHOOSE x \in S : At(x) = i - 1] = [i \in 1..Len(s) |-> s[i]]
  BY <1>4
<1>8. InOrder(S) = s
  BY <1>5, <1>6, <1>7
<1> QED BY <1>8 DEF S

----------------------------------------------------------------------------
(* What the calls do to the rows a get reads.                              *)

\* The rows a get of the key reads are the same in both.
SameRows(t, u, pk) ==
  /\ u.primary[pk] = t.primary[pk]
  /\ u.opt[pk] = t.opt[pk]
  /\ u.blob[pk] = t.blob[pk]
  /\ \A x \in Targets : <<pk, x>> \in u.vec <=> <<pk, x>> \in t.vec

\* A get of the same rows gives the same model.
LEMMA SameHydrated ==
  ASSUME NEW t, NEW u, NEW pk, SameRows(t, u, pk)
  PROVE  Hydrated(u, pk) = Hydrated(t, pk)
<1>1. {x \in Targets : <<pk, x>> \in u.vec} = {x \in Targets : <<pk, x>> \in t.vec}
  BY DEF SameRows
<1>2. u.primary[pk] = t.primary[pk] /\ u.opt[pk] = t.opt[pk] /\ u.blob[pk] = t.blob[pk]
  BY DEF SameRows
<1>3. \A m : with_blob(u, pk, m) = with_blob(t, pk, m)
  BY <1>2 DEF with_blob
<1>4. \A m : with_relations(u, pk, m) = with_relations(t, pk, m)
  BY <1>1, <1>2 DEF with_relations
<1> QED BY <1>2, <1>3, <1>4 DEF Hydrated

\* The rows after a whole insert: those of other keys stay.
LEMMA InsertRows ==
  ASSUME NEW t \in Tables, NEW m \in Models, NEW P, NEW topics
  PROVE  LET u == InsertSteps(t, m, P, topics)[5]
         IN  /\ \A k \in Pks \ {m.pk} : SameRows(t, u, k)
             /\ u.primary[m.pk] = Skeleton(m)
             /\ P.relational => \A x \in Targets :
                  <<m.pk, x>> \in u.vec <=> <<m.pk, x>> \in t.vec \/ x \in Elements(m.vec)
             /\ P.relational /\ m.opt # None => u.opt[m.pk] = m.opt
             /\ m.opt = None => u.opt[m.pk] = t.opt[m.pk]
             /\ P.blob /\ layout.whole => u.blob[m.pk] = m
             /\ P.blob /\ ~layout.whole => u.blob[m.pk] = m.blob
             /\ ~P.blob => u.blob[m.pk] = t.blob[m.pk]
<1> DEFINE s1 == primary_insert(t, m)
           s2 == IF P.secondary THEN secondary_insert(s1, m) ELSE s1
           s3 == IF P.relational THEN relational_insert(s2, m) ELSE s2
           s4 == IF P.subscriptions THEN subscription_insert(s3, m, topics) ELSE s3
           s5 == IF P.blob THEN blob_insert(s4, m) ELSE s4
           Shaped(x) == x = [primary |-> x.primary, secondary |-> x.secondary, vec |-> x.vec,
                             opt |-> x.opt, subs |-> x.subs, blob |-> x.blob]
<1>1. InsertSteps(t, m, P, topics)[5] = s5
  BY DEF InsertSteps
<1>2. Shaped(t)
  BY DEF Tables
<1>3. /\ Shaped(s1)
      /\ s1.primary = [t.primary EXCEPT ![m.pk] = Skeleton(m)]
      /\ s1.vec = t.vec /\ s1.opt = t.opt /\ s1.blob = t.blob
  BY <1>2 DEF primary_insert
<1> HIDE DEF s1
<1>4. /\ Shaped(s2)
      /\ s2.primary = s1.primary /\ s2.vec = s1.vec /\ s2.opt = s1.opt /\ s2.blob = s1.blob
  BY <1>3 DEF secondary_insert
<1> HIDE DEF s2
<1>5. /\ Shaped(s3)
      /\ s3.primary = s2.primary /\ s3.blob = s2.blob
      /\ s3.vec = IF P.relational THEN s2.vec \cup ({m.pk} \X Elements(m.vec)) ELSE s2.vec
      /\ s3.opt = IF P.relational
                    THEN [s2.opt EXCEPT ![m.pk] = IF m.opt = None THEN @ ELSE m.opt]
                    ELSE s2.opt
  BY <1>4 DEF relational_insert, vec_insert
<1> HIDE DEF s3
<1>6. /\ Shaped(s4)
      /\ s4.primary = s3.primary /\ s4.vec = s3.vec /\ s4.opt = s3.opt /\ s4.blob = s3.blob
  BY <1>5 DEF subscription_insert
<1> HIDE DEF s4
<1>7. /\ s5.primary = s4.primary /\ s5.vec = s4.vec /\ s5.opt = s4.opt
      /\ s5.blob = IF P.blob
                     THEN [s4.blob EXCEPT ![m.pk] = IF layout.whole THEN m ELSE m.blob]
                     ELSE s4.blob
  BY <1>6 DEF blob_insert
<1> HIDE DEF s5
<1>8. t.opt = [t.opt EXCEPT ![m.pk] = t.opt[m.pk]]
  BY DEF Tables
<1>9. s3.opt = IF P.relational /\ m.opt # None THEN [t.opt EXCEPT ![m.pk] = m.opt] ELSE t.opt
  BY <1>3, <1>4, <1>5, <1>8
<1>10. /\ s5.primary = [t.primary EXCEPT ![m.pk] = Skeleton(m)]
       /\ s5.vec = IF P.relational THEN t.vec \cup ({m.pk} \X Elements(m.vec)) ELSE t.vec
       /\ s5.opt = IF P.relational /\ m.opt # None THEN [t.opt EXCEPT ![m.pk] = m.opt] ELSE t.opt
       /\ s5.blob = IF P.blob
                      THEN [t.blob EXCEPT ![m.pk] = IF layout.whole THEN m ELSE m.blob]
                      ELSE t.blob
  BY <1>3, <1>4, <1>5, <1>6, <1>7, <1>9
<1>11. ASSUME NEW k \in Pks \ {m.pk} PROVE SameRows(t, s5, k)
  <2>1. s5.primary[k] = t.primary[k] /\ s5.opt[k] = t.opt[k] /\ s5.blob[k] = t.blob[k]
    BY <1>10 DEF Tables
  <2>2. \A x : <<k, x>> \in s5.vec <=> <<k, x>> \in t.vec
    BY <1>10
  <2> QED BY <2>1, <2>2 DEF SameRows
<1>12. s5.primary[m.pk] = Skeleton(m)
  BY <1>10, ModelFacts DEF Tables
<1>13. P.relational => \A x \in Targets :
         <<m.pk, x>> \in s5.vec <=> <<m.pk, x>> \in t.vec \/ x \in Elements(m.vec)
  BY <1>10
<1>14. /\ P.relational /\ m.opt # None => s5.opt[m.pk] = m.opt
       /\ m.opt = None => s5.opt[m.pk] = t.opt[m.pk]
  BY <1>10, ModelFacts DEF Tables
<1>15. /\ P.blob /\ layout.whole => s5.blob[m.pk] = m
       /\ P.blob /\ ~layout.whole => s5.blob[m.pk] = m.blob
       /\ ~P.blob => s5.blob[m.pk] = t.blob[m.pk]
  BY <1>10, ModelFacts DEF Tables
<1> QED BY <1>1, <1>11, <1>12, <1>13, <1>14, <1>15

\* A careful insert into whole tables: its key's model is the inserted one,
\* and no other key's model changes.
LEMMA InsertHydrates ==
  ASSUME Whole(staged), NEW m \in Models, NEW P, NEW topics, RoundTrip(m, P)
  PROVE  LET u == InsertSteps(staged, m, P, topics)[5]
         IN  /\ Hydrated(u, m.pk) = m
             /\ \A k \in Pks \ {m.pk} : Hydrated(u, k) = Hydrated(staged, k)
<1> DEFINE u == InsertSteps(staged, m, P, topics)[5]
           S == Skeleton(m)
<1>1. staged \in Tables
  BY DEF Whole
<1>2. /\ \A k \in Pks \ {m.pk} : SameRows(staged, u, k)
      /\ u.primary[m.pk] = S
      /\ P.relational => \A x \in Targets :
           <<m.pk, x>> \in u.vec <=> <<m.pk, x>> \in staged.vec \/ x \in Elements(m.vec)
      /\ P.relational /\ m.opt # None => u.opt[m.pk] = m.opt
      /\ m.opt = None => u.opt[m.pk] = staged.opt[m.pk]
      /\ P.blob /\ layout.whole => u.blob[m.pk] = m
      /\ P.blob /\ ~layout.whole => u.blob[m.pk] = m.blob
      /\ ~P.blob => u.blob[m.pk] = staged.blob[m.pk]
  BY <1>1, InsertRows
<1> HIDE DEF u
<1>3. m \in Model /\ m.pk \in Pks /\ S # None /\ m # None /\ m.blob # None
  BY ModelFacts, ModelAssumption
<1>4. \A k \in Pks \ {m.pk} : Hydrated(u, k) = Hydrated(staged, k)
  BY <1>2, SameHydrated
<1>5. P.blob => with_blob(u, m.pk, S) = IF layout.whole THEN m ELSE [S EXCEPT !.blob = m.blob]
  BY <1>2, <1>3 DEF with_blob
<1>6. Hydrated(u, m.pk) = with_relations(u, m.pk, with_blob(u, m.pk, S))
  BY <1>2, <1>3 DEF Hydrated
<1>7. CASE layout.pure
  <2>1. P.blob /\ P.relational /\ Ascending(m.vec) /\ staged.primary[m.pk] = None
    BY <1>7 DEF RoundTrip
  <2>2. NoAux(staged, m.pk)
    BY <1>3, <2>1 DEF Whole, NoOrphansIn, NoAux
  <2>3. u.opt[m.pk] = m.opt
    BY <1>2, <2>1, <2>2 DEF NoAux
  <2>4. {x \in Targets : <<m.pk, x>> \in u.vec} = Elements(m.vec)
    <3>1. Elements(m.vec) \subseteq Targets
      BY ModelFacts DEF Elements
    <3>2. \A x \in Targets : <<m.pk, x>> \notin staged.vec
      BY <2>2 DEF NoAux
    <3> QED BY <1>2, <2>1, <3>1, <3>2
  <2>5. InOrder(Elements(m.vec)) = m.vec
    <3>1. m.vec \in Seq(Targets) /\ Targets \subseteq Nat
      BY ModelFacts, ModelAssumption
    <3>2. ASSUME NEW s \in Seq(Targets) PROVE s \in Seq(Nat)
      <4>1. ASSUME NEW i \in 1..Len(s) PROVE s[i] \in Nat
        <5>1. s[i] \in Targets
          OBVIOUS
        <5> QED BY <3>1, <5>1
      <4>2. Len(s) \in Nat /\ s = [i \in 1..Len(s) |-> s[i]]
        OBVIOUS
      <4> QED BY <4>1, <4>2
    <3> QED BY <2>1, <3>1, <3>2, AscendingReadBack
  <2> DEFINE w == with_blob(u, m.pk, S)
  <2>6. S = [m EXCEPT !.vec = <<>>, !.opt = None, !.blob = DefaultBlob]
    BY <1>7 DEF Skeleton
  <2>7. w = m \/ w = [m EXCEPT !.vec = <<>>, !.opt = None]
    <3>1. w = m \/ w = [S EXCEPT !.blob = m.blob]
      BY <1>5, <2>1
    <3>2. [S EXCEPT !.blob = m.blob] = [m EXCEPT !.vec = <<>>, !.opt = None]
      BY <1>3, <2>6 DEF Model
    <3> QED BY <3>1, <3>2
  <2>8. m.opt = None => w.opt = None
    BY <1>3, <2>7 DEF Model
  <2>9. with_relations(u, m.pk, w)
          = [w EXCEPT !.vec = m.vec, !.opt = IF m.opt = None THEN w.opt ELSE m.opt]
    BY <1>7, <2>3, <2>4, <2>5 DEF with_relations
  <2> HIDE DEF w, S
  <2>10. with_relations(u, m.pk, w) = [w EXCEPT !.vec = m.vec, !.opt = m.opt]
    BY <2>8, <2>9
  <2>11. [w EXCEPT !.vec = m.vec, !.opt = m.opt] = m
    <3>1. [m EXCEPT !.vec = m.vec, !.opt = m.opt] = m
      BY <1>3 DEF Model
    <3>2. [[m EXCEPT !.vec = <<>>, !.opt = None] EXCEPT !.vec = m.vec, !.opt = m.opt] = m
      BY <1>3 DEF Model
    <3> QED BY <2>7, <3>1, <3>2
  <2> QED BY <1>4, <1>6, <2>10, <2>11 DEF u, w
<1>8. CASE ~layout.pure
  <2>1. S = m
    BY <1>8 DEF Skeleton
  <2>2. with_blob(u, m.pk, S) = m
    <3>1. CASE P.blob
      BY <1>3, <1>5, <2>1, <3>1 DEF Model
    <3>2. CASE ~P.blob
      <4>1. u.blob[m.pk] = None
        BY <1>2, <1>8, <3>2 DEF RoundTrip
      <4> QED BY <2>1, <4>1 DEF with_blob
    <3> QED BY <3>1, <3>2
  <2>3. with_relations(u, m.pk, m) = m
    BY <1>8 DEF with_relations
  <2> QED BY <1>4, <1>6, <2>2, <2>3 DEF u
<1> QED BY <1>7, <1>8

\* A delete: its key has no model, and no other key's model changes.
LEMMA DeleteHydrates ==
  ASSUME NEW t, Whole(t), NEW pk \in Pks, t.primary[pk] # None
  PROVE  LET u == DeleteSteps(t, pk)[5]
         IN  /\ u.primary = [t.primary EXCEPT ![pk] = None]
             /\ \A k \in Pks \ {pk} : Hydrated(u, k) = Hydrated(t, k)
<1> DEFINE row == t.primary[pk]
           s1 == primary_delete(t, pk)
           s2 == secondary_delete(s1, row)
           s3 == relational_delete(s2, row)
           s4 == subscription_delete(s3, pk)
           s5 == blob_delete(s4, pk)
           Shaped(x) == x = [primary |-> x.primary, secondary |-> x.secondary, vec |-> x.vec,
                             opt |-> x.opt, subs |-> x.subs, blob |-> x.blob]
<1>1. DeleteSteps(t, pk)[5] = s5
  BY DEF DeleteSteps
<1>2. t \in Tables /\ Shaped(t) /\ row.pk = pk
  BY DEF Whole, Tables
<1> HIDE DEF row
<1>3. /\ Shaped(s1)
      /\ s1.primary = [t.primary EXCEPT ![pk] = None]
      /\ s1.vec = t.vec /\ s1.opt = t.opt /\ s1.blob = t.blob
  BY <1>2 DEF primary_delete
<1> HIDE DEF s1
<1>4. /\ Shaped(s2)
      /\ s2.primary = s1.primary /\ s2.vec = s1.vec /\ s2.opt = s1.opt /\ s2.blob = s1.blob
  BY <1>3 DEF secondary_delete
<1> HIDE DEF s2
<1>5. /\ Shaped(s3)
      /\ s3.vec = {p \in s2.vec : p[1] # pk} /\ s3.opt = [s2.opt EXCEPT ![pk] = None]
      /\ s3.primary = s2.primary /\ s3.blob = s2.blob
  <2>1. s3 = [s2 EXCEPT !.vec = {p \in s2.vec : p[1] # pk}, !.opt = [s2.opt EXCEPT ![pk] = None]]
    BY <1>2, <1>4 DEF relational_delete
  <2> HIDE DEF s3
  <2> QED BY <1>4, <2>1
<1> HIDE DEF s3
<1>6. /\ Shaped(s4)
      /\ s4.primary = s3.primary /\ s4.vec = s3.vec /\ s4.opt = s3.opt /\ s4.blob = s3.blob
  BY <1>5 DEF subscription_delete
<1> HIDE DEF s4
<1>7. /\ s5.blob = [s4.blob EXCEPT ![pk] = None]
      /\ s5.primary = s4.primary /\ s5.vec = s4.vec /\ s5.opt = s4.opt
  BY <1>6 DEF blob_delete
<1> HIDE DEF s5
<1>8. /\ s5.primary = [t.primary EXCEPT ![pk] = None]
      /\ s5.opt = [t.opt EXCEPT ![pk] = None]
      /\ s5.blob = [t.blob EXCEPT ![pk] = None]
      /\ s5.vec = {p \in t.vec : p[1] # pk}
  BY <1>3, <1>4, <1>5, <1>6, <1>7
<1>9. ASSUME NEW k \in Pks \ {pk} PROVE Hydrated(s5, k) = Hydrated(t, k)
  <2>1. s5.primary[k] = t.primary[k] /\ s5.opt[k] = t.opt[k] /\ s5.blob[k] = t.blob[k]
    BY <1>2, <1>8 DEF Tables
  <2>2. \A x : <<k, x>> \in s5.vec <=> <<k, x>> \in t.vec
    BY <1>8
  <2> QED BY <2>1, <2>2, SameHydrated DEF SameRows
<1> QED BY <1>1, <1>8, <1>9

----------------------------------------------------------------------------
(* The calls map to the calls of the map.                                  *)

\* The model of every live key is one a caller inserted.
Mapped(t) == \A pk \in Pks : t.primary[pk] # None => Hydrated(t, pk) \in Models

MapInv ==
  /\ Inv
  /\ Mapped(committed)
  /\ tx = "write" => Mapped(staged)

\* The schema is compiled once.
LEMMA LayoutFixed == [Next]_vars => layout' = layout
BY DEF Next, vars, read_transaction, write_transaction, commit, Drop, orchestrate_insert,
       orchestrate_delete, orchestrate_get, Interrupted

\* What a transaction that sees these tables can get.
View(t) == [pk \in Pks |-> Hydrated(t, pk)]

\* The views of the next state, while the layout stays.
LEMMA NextViews ==
  ASSUME layout' = layout
  PROVE  /\ Map!vars' = <<tx', View(committed'),
                          View(IF tx' = "write" THEN staged' ELSE committed'), ret'>>
         /\ Mapped(committed') => Mapped(committed)'
         /\ Mapped(staged') => Mapped(staged)'
<1>1. Map!vars' = <<tx', View(committed'),
                    View(IF tx' = "write" THEN staged' ELSE committed'), ret'>>
  BY DEF Map!vars, View, Hydrated, with_blob, with_relations
<1>2. Mapped(committed') => Mapped(committed)'
  BY DEF Mapped, Hydrated, with_blob, with_relations
<1>3. Mapped(staged') => Mapped(staged)'
  BY DEF Mapped, Hydrated, with_blob, with_relations
<1> QED BY <1>1, <1>2, <1>3

\* The map is empty at first.
LEMMA InitMaps == Init => Map!Init /\ MapInv
<1> SUFFICES ASSUME Init PROVE Map!Init /\ MapInv
  OBVIOUS
<1>1. Inv
  BY InitInv
<1>2. \A pk \in Pks : NoRows.primary[pk] = None
  BY DEF NoRows
<1>3. committed = NoRows /\ tx = "idle" /\ ret = Says("none")
  BY DEF Init
<1>4. \A pk \in Pks : Hydrated(committed, pk) = None
  BY <1>2, <1>3 DEF Hydrated
<1>5. Map!Init
  BY <1>3, <1>4 DEF Map!Init, Map!Says, Says
<1>6. MapInv
  BY <1>1, <1>2, <1>3 DEF MapInv, Mapped
<1> QED BY <1>5, <1>6

\* An insert replaces the key's model, or fails.
LEMMA InsertMaps ==
  ASSUME CarefulCallers, MapInv, layout' = layout,
         NEW m \in Models, NEW P \in Policies, NEW topics \in SUBSET Topics,
         orchestrate_insert(m, P, topics)
  PROVE  (Map!Insert(m) \/ Map!Fail) /\ MapInv'
<1> DEFINE u == InsertSteps(staged, m, P, topics)[5]
<1>1. Whole(staged) /\ Mapped(staged) /\ Mapped(committed) /\ tx = "write" /\ RoundTrip(m, P)
  BY DEF orchestrate_insert, MapInv, Inv
<1>2. Inv'
  BY InsertInv DEF MapInv
<1>3. /\ Hydrated(u, m.pk) = m
      /\ \A k \in Pks \ {m.pk} : Hydrated(u, k) = Hydrated(staged, k)
  BY <1>1, InsertHydrates
<1>4. staged \in Tables
  BY <1>1 DEF Whole
<1>5. \A k \in Pks \ {m.pk} : u.primary[k] = staged.primary[k]
  BY <1>4, InsertRows DEF SameRows
<1>6. \/ staged' = u /\ ret' = Says("ok") /\ UNCHANGED <<tx, committed>>
      \/ tx' = "failed" /\ ret' = Says("Err") /\ UNCHANGED committed
  BY DEF orchestrate_insert, Interrupted
<1> HIDE DEF u
<1>7. CASE staged' = u /\ ret' = Says("ok") /\ UNCHANGED <<tx, committed>>
  <2>1. View(u) = [View(staged) EXCEPT ![m.pk] = m]
    BY <1>3, ModelFacts DEF View
  <2>2. Map!Insert(m)
    BY <1>1, <1>7, <2>1, NextViews DEF Map!Insert, Map!vars, Map!Says, Says, View
  <2>3. Mapped(u)
    BY <1>1, <1>3, <1>5 DEF Mapped
  <2> QED BY <1>1, <1>2, <1>7, <2>2, <2>3, NextViews DEF MapInv
<1>8. CASE tx' = "failed" /\ ret' = Says("Err") /\ UNCHANGED committed
  <2>1. Map!Fail
    BY <1>1, <1>8, NextViews DEF Map!Fail, Map!vars, Map!Says, Says, View
  <2> QED BY <1>1, <1>2, <1>8, <2>1, NextViews DEF MapInv
<1> QED BY <1>6, <1>7, <1>8

\* A delete removes the key's model, or is refused, or fails.
LEMMA DeleteMaps ==
  ASSUME MapInv, layout' = layout, NEW pk \in Pks, orchestrate_delete(pk)
  PROVE  (Map!Delete(pk) \/ Map!Fail) /\ MapInv'
<1> DEFINE u == DeleteSteps(staged, pk)[5]
<1>1. Whole(staged) /\ Mapped(staged) /\ Mapped(committed) /\ tx = "write"
  BY DEF orchestrate_delete, MapInv, Inv
<1>2. Inv'
  BY DeleteInv DEF MapInv
<1>3. staged.primary[pk] # None =>
        /\ u.primary = [staged.primary EXCEPT ![pk] = None]
        /\ \A k \in Pks \ {pk} : Hydrated(u, k) = Hydrated(staged, k)
  BY <1>1, DeleteHydrates
<1>4. \/ /\ staged.primary[pk] = None /\ ret' = Says("UnknownAddress")
         /\ UNCHANGED <<tx, committed, staged>>
      \/ /\ staged.primary[pk] # None /\ staged' = u /\ ret' = Says("ok")
         /\ UNCHANGED <<tx, committed>>
      \/ tx' = "failed" /\ ret' = Says("Err") /\ UNCHANGED committed
  BY DEF orchestrate_delete, Interrupted
<1> HIDE DEF u
<1>5. CASE /\ staged.primary[pk] = None /\ ret' = Says("UnknownAddress")
           /\ UNCHANGED <<tx, committed, staged>>
  <2>1. View(staged)[pk] = None
    BY <1>5 DEF View, Hydrated
  <2>2. Map!Delete(pk)
    BY <1>1, <1>5, <2>1, NextViews DEF Map!Delete, Map!vars, Map!Says, Says, View
  <2> QED BY <1>1, <1>2, <1>5, <2>2, NextViews DEF MapInv
<1>6. CASE /\ staged.primary[pk] # None /\ staged' = u /\ ret' = Says("ok")
           /\ UNCHANGED <<tx, committed>>
  <2>1. staged.primary \in [Pks -> Model \cup {None}]
    BY <1>1 DEF Whole, Tables
  <2>2. \A k \in Pks : u.primary[k] = IF k = pk THEN None ELSE staged.primary[k]
    BY <1>3, <1>6, <2>1
  <2>3. Hydrated(u, pk) = None
    BY <2>2 DEF Hydrated
  <2>4. View(staged)[pk] # None
    BY <1>1, <1>6, ModelFacts DEF View, Mapped
  <2>5. View(u) = [View(staged) EXCEPT ![pk] = None]
    BY <1>3, <1>6, <2>3 DEF View
  <2>6. Map!Delete(pk)
    BY <1>1, <1>6, <2>4, <2>5, NextViews DEF Map!Delete, Map!vars, Map!Says, Says, View
  <2>7. Mapped(u)
    BY <1>1, <1>3, <1>6, <2>2 DEF Mapped
  <2> QED BY <1>1, <1>2, <1>6, <2>6, <2>7, NextViews DEF MapInv
<1>7. CASE tx' = "failed" /\ ret' = Says("Err") /\ UNCHANGED committed
  <2>1. Map!Fail
    BY <1>1, <1>7, NextViews DEF Map!Fail, Map!vars, Map!Says, Says, View
  <2> QED BY <1>1, <1>2, <1>7, <2>1, NextViews DEF MapInv
<1> QED BY <1>4, <1>5, <1>6, <1>7

\* Every step maps to a step of the map, or to none.
LEMMA StepMaps ==
  ASSUME CarefulCallers, MapInv, [Next]_vars
  PROVE  [Map!Next]_(Map!vars) /\ MapInv'
<1>1. layout' = layout /\ Inv'
  BY LayoutFixed, StepInv DEF MapInv
<1>2. CASE read_transaction
  <2>1. Map!Begin("read")
    BY <1>1, <1>2, NextViews DEF read_transaction, Map!Begin, Map!vars, Map!Says, Says, View
  <2>2. MapInv'
    BY <1>1, <1>2, NextViews DEF read_transaction, MapInv
  <2> QED BY <2>1, <2>2 DEF Map!Next
<1>3. CASE write_transaction
  <2>1. Map!Begin("write")
    BY <1>1, <1>3, NextViews DEF write_transaction, Map!Begin, Map!vars, Map!Says, Says, View
  <2>2. MapInv'
    BY <1>1, <1>3, NextViews DEF write_transaction, MapInv
  <2> QED BY <2>1, <2>2 DEF Map!Next
<1>4. CASE commit
  <2>1. Map!Commit
    BY <1>1, <1>4, NextViews DEF commit, Map!Commit, Map!vars, Map!Says, Says, View
  <2>2. MapInv'
    BY <1>1, <1>4, NextViews DEF commit, MapInv
  <2> QED BY <2>1, <2>2 DEF Map!Next
<1>5. CASE Drop
  <2>1. Map!Drop
    BY <1>1, <1>5, NextViews DEF Drop, Map!Drop, Map!vars, Map!Says, Says, View
  <2>2. MapInv'
    BY <1>1, <1>5, NextViews DEF Drop, MapInv
  <2> QED BY <2>1, <2>2 DEF Map!Next
<1>6. CASE \E m \in Models, P \in Policies, topics \in SUBSET Topics :
             orchestrate_insert(m, P, topics)
  <2>1. (\E m \in Models : Map!Insert(m) \/ Map!Fail) /\ MapInv'
    BY <1>1, <1>6, InsertMaps
  <2> QED BY <2>1 DEF Map!Next
<1>7. CASE \E pk \in Pks : orchestrate_delete(pk)
  <2>1. (\E pk \in Pks : Map!Delete(pk) \/ Map!Fail) /\ MapInv'
    BY <1>1, <1>7, DeleteMaps
  <2> QED BY <2>1 DEF Map!Next
<1>8. CASE \E pk \in Pks : orchestrate_get(pk)
  <2>1. PICK pk \in Pks : orchestrate_get(pk)
    BY <1>8
  <2>2. Map!Get(pk)
    BY <1>1, <2>1, NextViews
       DEF orchestrate_get, Map!Get, Map!Visible, Map!vars, Map!Gives, Gives, View
  <2>3. MapInv'
    BY <1>1, <2>1, NextViews DEF orchestrate_get, MapInv
  <2> QED BY <2>2, <2>3 DEF Map!Next
<1>9. CASE UNCHANGED vars
  <2>1. UNCHANGED Map!vars
    BY <1>1, <1>9, NextViews DEF vars, Map!vars, View
  <2>2. MapInv'
    BY <1>1, <1>9, NextViews DEF vars, MapInv
  <2> QED BY <2>1, <2>2
<1> QED BY <1>2, <1>3, <1>4, <1>5, <1>6, <1>7, <1>8, <1>9 DEF Next

----------------------------------------------------------------------------
\* A model's six tables are one map of models: for callers who insert what a
\* get can give back, in every layout, under every policy and at every point a
\* table write may fail.
THEOREM TablesAreOneMap ==
  ASSUME CarefulCallers
  PROVE  Spec => ImplementsModelMap
<1>1. MapInv /\ [Next]_vars => MapInv' /\ [Map!Next]_(Map!vars)
  BY StepMaps
<1> QED BY <1>1, InitMaps, PTL DEF Spec, ImplementsModelMap, Map!Spec
=============================================================================
