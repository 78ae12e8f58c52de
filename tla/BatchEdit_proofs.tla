--------------------------- MODULE BatchEdit_proofs -------------------------
(***************************************************************************)
(* The batch edit page, for any forms: its types, one request at a time,   *)
(* no form forgotten and nothing said to be saved that is not.             *)
(*                                                                         *)
(* The argument for the forms is about the queue.  A form whose fields the *)
(* combination recognises is named by at most one request, that request    *)
(* carries its current value, and the form is disabled meanwhile, so that  *)
(* the value cannot change: combining requests keeps that.                 *)
(***************************************************************************)
EXTENDS BatchEdit, TLAPS

\* What the works have of f when n is its last value: that, or a torn one.
Current(f, v, n) == v = n \/ (f \in WithEquals /\ v = Torn)

\* A request as runSave makes it.
IsSingle(r) ==
  /\ ~r.combined
  /\ r.forms = {r.own}
  /\ \A f \in Forms : r.data[f] > 0 => f = r.own
  /\ r.own \in Matching => r.data[r.own] > 0

\* Only the head may be a combined request, and the requests name each form at
\* most once, while it is disabled, with its current value.
QueueSound(queue, ld, n) ==
  \A i \in 1 .. Len(queue) :
    /\ queue[i].combined => i = 1
    /\ ~queue[i].combined => IsSingle(queue[i])
    /\ queue[i].own \in queue[i].forms
    /\ \A f \in Matching :
         /\ queue[i].data[f] > 0 <=> f \in queue[i].forms
         /\ f \in queue[i].forms =>
              /\ ld[f] /\ Current(f, queue[i].data[f], n[f])
              /\ \A j \in 1 .. Len(queue) : f \in queue[j].forms => i = j

\* The guard of Save keeps the values among those a request carries.
SavesAreValues == \A f \in Forms : saves[f] \in Values

EditInv ==
  /\ EditTypeOK
  /\ SavesAreValues
  /\ OneRequestInFlight
  /\ QueueSound(requests, loading, saves)
  /\ DisabledFormsWait
  /\ SavedIsStored
-----------------------------------------------------------------------------
(* The queue.                                                              *)

\* A single request of a form that no other names joins the queue.
LEMMA AppendSound ==
  ASSUME NEW queue \in Seq(Request), NEW ld, NEW n, NEW r \in Request,
         QueueSound(queue, ld, n), IsSingle(r),
         r.own \in Matching =>
           /\ ld[r.own] /\ Current(r.own, r.data[r.own], n[r.own])
           /\ \A i \in 1 .. Len(queue) : r.own \notin queue[i].forms
  PROVE  QueueSound(Append(queue, r), ld, n)
<1> DEFINE q == Append(queue, r)
<1>1. /\ Len(q) = Len(queue) + 1 /\ q[Len(queue) + 1] = r
      /\ \A i \in 1 .. Len(queue) : q[i] = queue[i]
      /\ \A i \in 1 .. Len(q) : i \in 1 .. Len(queue) \/ i = Len(queue) + 1
      /\ Len(queue) \in Nat
  OBVIOUS
<1> HIDE DEF q
<1>2. ~r.combined /\ r.forms = {r.own}
  BY DEF IsSingle
<1>3. ASSUME NEW f \in Matching
      PROVE  r.data[f] > 0 <=> f \in r.forms
  BY FormsAssumption DEF IsSingle
<1>4. ASSUME NEW i \in 1 .. Len(queue)
      PROVE  /\ q[i].combined => i = 1
             /\ ~q[i].combined => IsSingle(q[i])
             /\ q[i].own \in q[i].forms
             /\ \A f \in Matching :
                  /\ q[i].data[f] > 0 <=> f \in q[i].forms
                  /\ f \in q[i].forms =>
                       /\ ld[f] /\ Current(f, q[i].data[f], n[f])
                       /\ \A j \in 1 .. Len(q) : f \in q[j].forms => i = j
  BY <1>1, <1>2 DEF QueueSound
<1>5. /\ q[Len(queue) + 1].combined => Len(queue) + 1 = 1
      /\ ~q[Len(queue) + 1].combined => IsSingle(q[Len(queue) + 1])
      /\ q[Len(queue) + 1].own \in q[Len(queue) + 1].forms
      /\ \A f \in Matching :
           /\ q[Len(queue) + 1].data[f] > 0 <=> f \in q[Len(queue) + 1].forms
           /\ f \in q[Len(queue) + 1].forms =>
                /\ ld[f] /\ Current(f, q[Len(queue) + 1].data[f], n[f])
                /\ \A j \in 1 .. Len(q) :
                     f \in q[j].forms => Len(queue) + 1 = j
  BY <1>1, <1>2, <1>3
<1>6. QueueSound(q, ld, n)
  BY <1>1, <1>4, <1>5 DEF QueueSound
<1> QED
  BY <1>6 DEF q

\* The value a recognised form has in the combined request is that of the one
\* request that names it.
LEMMA CombinedValueIsCarried ==
  ASSUME NEW queue \in Seq(Request), NEW ld, NEW n, QueueSound(queue, ld, n),
         Len(queue) > 1, NEW f \in Forms
  PROVE  /\ CombinedValue(queue, f) \in Values
         /\ \A i \in 1 .. Len(queue) :
              f \in Matching /\ f \in queue[i].forms
                => CombinedValue(queue, f) = queue[i].data[f]
         /\ f \in Matching /\ (\A i \in 1 .. Len(queue) : f \notin queue[i].forms)
              => CombinedValue(queue, f) = 0
<1>1. ASSUME NEW i \in 1 .. Len(queue)
      PROVE  queue[i] \in Request /\ queue[i].data[f] \in Values
  <2>1. queue[i] \in Request
    OBVIOUS
  <2> QED
    BY <2>1 DEF Request
<1>2. ASSUME NEW i \in Carriers(queue, f)
      PROVE  i \in 2 .. Len(queue) /\ queue[i].own = f /\ f \in Matching
             /\ f \in queue[i].forms /\ i \in 1 .. Len(queue)
  <2>1. i \in 2 .. Len(queue) /\ queue[i].data[f] > 0 /\ queue[i].own \in Matching
    BY DEF Carriers
  <2>2. IsSingle(queue[i])
    BY <2>1 DEF QueueSound
  <2> QED
    BY <2>1, <2>2 DEF IsSingle
<1>3. CASE Carriers(queue, f) = {}
  <2>1. CombinedValue(queue, f) = queue[1].data[f] /\ 1 \in 1 .. Len(queue)
    BY <1>3 DEF CombinedValue
  <2>2. ASSUME NEW i \in 2 .. Len(queue), f \in Matching, f \in queue[i].forms
        PROVE  FALSE
    <3>1. queue[i].data[f] > 0 /\ IsSingle(queue[i])
      BY <2>2 DEF QueueSound
    <3> QED
      BY <1>3, <2>2, <3>1 DEF Carriers, IsSingle
  <2>3. ASSUME NEW i \in 1 .. Len(queue)
        PROVE  i = 1 \/ i \in 2 .. Len(queue)
    OBVIOUS
  <2>4. f \in Matching /\ f \notin queue[1].forms => queue[1].data[f] = 0
    BY <1>1, <2>1, MaxSavesAssumption DEF QueueSound, Values, Torn
  <2> QED
    BY <1>1, <2>1, <2>2, <2>3, <2>4
<1>4. CASE Carriers(queue, f) # {}
  <2>1. PICK i \in Carriers(queue, f) : TRUE
    BY <1>4
  <2>2. ASSUME NEW j \in 1 .. Len(queue), f \in queue[j].forms
        PROVE  j = i
    BY <1>2, <2>1, <2>2 DEF QueueSound
  <2>3. Carriers(queue, f) = {i}
    BY <1>2, <2>1, <2>2
  <2>4. CombinedValue(queue, f) = queue[i].data[f]
    BY <1>2, <2>1, <2>3 DEF CombinedValue
  <2> QED
    BY <1>1, <1>2, <2>1, <2>2, <2>4
<1> QED
  BY <1>3, <1>4

\* The combined request names the recognised forms of all it is made of, with
\* their current values.
LEMMA CombineSound ==
  ASSUME NEW queue \in Seq(Request), NEW ld, NEW n, QueueSound(queue, ld, n),
         Len(queue) > 1, \A f \in Forms : n[f] \in Values
  PROVE  /\ CombineRequests(queue) \in Seq(Request)
         /\ Len(CombineRequests(queue)) = 1
         /\ QueueSound(CombineRequests(queue), ld, n)
         /\ \A f \in Matching, i \in 1 .. Len(queue) :
              f \in queue[i].forms => f \in CombineRequests(queue)[1].forms
<1> DEFINE r == CombineRequests(queue)[1]
           names == queue[1].forms \cup
                    {queue[i].own : i \in {j \in 2 .. Len(queue) :
                                             queue[j].own \in Matching}}
           merged == [f \in Forms |-> Reparsed(f, CombinedValue(queue, f))]
<1>1. /\ CombineRequests(queue) = <<r>>
      /\ r = [own |-> queue[1].own, forms |-> names, combined |-> TRUE,
              data |-> merged]
  BY DEF CombineRequests
<1>2. ASSUME NEW i \in 1 .. Len(queue)
      PROVE  /\ queue[i].own \in Forms
             /\ queue[i].forms \subseteq Forms
             /\ queue[i].data \in [Forms -> Values]
  <2>1. queue[i] \in Request
    OBVIOUS
  <2> QED
    BY <2>1 DEF Request
<1>3. Torn \in Values /\ Torn > 0 /\ Values \subseteq Nat
  BY MaxSavesAssumption DEF Torn, Values
<1>4. merged \in [Forms -> Values]
  BY <1>3, CombinedValueIsCarried DEF Reparsed
<1>5. 1 \in 1 .. Len(queue) /\ 2 .. Len(queue) \subseteq 1 .. Len(queue)
  OBVIOUS
<1>6. names \subseteq Forms
  BY <1>2, <1>5
<1>7. r \in Request
  BY <1>1, <1>2, <1>4, <1>5, <1>6 DEF Request
<1>8. ASSUME NEW f \in Matching, NEW i \in 1 .. Len(queue),
             f \in queue[i].forms
      PROVE  f \in names
  <2>1. CASE i = 1
    BY <1>8, <2>1
  <2>2. CASE i # 1
    <3>1. queue[i].own = f /\ i \in 2 .. Len(queue)
      BY <1>8, <2>2 DEF QueueSound, IsSingle
    <3> QED
      BY <3>1
  <2> QED
    BY <2>1, <2>2
<1>9. ASSUME NEW f \in Matching, f \in names
      PROVE  \E i \in 1 .. Len(queue) : f \in queue[i].forms
  BY <1>5, <1>9 DEF QueueSound
<1>10. ASSUME NEW f \in Matching
       PROVE  /\ merged[f] > 0 <=> f \in names
              /\ f \in names => ld[f] /\ Current(f, merged[f], n[f])
  <2>1. f \in Forms
    BY FormsAssumption
  <2>2. CASE f \in names
    <3>1. PICK i \in 1 .. Len(queue) : f \in queue[i].forms
      BY <1>9, <2>2
    <3>2. CombinedValue(queue, f) = queue[i].data[f]
      BY <2>1, <3>1, CombinedValueIsCarried
    <3>3. ld[f] /\ Current(f, queue[i].data[f], n[f]) /\ queue[i].data[f] > 0
      BY <3>1 DEF QueueSound
    <3>4. merged[f] = Reparsed(f, queue[i].data[f])
      BY <2>1, <3>2
    <3> QED
      BY <1>3, <2>2, <3>3, <3>4 DEF Reparsed, Current
  <2>3. CASE f \notin names
    <3>1. CombinedValue(queue, f) = 0
      BY <1>8, <2>1, <2>3, CombinedValueIsCarried
    <3>2. merged[f] = 0
      BY <2>1, <3>1 DEF Reparsed
    <3> QED
      BY <2>3, <3>2
  <2> QED
    BY <2>2, <2>3
<1>11. queue[1].own \in names
  BY <1>5 DEF QueueSound
<1> HIDE DEF r, names, merged
<1>12. /\ r.own \in r.forms /\ r.combined
       /\ \A f \in Matching : r.data[f] > 0 <=> f \in r.forms
       /\ \A f \in Matching :
            f \in r.forms => ld[f] /\ Current(f, r.data[f], n[f])
  BY <1>1, <1>10, <1>11
<1>13. Len(<<r>>) = 1 /\ <<r>>[1] = r /\ <<r>> \in Seq(Request)
  BY <1>7
<1>14. QueueSound(<<r>>, ld, n)
  BY <1>12, <1>13 DEF QueueSound
<1>15. \A f \in Matching, i \in 1 .. Len(queue) :
         f \in queue[i].forms => f \in r.forms
  BY <1>1, <1>8
<1> QED
  BY <1>1, <1>13, <1>14, <1>15

\* The queue as it is sent.
LEMMA SentSound ==
  ASSUME NEW queue \in Seq(Request), NEW ld, NEW n, QueueSound(queue, ld, n),
         queue # <<>>, \A f \in Forms : n[f] \in Values
  PROVE  /\ Sent(queue) \in Seq(Request) /\ Len(Sent(queue)) = 1
         /\ QueueSound(Sent(queue), ld, n)
         /\ \A f \in Matching, i \in 1 .. Len(queue) :
              f \in queue[i].forms => f \in Sent(queue)[1].forms
<1>1. Len(queue) \in Nat /\ Len(queue) # 0
  OBVIOUS
<1>2. CASE Len(queue) > 1
  BY <1>2, CombineSound DEF Sent
<1>3. CASE Len(queue) = 1
  <2>1. Sent(queue) = queue
    BY <1>3 DEF Sent
  <2>2. \A i \in 1 .. Len(queue) : i = 1
    BY <1>3
  <2>3. \A f \in Matching, i \in 1 .. Len(queue) :
          f \in queue[i].forms => f \in Sent(queue)[1].forms
    BY <2>1, <2>2
  <2>4. QueueSound(Sent(queue), ld, n)
    BY <2>1
  <2>5. Sent(queue) \in Seq(Request) /\ Len(Sent(queue)) = 1
    BY <1>3, <2>1
  <2> QED
    BY <2>3, <2>4, <2>5
<1>4. Len(queue) > 1 \/ Len(queue) = 1
  <2>1. \A k \in Nat : k # 0 => k > 1 \/ k = 1
    OBVIOUS
  <2> QED
    BY <1>1, <2>1
<1> QED
  BY <1>2, <1>3, <1>4
-----------------------------------------------------------------------------
(* The steps.                                                              *)

\* run, called by a timer while nothing is in flight.
LEMMA RunKeeps ==
  ASSUME EditInv, Run, inFlight = 0, againTimer' = FALSE,
         UNCHANGED <<loading, saves, stored, refused, misreported>>
  PROVE  EditInv'
<1>1. /\ EditTypeOK /\ OneRequestInFlight /\ DisabledFormsWait /\ SavedIsStored
      /\ QueueSound(requests, loading, saves)
      /\ requests \in Seq(Request)
      /\ \A f \in Forms : saves[f] \in Values
  BY DEF EditInv, EditTypeOK, SavesAreValues
<1>2. SavedIsStored' /\ SavesAreValues'
  BY <1>1 DEF SavedIsStored, SavesAreValues
<1>3. CASE requests = <<>>
  <2>1. /\ idleTimer' = TRUE /\ running' = FALSE
        /\ UNCHANGED <<requests, inFlight>>
    BY <1>3 DEF Run
  <2>2. EditTypeOK'
    BY <1>1, <2>1 DEF EditTypeOK
  <2>5. OneRequestInFlight'
    BY <2>1 DEF OneRequestInFlight
  <2>3. QueueSound(requests, loading, saves)'
    BY <1>1, <2>1
  <2>4. DisabledFormsWait'
    BY <1>1, <2>1 DEF DisabledFormsWait
  <2> QED
    BY <1>2, <2>2, <2>3, <2>4, <2>5 DEF EditInv
<1>4. CASE requests # <<>>
  <2>1. /\ requests' = Sent(requests) /\ running' = TRUE
        /\ inFlight' = inFlight + 1 /\ idleTimer' = FALSE
    BY <1>4 DEF Run
  <2>2. /\ requests' \in Seq(Request) /\ Len(requests') = 1
        /\ QueueSound(requests', loading, saves)
        /\ \A f \in Matching, i \in 1 .. Len(requests) :
             f \in requests[i].forms => f \in requests'[1].forms
    BY <1>1, <1>4, <2>1, SentSound
  <2>3. EditTypeOK'
    <3>1. requests' \in Seq(Request)
      BY <2>2
    <3>2. inFlight' \in Nat
      BY <2>1
    <3>3. {running', idleTimer', againTimer'} \subseteq BOOLEAN
      BY <2>1
    <3> QED
      BY <1>1, <3>1, <3>2, <3>3 DEF EditTypeOK
  <2>7. OneRequestInFlight'
    BY <2>1 DEF OneRequestInFlight
  <2>4. QueueSound(requests, loading, saves)'
    BY <2>2
  <2>5. 1 \in 1 .. Len(requests')
    BY <2>2
  <2>6. DisabledFormsWait'
    BY <1>1, <2>2, <2>5 DEF DisabledFormsWait
  <2> QED
    BY <1>2, <2>3, <2>4, <2>6, <2>7 DEF EditInv
<1> QED
  BY <1>3, <1>4

\* A press: the form is disabled, its request queued, and sent if nothing is in
\* flight; the copy of a button bound twice is queued behind it.
LEMMA SaveKeeps ==
  ASSUME EditInv, NEW f \in Forms, Save(f)
  PROVE  EditInv'
<1> DEFINE n == saves[f] + 1
           r == [own |-> f, forms |-> {f}, combined |-> FALSE,
                 data |-> [g \in Forms |-> IF g = f THEN n ELSE 0]]
           q == Append(requests, r)
           copy == IF f \in BoundTwice THEN <<r>> ELSE <<>>
           base == IF running THEN q ELSE Sent(q)
<1>1. /\ EditTypeOK /\ OneRequestInFlight /\ DisabledFormsWait /\ SavedIsStored
      /\ QueueSound(requests, loading, saves)
      /\ requests \in Seq(Request)
      /\ \A g \in Forms : saves[g] \in Values
  BY DEF EditInv, EditTypeOK, SavesAreValues
<1>2. /\ ~loading[f] /\ saves[f] < MaxSaves
      /\ saves' = [saves EXCEPT ![f] = n]
      /\ loading' = [loading EXCEPT ![f] = TRUE]
      /\ idleTimer' = FALSE /\ running' = TRUE
      /\ requests' = base \o copy
      /\ inFlight' = IF running THEN inFlight ELSE inFlight + 1
      /\ UNCHANGED <<againTimer, stored, refused, misreported>>
  BY DEF Save, DisableForm, RunNow
<1>3. n \in Values /\ n > 0 /\ n \in Nat /\ 0 \in Values
  BY <1>1, <1>2, MaxSavesAssumption DEF EditTypeOK, Values, Torn
<1>4. r \in Request
  BY <1>3 DEF Request
<1>5. IsSingle(r) /\ r.own = f /\ f \in r.forms /\ r.data[f] = n
  BY <1>3 DEF IsSingle
<1> HIDE DEF n, r
<1>6. /\ saves' \in [Forms -> Nat] /\ loading' \in [Forms -> BOOLEAN]
      /\ \A g \in Forms : saves'[g] \in Values
      /\ saves'[f] = n /\ loading'[f]
      /\ \A g \in Forms \ {f} : saves'[g] = saves[g] /\ loading'[g] = loading[g]
  BY <1>1, <1>2, <1>3 DEF EditTypeOK
<1>7. f \in Matching =>
        \A i \in 1 .. Len(requests) : f \notin requests[i].forms
  BY <1>1, <1>2 DEF QueueSound
<1>8. QueueSound(requests, loading', saves')
  <2>1. ASSUME NEW g \in Matching, NEW i \in 1 .. Len(requests),
               g \in requests[i].forms
        PROVE  g \in Forms \ {f}
    BY <1>7, <2>1, FormsAssumption
  <2> QED
    BY <1>1, <1>6, <2>1 DEF QueueSound
<1>9. q \in Seq(Request) /\ QueueSound(q, loading', saves')
  <2>1. QueueSound(q, loading', saves')
    BY <1>1, <1>4, <1>5, <1>6, <1>7, <1>8, AppendSound DEF Current
  <2> QED
    BY <1>1, <1>4, <2>1
<1>10. /\ q # <<>> /\ Len(q) = Len(requests) + 1 /\ q[Len(q)] = r
       /\ Len(requests) \in Nat
       /\ \A i \in 1 .. Len(requests) : q[i] = requests[i] /\ i \in 1 .. Len(q)
  BY <1>1, <1>4
<1> HIDE DEF q
<1>11. /\ base \in Seq(Request) /\ QueueSound(base, loading', saves')
       /\ \A g \in Matching, i \in 1 .. Len(q) : g \in q[i].forms =>
            \E j \in 1 .. Len(base) : g \in base[j].forms
  <2>1. CASE running
    BY <1>9, <2>1
  <2>2. CASE ~running
    <3>1. base = Sent(q)
      BY <2>2
    <3>2. /\ base \in Seq(Request) /\ Len(base) = 1
          /\ QueueSound(base, loading', saves')
          /\ \A g \in Matching, i \in 1 .. Len(q) :
               g \in q[i].forms => g \in base[1].forms
      BY <1>6, <1>9, <1>10, <3>1, SentSound
    <3>3. Len(base) = 1
      BY <3>2
    <3>4. 1 \in 1 .. Len(base)
      BY <3>3
    <3> QED
      BY <3>2, <3>4
  <2> QED
    BY <2>1, <2>2
<1> HIDE DEF base
<1>12. /\ requests' \in Seq(Request)
       /\ QueueSound(requests', loading', saves')
       /\ \A i \in 1 .. Len(base) :
            i \in 1 .. Len(requests') /\ requests'[i] = base[i]
  <2>1. CASE f \in BoundTwice
    <3>1. requests' = Append(base, r)
      BY <1>2, <1>4, <1>11, <2>1
    <3>2. r.own \notin Matching
      BY <1>5, <2>1, FormsAssumption
    <3>3. QueueSound(Append(base, r), loading', saves')
      BY <1>4, <1>5, <1>11, <3>2, AppendSound
    <3> QED
      BY <1>4, <1>11, <3>1, <3>3
  <2>2. CASE f \notin BoundTwice
    <3>1. requests' = base
      BY <1>2, <1>11, <2>2
    <3> QED
      BY <1>11, <3>1
  <2> QED
    BY <2>1, <2>2
<1>13. EditTypeOK'
  <2>1. inFlight' \in Nat
    BY <1>1, <1>2 DEF EditTypeOK
  <2>2. UNCHANGED <<againTimer, stored, refused, misreported>>
    BY <1>2
  <2>3. idleTimer' \in BOOLEAN /\ running' \in BOOLEAN
    BY <1>2
  <2>4. requests' \in Seq(Request)
    BY <1>12
  <2>5. saves' \in [Forms -> Nat] /\ loading' \in [Forms -> BOOLEAN]
    BY <1>6
  <2> QED
    BY <1>1, <2>1, <2>2, <2>3, <2>4, <2>5 DEF EditTypeOK
<1>16. OneRequestInFlight'
  BY <1>1, <1>2 DEF EditTypeOK, OneRequestInFlight
<1>14. DisabledFormsWait'
  <2> SUFFICES ASSUME NEW g \in Matching, loading'[g]
               PROVE  \/ g \in refused'
                      \/ \E i \in 1 .. Len(requests') : g \in requests'[i].forms
    BY DEF DisabledFormsWait
  <2>1. g \in Forms
    BY FormsAssumption
  <2>2. CASE g = f
    <3>1. Len(q) \in 1 .. Len(q) /\ f \in q[Len(q)].forms
      BY <1>5, <1>10
    <3> QED
      BY <1>11, <1>12, <2>2, <3>1
  <2>3. CASE g # f
    <3>1. g \in refused \/ \E i \in 1 .. Len(requests) : g \in requests[i].forms
      BY <1>1, <1>6, <2>1, <2>3 DEF DisabledFormsWait
    <3> QED
      BY <1>2, <1>10, <1>11, <1>12, <3>1
  <2> QED
    BY <2>2, <2>3
<1>15. SavedIsStored'
  <2>1. ASSUME NEW g \in Matching, ~loading'[g]
        PROVE  saves'[g] = saves[g] /\ ~loading[g]
    BY <1>6, <2>1, FormsAssumption
  <2> QED
    BY <1>1, <1>2, <2>1 DEF SavedIsStored
<1>17. SavesAreValues'
  BY <1>6 DEF SavesAreValues
<1> QED
  BY <1>12, <1>13, <1>14, <1>15, <1>16, <1>17 DEF EditInv

\* The answer: what the head carried is stored, or its forms stay disabled, or
\* say more than is true; no other request named them.
LEMMA AnswerKeeps ==
  ASSUME EditInv, NEW ok \in BOOLEAN, NEW written \in BOOLEAN,
         Answer(ok, written)
  PROVE  EditInv'
<1> DEFINE r == Head(requests)
           enabled == (IF ok THEN {r.own} ELSE {})
                      \cup (IF r.combined THEN r.forms ELSE {})
<1>1. /\ EditTypeOK /\ OneRequestInFlight /\ DisabledFormsWait /\ SavedIsStored
      /\ QueueSound(requests, loading, saves)
      /\ requests \in Seq(Request)
  BY DEF EditInv, EditTypeOK
<1>2. /\ inFlight > 0 /\ requests # <<>> /\ (ok => written)
      /\ inFlight' = inFlight - 1
      /\ requests' = Tail(requests)
      /\ stored' = IF written
                   THEN [f \in Forms |-> IF r.data[f] > 0 THEN r.data[f]
                                         ELSE stored[f]]
                   ELSE stored
      /\ loading' = [f \in Forms |-> loading[f] /\ f \notin enabled]
      /\ misreported' = IF ok THEN misreported \ enabled
                        ELSE misreported \cup enabled
      /\ refused' = IF ok \/ r.combined THEN refused ELSE refused \cup {r.own}
      /\ againTimer' = TRUE
      /\ UNCHANGED <<running, idleTimer, saves>>
  BY DEF Answer, EnableForms
<1>3. /\ r = requests[1] /\ 1 \in 1 .. Len(requests)
      /\ requests' \in Seq(Request)
      /\ \A i \in 1 .. Len(requests') :
           requests'[i] = requests[i + 1] /\ i + 1 \in 2 .. Len(requests)
           /\ i + 1 \in 1 .. Len(requests)
      /\ \A i \in 2 .. Len(requests) :
           i - 1 \in 1 .. Len(requests') /\ requests'[i - 1] = requests[i]
      /\ \A i \in 1 .. Len(requests) : i = 1 \/ i \in 2 .. Len(requests)
  BY <1>1, <1>2
<1>4. r \in Request
  BY <1>1, <1>3
<1>5. /\ r.own \in Forms /\ r.forms \subseteq Forms
      /\ r.data \in [Forms -> Values] /\ r.combined \in BOOLEAN
  BY <1>4 DEF Request
<1>6. /\ ~r.combined => r.forms = {r.own}
      /\ r.own \in r.forms
      /\ \A f \in Matching :
           /\ r.data[f] > 0 <=> f \in r.forms
           /\ f \in r.forms =>
                /\ loading[f] /\ Current(f, r.data[f], saves[f])
                /\ \A j \in 1 .. Len(requests) : f \in requests[j].forms => 1 = j
  BY <1>1, <1>3 DEF QueueSound, IsSingle
<1> HIDE DEF r
<1>7. enabled \subseteq r.forms /\ enabled \subseteq Forms
  BY <1>5, <1>6
<1>8. EditTypeOK'
  <2>1. inFlight' \in Nat
    BY <1>1, <1>2 DEF EditTypeOK
  <2>2. loading' \in [Forms -> BOOLEAN] /\ againTimer' \in BOOLEAN
    BY <1>1, <1>2 DEF EditTypeOK
  <2>3. stored' \in [Forms -> Values]
    BY <1>1, <1>2, <1>5 DEF EditTypeOK
  <2>4. refused' \subseteq Forms /\ misreported' \subseteq Forms
    BY <1>1, <1>2, <1>5, <1>7 DEF EditTypeOK
  <2> QED
    BY <1>1, <1>2, <1>3, <2>1, <2>2, <2>3, <2>4 DEF EditTypeOK
<1>9. OneRequestInFlight'
  BY <1>1, <1>2 DEF EditTypeOK, OneRequestInFlight
<1>10. QueueSound(requests', loading', saves')
  <2> SUFFICES ASSUME NEW i \in 1 .. Len(requests')
               PROVE  /\ requests'[i].combined => i = 1
                      /\ ~requests'[i].combined => IsSingle(requests'[i])
                      /\ requests'[i].own \in requests'[i].forms
                      /\ \A f \in Matching :
                           /\ requests'[i].data[f] > 0 <=> f \in requests'[i].forms
                           /\ f \in requests'[i].forms =>
                                /\ loading'[f]
                                /\ Current(f, requests'[i].data[f], saves'[f])
                                /\ \A j \in 1 .. Len(requests') :
                                     f \in requests'[j].forms => i = j
    BY DEF QueueSound
  <2>1. /\ requests'[i] = requests[i + 1] /\ i + 1 \in 1 .. Len(requests)
        /\ i + 1 # 1
    BY <1>3
  <2>2. /\ ~requests'[i].combined /\ IsSingle(requests'[i])
        /\ requests'[i].own \in requests'[i].forms
    BY <1>1, <2>1 DEF QueueSound
  <2>3. ASSUME NEW f \in Matching
        PROVE  requests'[i].data[f] > 0 <=> f \in requests'[i].forms
    BY <1>1, <2>1 DEF QueueSound
  <2>4. ASSUME NEW f \in Matching, f \in requests'[i].forms
        PROVE  /\ loading'[f] /\ Current(f, requests'[i].data[f], saves'[f])
               /\ \A j \in 1 .. Len(requests') :
                    f \in requests'[j].forms => i = j
    <3>1. /\ loading[f] /\ Current(f, requests'[i].data[f], saves[f])
          /\ \A j \in 1 .. Len(requests) : f \in requests[j].forms => i + 1 = j
      BY <1>1, <2>1, <2>4 DEF QueueSound
    <3>2. f \notin enabled /\ f \in Forms
      BY <1>3, <1>7, <2>1, <3>1, FormsAssumption
    <3>3. loading'[f]
      BY <1>2, <3>1, <3>2
    <3>4. ASSUME NEW j \in 1 .. Len(requests'), f \in requests'[j].forms
          PROVE  i = j
      BY <1>3, <3>1, <3>4
    <3> QED
      BY <1>2, <3>1, <3>3, <3>4
  <2> QED
    BY <2>2, <2>3, <2>4
<1>11. DisabledFormsWait'
  <2> SUFFICES ASSUME NEW g \in Matching, loading'[g]
               PROVE  \/ g \in refused'
                      \/ \E i \in 1 .. Len(requests') : g \in requests'[i].forms
    BY DEF DisabledFormsWait
  <2>1. loading[g] /\ g \notin enabled
    BY <1>2, FormsAssumption
  <2>2. CASE g \in refused
    BY <1>2, <2>2
  <2>3. CASE g \in r.forms
    BY <1>2, <1>6, <2>1, <2>3
  <2>4. ASSUME NEW i \in 2 .. Len(requests), g \in requests[i].forms
        PROVE  \E j \in 1 .. Len(requests') : g \in requests'[j].forms
    BY <1>3, <2>4
  <2> QED
    BY <1>1, <1>3, <2>1, <2>2, <2>3, <2>4 DEF DisabledFormsWait
<1>12. SavedIsStored'
  <2> SUFFICES ASSUME NEW g \in Matching, g \notin misreported', ~loading'[g]
               PROVE  Current(g, stored'[g], saves'[g])
    BY DEF SavedIsStored, Current
  <2>1. g \in Forms
    BY FormsAssumption
  <2>2. CASE g \in enabled
    <3>1. ok /\ written /\ r.data[g] > 0 /\ Current(g, r.data[g], saves[g])
      BY <1>2, <1>6, <1>7, <2>2
    <3>2. stored'[g] = r.data[g]
      BY <1>2, <2>1, <3>1
    <3> QED
      BY <1>2, <3>1, <3>2
  <2>3. CASE g \notin enabled
    <3>1. ~loading[g] /\ g \notin misreported
      BY <1>2, <2>1, <2>3
    <3>2. Current(g, stored[g], saves[g])
      BY <1>1, <3>1 DEF SavedIsStored, Current
    <3>3. ~(r.data[g] > 0)
      BY <1>6, <3>1
    <3>4. stored'[g] = stored[g]
      BY <1>2, <2>1, <3>3
    <3> QED
      BY <1>2, <3>2, <3>4
  <2> QED
    BY <2>2, <2>3
<1>13. SavesAreValues'
  BY <1>2 DEF EditInv, SavesAreValues
<1> QED
  BY <1>8, <1>9, <1>10, <1>11, <1>12, <1>13 DEF EditInv
-----------------------------------------------------------------------------
LEMMA EditInitially == EditInit => EditInv
<1> SUFFICES ASSUME EditInit
             PROVE  EditInv
  OBVIOUS
<1>1. 0 \in Values /\ 0 \in Nat
  BY MaxSavesAssumption DEF Values, Torn
<1>2. EditTypeOK
  <2>1. <<>> \in Seq(Request)
    OBVIOUS
  <2>2. /\ loading \in [Forms -> BOOLEAN] /\ saves \in [Forms -> Nat]
        /\ stored \in [Forms -> Values]
    BY <1>1 DEF EditInit
  <2> QED
    BY <1>1, <2>1, <2>2 DEF EditInit, EditTypeOK
<1>3. SavesAreValues /\ OneRequestInFlight
  BY <1>1 DEF EditInit, SavesAreValues, OneRequestInFlight
<1>4. Len(requests) = 0
  BY DEF EditInit
<1>5. QueueSound(requests, loading, saves)
  BY <1>4 DEF QueueSound
<1>6. DisabledFormsWait /\ SavedIsStored
  BY FormsAssumption DEF EditInit, DisabledFormsWait, SavedIsStored
<1> QED
  BY <1>2, <1>3, <1>5, <1>6 DEF EditInv

LEMMA EditInductive ==
  ASSUME EditInv, [EditNext]_editVars
  PROVE  EditInv'
<1>1. ASSUME NEW f \in Forms, Save(f)
      PROVE  EditInv'
  BY <1>1, SaveKeeps
<1>2. ASSUME NEW ok \in BOOLEAN, NEW written \in BOOLEAN, Answer(ok, written)
      PROVE  EditInv'
  BY <1>2, AnswerKeeps
<1>3. CASE FireAgain
  <2>1. inFlight = 0
    BY <1>3 DEF FireAgain, EditInv, EditTypeOK, OneRequestInFlight
  <2> QED
    BY <1>3, <2>1, RunKeeps DEF FireAgain
<1>4. CASE FireIdle
  <2>1. inFlight = 0 /\ againTimer = FALSE
    BY <1>4 DEF FireIdle, EditInv, EditTypeOK, OneRequestInFlight
  <2> QED
    BY <1>4, <2>1, RunKeeps DEF FireIdle
<1>5. CASE UNCHANGED editVars
  BY <1>5
  DEF editVars, EditInv, EditTypeOK, SavesAreValues, OneRequestInFlight,
      DisabledFormsWait, SavedIsStored
<1> QED
  BY <1>1, <1>2, <1>3, <1>4, <1>5 DEF EditNext

\* The invariant in the form the theorems use.
LEMMA EditInvariance == EditSpec => []EditInv
BY EditInitially, EditInductive, PTL DEF EditSpec

\* ajaxManager (batch_edit.js) never sends a request while another is in flight,
\* and never has a timer pending that would, although run does not ask.
THEOREM RequestsGoOneAtATime == EditSpec => []OneRequestInFlight
<1>1. EditInv => OneRequestInFlight
  BY DEF EditInv
<1> QED
  BY <1>1, EditInvariance, PTL

\* combine_requests forgets no form it recognises: whatever is disabled waits for
\* a request that enables it, or its own request failed.
THEOREM CombiningForgetsNoForm == EditSpec => []DisabledFormsWait
<1>1. EditInv => DisabledFormsWait
  BY DEF EditInv
<1> QED
  BY <1>1, EditInvariance, PTL

\* However saves are queued, combined, answered or lost, a form that can be saved
\* again shows what the works have, with the exceptions SavedIsStored names.
THEOREM WhatIsSavedIsStored == EditSpec => []SavedIsStored
<1>1. EditInv => SavedIsStored
  BY DEF EditInv
<1> QED
  BY <1>1, EditInvariance, PTL
=============================================================================
