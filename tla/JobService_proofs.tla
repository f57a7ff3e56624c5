-------------------------- MODULE JobService_proofs --------------------------
(***************************************************************************)
(* Proofs about JobService, for any set of queue keys and of jobs.         *)
(***************************************************************************)
EXTENDS JobService, TLAPS

(* The state variables keep their types. *)
LEMMA TypeStep ==
    ASSUME KeyOf \in [Jobs -> Keys], TypeOK, Next
    PROVE  TypeOK'
<1> USE DEF TypeOK
<1>1. ASSUME NEW j \in Jobs, Accept(j) PROVE TypeOK'
  BY <1>1 DEF Accept, Outcomes
<1>2. ASSUME NEW j \in Jobs, Refuse(j) PROVE TypeOK'
  BY <1>2 DEF Refuse, Outcomes
<1>3. ASSUME NEW k \in Keys, NEW a \in Answers, Resolve(k, a) PROVE TypeOK'
  <2>1. Head(pending[k]) \in Jobs /\ Tail(pending[k]) \in Seq(Jobs)
    BY <1>3 DEF Resolve
  <2> QED BY <1>3, <2>1 DEF Resolve, Outcomes, Answers
<1>4. CASE Forget
  <2>1. pending' \in [Keys -> Seq(Jobs)]
    <3>1. <<>> \in Seq(Jobs)
      OBVIOUS
    <3> QED BY <1>4, <3>1 DEF Forget
  <2>2. outcome' \in [Jobs -> Outcomes]
    BY <1>4 DEF Forget, Outcomes
  <2> QED BY <2>1, <2>2
<1> QED BY <1>1, <1>2, <1>3, <1>4 DEF Next

(* Lining a job up keeps the lines exact: it was new, so it was in no line. *)
LEMMA AcceptKeepsLines ==
    ASSUME KeyOf \in [Jobs -> Keys], TypeOK, LinesAreExact, NEW j \in Jobs, Accept(j)
    PROVE  LinesAreExact'
<1> DEFINE q == pending[KeyOf[j]]
           q2 == pending'[KeyOf[j]]
<1>1. KeyOf[j] \in Keys /\ q \in Seq(Jobs) /\ Len(q) \in Nat
  BY DEF TypeOK
<1>2. q2 = Append(q, j) /\ Len(q2) = Len(q) + 1 /\ q2[Len(q) + 1] = j
      /\ \A i \in 1 .. Len(q) : q2[i] = q[i]
  BY <1>1 DEF Accept, TypeOK
<1>3. \A k \in Keys \ {KeyOf[j]} : pending'[k] = pending[k]
  BY DEF Accept, TypeOK
<1>4. /\ outcome[j] = "new" /\ outcome'[j] = "accepted"
      /\ \A m \in Jobs \ {j} : outcome'[m] = outcome[m]
  BY DEF Accept, TypeOK
<1>5. \A k \in Keys : \A i \in 1 .. Len(pending[k]) : pending[k][i] \in Jobs \ {j}
  <2> SUFFICES ASSUME NEW k \in Keys, NEW i \in 1 .. Len(pending[k])
               PROVE  pending[k][i] \in Jobs /\ pending[k][i] # j
    OBVIOUS
  <2>1. pending[k] \in Seq(Jobs)
    BY DEF TypeOK
  <2> QED BY <2>1, <1>4 DEF LinesAreExact
<1>6. \A k \in Keys : \A i \in 1 .. Len(pending'[k]) :
         outcome'[pending'[k][i]] = "accepted" /\ KeyOf[pending'[k][i]] = k
  <2> SUFFICES ASSUME NEW k \in Keys, NEW i \in 1 .. Len(pending'[k])
               PROVE  outcome'[pending'[k][i]] = "accepted" /\ KeyOf[pending'[k][i]] = k
    OBVIOUS
  <2>1. CASE k # KeyOf[j]
    BY <2>1, <1>3, <1>4, <1>5 DEF LinesAreExact
  <2>2. CASE k = KeyOf[j] /\ i <= Len(q)
    BY <2>2, <1>1, <1>2, <1>4, <1>5 DEF LinesAreExact
  <2>3. CASE k = KeyOf[j] /\ i = Len(q) + 1
    BY <2>3, <1>2, <1>4
  <2> QED BY <2>1, <2>2, <2>3, <1>1, <1>2
<1>7. \A k \in Keys : \A i, n \in 1 .. Len(pending'[k]) :
         pending'[k][i] = pending'[k][n] => i = n
  <2> SUFFICES ASSUME NEW k \in Keys, NEW i \in 1 .. Len(pending'[k]),
                      NEW n \in 1 .. Len(pending'[k]), pending'[k][i] = pending'[k][n]
               PROVE  i = n
    OBVIOUS
  <2>1. CASE k # KeyOf[j]
    BY <2>1, <1>3 DEF LinesAreExact
  <2>2. CASE k = KeyOf[j]
    <3>1. (i <= Len(q) => q2[i] # j) /\ (n <= Len(q) => q2[n] # j)
      BY <2>2, <1>1, <1>2, <1>5
    <3>2. CASE i <= Len(q) /\ n <= Len(q)
      BY <2>2, <3>2, <1>1, <1>2 DEF LinesAreExact
    <3> QED BY <2>2, <3>1, <3>2, <1>1, <1>2
  <2> QED BY <2>1, <2>2
<1>8. \A m \in Jobs : outcome'[m] = "accepted" =>
         \E i \in 1 .. Len(pending'[KeyOf[m]]) : pending'[KeyOf[m]][i] = m
  <2> SUFFICES ASSUME NEW m \in Jobs, outcome'[m] = "accepted"
               PROVE  \E i \in 1 .. Len(pending'[KeyOf[m]]) : pending'[KeyOf[m]][i] = m
    OBVIOUS
  <2>1. CASE m = j
    <3>1. Len(q) + 1 \in 1 .. Len(q2)
      BY <1>1, <1>2
    <3> QED BY <2>1, <3>1, <1>2
  <2>2. CASE m # j
    <3>1. PICK i \in 1 .. Len(pending[KeyOf[m]]) : pending[KeyOf[m]][i] = m
      BY <2>2, <1>4 DEF LinesAreExact
    <3>2. CASE KeyOf[m] # KeyOf[j]
      BY <3>1, <3>2, <1>3
    <3>3. CASE KeyOf[m] = KeyOf[j]
      <4>1. i \in 1 .. Len(q2) /\ q2[i] = m
        BY <3>1, <3>3, <1>1, <1>2
      <4> QED BY <4>1, <3>3
    <3> QED BY <3>2, <3>3
  <2> QED BY <2>1, <2>2
<1> QED BY <1>6, <1>7, <1>8 DEF LinesAreExact

(* Refusing a job keeps the lines exact: it was in none. *)
LEMMA RefuseKeepsLines ==
    ASSUME TypeOK, LinesAreExact, NEW j \in Jobs, Refuse(j)
    PROVE  LinesAreExact'
<1>1. pending' = pending /\ outcome[j] = "new" /\ outcome'[j] = "refused"
  BY DEF Refuse, TypeOK
<1>2. \A m \in Jobs \ {j} : outcome'[m] = outcome[m]
  BY DEF Refuse, TypeOK
<1>3. \A k \in Keys : \A i \in 1 .. Len(pending[k]) :
         pending[k][i] \in Jobs /\ pending[k][i] # j
  <2> SUFFICES ASSUME NEW k \in Keys, NEW i \in 1 .. Len(pending[k])
               PROVE  pending[k][i] \in Jobs /\ pending[k][i] # j
    OBVIOUS
  <2>1. pending[k] \in Seq(Jobs)
    BY DEF TypeOK
  <2> QED BY <2>1, <1>1 DEF LinesAreExact
<1>4. \A m \in Jobs : outcome'[m] = "accepted" => outcome[m] = "accepted"
  BY <1>1, <1>2
<1> QED BY <1>1, <1>2, <1>3, <1>4 DEF LinesAreExact

(* Answering the head of a line keeps the lines exact: it was there only once. *)
LEMMA ResolveKeepsLines ==
    ASSUME KeyOf \in [Jobs -> Keys], TypeOK, LinesAreExact,
           NEW k \in Keys, NEW a \in Answers, Resolve(k, a)
    PROVE  LinesAreExact'
<1> DEFINE q == pending[k]
<1>1. q \in Seq(Jobs) /\ q # <<>> /\ Len(q) \in Nat /\ Len(q) > 0
  BY DEF TypeOK, Resolve
<1>2. Head(q) = q[1] /\ q[1] \in Jobs /\ Len(Tail(q)) = Len(q) - 1
      /\ \A i \in 1 .. Len(Tail(q)) : Tail(q)[i] = q[i + 1]
  BY <1>1
<1>3. pending'[k] = Tail(q) /\ \A l \in Keys \ {k} : pending'[l] = pending[l]
  BY DEF Resolve, TypeOK
<1>4. outcome'[q[1]] = a /\ a # "accepted" /\ \A m \in Jobs \ {q[1]} : outcome'[m] = outcome[m]
  BY <1>2 DEF Resolve, TypeOK, Answers
<1>5. KeyOf[q[1]] = k
  BY <1>1 DEF LinesAreExact
<1>6. \A i \in 2 .. Len(q) : q[i] \in Jobs \ {q[1]}
  BY <1>1 DEF LinesAreExact
<1>7. \A l \in Keys \ {k} : \A i \in 1 .. Len(pending[l]) : pending[l][i] \in Jobs \ {q[1]}
  <2> SUFFICES ASSUME NEW l \in Keys \ {k}, NEW i \in 1 .. Len(pending[l])
               PROVE  pending[l][i] \in Jobs \ {q[1]}
    OBVIOUS
  <2>1. pending[l] \in Seq(Jobs)
    BY DEF TypeOK
  <2> QED BY <2>1, <1>5 DEF LinesAreExact
<1>8. \A l \in Keys : \A i \in 1 .. Len(pending'[l]) :
         outcome'[pending'[l][i]] = "accepted" /\ KeyOf[pending'[l][i]] = l
  <2> SUFFICES ASSUME NEW l \in Keys, NEW i \in 1 .. Len(pending'[l])
               PROVE  outcome'[pending'[l][i]] = "accepted" /\ KeyOf[pending'[l][i]] = l
    OBVIOUS
  <2>1. CASE l # k
    BY <2>1, <1>3, <1>4, <1>7 DEF LinesAreExact
  <2>2. CASE l = k
    <3>1. i + 1 \in 2 .. Len(q) /\ pending'[k][i] = q[i + 1]
      BY <2>2, <1>1, <1>2, <1>3
    <3> QED BY <2>2, <3>1, <1>4, <1>6 DEF LinesAreExact
  <2> QED BY <2>1, <2>2
<1>9. \A l \in Keys : \A i, n \in 1 .. Len(pending'[l]) :
         pending'[l][i] = pending'[l][n] => i = n
  <2> SUFFICES ASSUME NEW l \in Keys, NEW i \in 1 .. Len(pending'[l]),
                      NEW n \in 1 .. Len(pending'[l]), pending'[l][i] = pending'[l][n]
               PROVE  i = n
    OBVIOUS
  <2>1. CASE l # k
    BY <2>1, <1>3 DEF LinesAreExact
  <2>2. CASE l = k
    <3>1. i + 1 \in 1 .. Len(q) /\ n + 1 \in 1 .. Len(q) /\ q[i + 1] = q[n + 1]
      BY <2>2, <1>1, <1>2, <1>3
    <3>2. i + 1 = n + 1
      BY <3>1 DEF LinesAreExact
    <3> QED BY <2>2, <3>2, <1>1, <1>2, <1>3
  <2> QED BY <2>1, <2>2
<1>10. \A m \in Jobs : outcome'[m] = "accepted" =>
          \E i \in 1 .. Len(pending'[KeyOf[m]]) : pending'[KeyOf[m]][i] = m
  <2> SUFFICES ASSUME NEW m \in Jobs, outcome'[m] = "accepted"
               PROVE  \E i \in 1 .. Len(pending'[KeyOf[m]]) : pending'[KeyOf[m]][i] = m
    OBVIOUS
  <2>1. m # q[1] /\ outcome[m] = "accepted"
    BY <1>4
  <2>2. PICK i \in 1 .. Len(pending[KeyOf[m]]) : pending[KeyOf[m]][i] = m
    BY <2>1 DEF LinesAreExact
  <2>3. CASE KeyOf[m] # k
    BY <2>2, <2>3, <1>3
  <2>4. CASE KeyOf[m] = k
    <3>1. i - 1 \in 1 .. Len(pending'[k]) /\ pending'[k][i - 1] = m
      BY <2>1, <2>2, <2>4, <1>1, <1>2, <1>3
    <3> QED BY <3>1, <2>4
  <2> QED BY <2>3, <2>4
<1> QED BY <1>8, <1>9, <1>10 DEF LinesAreExact

(* The steps of the service keep the lines exact. *)
LEMMA LinesStep ==
    ASSUME KeyOf \in [Jobs -> Keys], TypeOK, LinesAreExact, Next
    PROVE  LinesAreExact'
<1>1. CASE Forget
  <2>1. \A k \in Keys : pending'[k] = <<>>
    BY <1>1 DEF Forget
  <2>2. \A j \in Jobs : outcome'[j] # "accepted"
    BY <1>1 DEF Forget
  <2> QED BY <2>1, <2>2 DEF LinesAreExact
<1> QED BY <1>1, AcceptKeepsLines, RefuseKeepsLines, ResolveKeepsLines DEF Next

(* At any time the lines hold exactly the accepted jobs, each once. *)
THEOREM LinesAlwaysExact == ASSUME KeyOf \in [Jobs -> Keys] PROVE Spec => [](TypeOK /\ LinesAreExact)
<1>1. Init => TypeOK /\ LinesAreExact
  <2> SUFFICES ASSUME Init PROVE TypeOK /\ LinesAreExact
    OBVIOUS
  <2>1. (\A k \in Keys : pending[k] = <<>>) /\ \A j \in Jobs : outcome[j] = "new"
    BY DEF Init
  <2>2. pending \in [Keys -> Seq(Jobs)]
    <3>1. <<>> \in Seq(Jobs)
      OBVIOUS
    <3> QED BY <3>1 DEF Init
  <2> QED BY <2>1, <2>2 DEF Init, TypeOK, Outcomes, LinesAreExact
<1>2. TypeOK /\ LinesAreExact /\ [Next]_vars => (TypeOK /\ LinesAreExact)'
  <2>1. CASE Next
    BY <2>1, TypeStep, LinesStep
  <2>2. CASE UNCHANGED vars
    BY <2>2 DEF vars, TypeOK, LinesAreExact
  <2> QED BY <2>1, <2>2
<1> QED BY <1>1, <1>2, PTL DEF Spec

(* A settled job keeps its outcome: Resolve only answers the accepted head of a
   line, and the other actions only touch new or accepted jobs. *)
THEOREM OutcomesAreFinal == ASSUME KeyOf \in [Jobs -> Keys] PROVE Spec => OutcomeIsFinal
<1> DEFINE Kept == \A j \in Jobs : outcome[j] \notin {"new", "accepted"} => outcome'[j] = outcome[j]
<1>1. TypeOK /\ LinesAreExact /\ [Next]_vars => [Kept]_vars
  <2> SUFFICES ASSUME TypeOK, LinesAreExact, Next PROVE Kept
    OBVIOUS
  <2>1. ASSUME NEW j \in Jobs, Accept(j) \/ Refuse(j) PROVE Kept
    BY <2>1 DEF Accept, Refuse, TypeOK
  <2>2. ASSUME NEW k \in Keys, NEW a \in Answers, Resolve(k, a) PROVE Kept
    <3>1. pending[k] \in Seq(Jobs) /\ pending[k] # <<>>
      BY <2>2 DEF Resolve, TypeOK
    <3>2. Head(pending[k]) = pending[k][1] /\ outcome[pending[k][1]] = "accepted"
      BY <3>1 DEF LinesAreExact
    <3> QED BY <2>2, <3>2 DEF Resolve, TypeOK
  <2>3. CASE Forget
    BY <2>3 DEF Forget, TypeOK
  <2> QED BY <2>1, <2>2, <2>3 DEF Next
<1> QED BY <1>1, LinesAlwaysExact, PTL DEF Spec, OutcomeIsFinal
===============================================================================
