-------------------------- MODULE SocketOrder_proofs --------------------------
(***************************************************************************)
(* The order of UDP's answers, and from it the place of UDP's forwards,    *)
(* for every value of the constants.                                       *)
(*                                                                         *)
(* InOrder says that some function numbers the answers due along a queue.  *)
(* Each step of sock and UDP moves the messages under way in one of seven  *)
(* ways; for each of them a lemma gives the numbering after the step.      *)
(*                                                                         *)
(* The numbering also gives the types of the requests that wait.  So there *)
(* is at most one FORWARD on its way, and none while the application has   *)
(* another wish: the forwards follow the sockets step by step.             *)
(***************************************************************************)
EXTENDS SocketStack_proofs

-----------------------------------------------------------------------------
(***************************************************************************)
(* Positions among the messages on their way up, then on their way down.   *)
(***************************************************************************)

At(up, down, i) == IF i <= Len(up) THEN up[i] ELSE down[i - Len(up)]

IsDue(up, down, i) ==
    /\ i \in 1..(Len(up) + Len(down))
    /\ IF i <= Len(up) THEN up[i].type = "STATUS" ELSE down[i - Len(up)].type # "STATUS"

LEMMA DueIsDue ==
    ASSUME NEW S, NEW up \in Seq(S), NEW down \in Seq(S)
    PROVE  /\ Due(up, down) = {i \in 1..(Len(up) + Len(down)) : IsDue(up, down, i)}
           /\ \A i \in 1..(Len(up) + Len(down)) : (up \o down)[i] = At(up, down, i)
<1>1. /\ Len(up) \in Nat /\ Len(down) \in Nat
      /\ DOMAIN (up \o down) = 1..(Len(up) + Len(down))
  OBVIOUS
<1>2. \A i \in 1..(Len(up) + Len(down)) : (up \o down)[i] = At(up, down, i)
  BY DEF At
<1> QED
  BY <1>1, <1>2 DEF Due, IsDue, At

\* UDP refuses nothing but a CLOSE.
Fits(type, m) == IF m.type = "STATUS" THEN m.error # "EOK" => type = "CLOSE" ELSE m.type = type

\* f numbers the answers due along q.
Numbers(f, q, up, down) ==
    /\ f \in [1..Len(q) -> Nat]
    /\ \A i \in 1..Len(q) : IsDue(up, down, f[i])
    /\ \A i, j \in 1..Len(q) : i < j => f[i] < f[j]
    /\ \A d \in Nat : IsDue(up, down, d) => \E i \in 1..Len(q) : f[i] = d
    /\ \A i \in 1..Len(q) : At(up, down, f[i]).conn \in {q[i].conn, Unbound}
    /\ \A i \in 1..Len(q) : Fits(q[i].type, At(up, down, f[i]))

LEMMA NumbersInOrder ==
    ASSUME NEW S, NEW up \in Seq(S), NEW down \in Seq(S), NEW q, \E f : Numbers(f, q, up, down)
    PROVE  InOrder(q, up, down)
<1> DEFINE N == Len(up) + Len(down)
<1>1. /\ N \in Nat
      /\ Due(up, down) = {i \in 1..N : IsDue(up, down, i)}
      /\ \A i \in 1..N : (up \o down)[i] = At(up, down, i)
  BY DueIsDue
<1>2. \A i : IsDue(up, down, i) => i \in 1..N
  BY DEF IsDue
<1> HIDE DEF N
<1>3. ASSUME NEW f, Numbers(f, q, up, down)
      PROVE  /\ f \in [1..Len(q) -> Due(up, down)]
             /\ \A d \in Due(up, down) : \E i \in 1..Len(q) : f[i] = d
             /\ \A i \in 1..Len(q) : (up \o down)[f[i]].conn \in {q[i].conn, Unbound}
  <2>1. \A i \in 1..Len(q) : f[i] \in 1..N /\ IsDue(up, down, f[i])
    BY <1>2, <1>3 DEF Numbers
  <2>2. f \in [1..Len(q) -> Due(up, down)]
    BY <1>1, <1>3, <2>1 DEF Numbers
  <2>3. \A d \in Due(up, down) : \E i \in 1..Len(q) : f[i] = d
    <3>1. \A d \in Due(up, down) : d \in Nat /\ IsDue(up, down, d)
      BY <1>1
    <3> QED
      BY <1>3, <3>1 DEF Numbers
  <2>4. \A i \in 1..Len(q) : (up \o down)[f[i]].conn \in {q[i].conn, Unbound}
    <3>1. \A i \in 1..Len(q) : (up \o down)[f[i]] = At(up, down, f[i])
      BY <1>1, <2>1
    <3> QED
      BY <1>3, <3>1 DEF Numbers
  <2> QED
    BY <2>2, <2>3, <2>4
<1> QED
  BY <1>3 DEF InOrder, Numbers

\* What becomes of a request or an answer: the answer may take its place.
Carries(m, m2) ==
    \/ m2 = m
    \/ /\ m.type # "STATUS" /\ m2.type = "STATUS" /\ m2.conn = m.conn
       /\ m2.error # "EOK" => m.type = "CLOSE"

\* h says where a step moves each of the answers due.
Moves(h, up, down, up2, down2) ==
    /\ h \in [Nat -> Nat]
    /\ \A d \in Nat : IsDue(up, down, d) =>
          /\ IsDue(up2, down2, h[d])
          /\ Carries(At(up, down, d), At(up2, down2, h[d]))
    /\ \A d, e \in Nat : IsDue(up, down, d) /\ IsDue(up, down, e) /\ d < e => h[d] < h[e]
    /\ \A e \in Nat : IsDue(up2, down2, e) => \E d \in Nat : IsDue(up, down, d) /\ h[d] = e

LEMMA Renumbered ==
    ASSUME NEW q, NEW up, NEW down, NEW up2, NEW down2, NEW h,
           Moves(h, up, down, up2, down2),
           \E f : Numbers(f, q, up, down)
    PROVE  \E f : Numbers(f, q, up2, down2)
<1>1. PICK f : Numbers(f, q, up, down)
  OBVIOUS
<1> DEFINE g == [i \in 1..Len(q) |-> h[f[i]]]
<1>2. \A i \in 1..Len(q) : f[i] \in Nat /\ IsDue(up, down, f[i])
  BY <1>1 DEF Numbers
<1>3. g \in [1..Len(q) -> Nat]
  BY <1>2 DEF Moves
<1>4. \A i \in 1..Len(q) : IsDue(up2, down2, g[i])
  BY <1>2 DEF Moves
<1>5. \A i, j \in 1..Len(q) : i < j => g[i] < g[j]
  BY <1>1, <1>2 DEF Numbers, Moves
<1>6. ASSUME NEW e \in Nat, IsDue(up2, down2, e)
      PROVE  \E i \in 1..Len(q) : g[i] = e
  <2>1. PICK d \in Nat : IsDue(up, down, d) /\ h[d] = e
    BY <1>6 DEF Moves
  <2>2. PICK i \in 1..Len(q) : f[i] = d
    BY <1>1, <2>1 DEF Numbers
  <2> QED
    BY <2>1, <2>2
<1>7. \A i \in 1..Len(q) : Carries(At(up, down, f[i]), At(up2, down2, g[i]))
  BY <1>2 DEF Moves
<1>8. \A i \in 1..Len(q) : At(up2, down2, g[i]).conn \in {q[i].conn, Unbound}
  BY <1>1, <1>7 DEF Numbers, Carries
<1>9. \A i \in 1..Len(q) : Fits(q[i].type, At(up2, down2, g[i]))
  <2> SUFFICES ASSUME NEW i \in 1..Len(q) PROVE Fits(q[i].type, At(up2, down2, g[i]))
    OBVIOUS
  <2>1. Fits(q[i].type, At(up, down, f[i]))
    BY <1>1 DEF Numbers
  <2> QED
    BY <1>7, <2>1 DEF Carries, Fits
<1> HIDE DEF g
<1> QED
  BY <1>3, <1>4, <1>5, <1>6, <1>8, <1>9 DEF Numbers

-----------------------------------------------------------------------------
(***************************************************************************)
(* The moves.                                                              *)
(***************************************************************************)

\* Sock sends a STATUS down.
LEMMA StatusDown ==
    ASSUME NEW S, NEW up \in Seq(S), NEW down \in Seq(S), NEW q, NEW m \in S,
           m.type = "STATUS", \E f : Numbers(f, q, up, down)
    PROVE  \E f : Numbers(f, q, up, Append(down, m))
<1> DEFINE h == [i \in Nat |-> i]
<1>1. \A i \in Nat : IsDue(up, Append(down, m), i) <=> IsDue(up, down, i)
  BY DEF IsDue
<1>2. \A i \in Nat : IsDue(up, down, i) => At(up, Append(down, m), i) = At(up, down, i)
  BY DEF IsDue, At
<1>3. h \in [Nat -> Nat] /\ \A i \in Nat : h[i] = i
  OBVIOUS
<1> HIDE DEF h
<1>21. \A d \in Nat : IsDue(up, down, d) =>
           /\ IsDue(up, Append(down, m), h[d])
           /\ Carries(At(up, down, d), At(up, Append(down, m), h[d]))
  BY <1>1, <1>2, <1>3 DEF Carries
<1>22. \A d, e \in Nat : IsDue(up, down, d) /\ IsDue(up, down, e) /\ d < e => h[d] < h[e]
  BY <1>3
<1>23. \A e \in Nat : IsDue(up, Append(down, m), e) =>
           \E d \in Nat : IsDue(up, down, d) /\ h[d] = e
  BY <1>1, <1>3
<1>24. Moves(h, up, down, up, Append(down, m))
  BY <1>3, <1>21, <1>22, <1>23 DEF Moves
<1> QED
  BY <1>24, Renumbered

\* Sock takes a WRITE.
LEMMA WriteTaken ==
    ASSUME NEW S, NEW up \in Seq(S), NEW down \in Seq(S), NEW q,
           up # <<>>, Head(up).type # "STATUS", \E f : Numbers(f, q, up, down)
    PROVE  \E f : Numbers(f, q, Tail(up), down)
<1> DEFINE h == [i \in Nat |-> IF i = 0 THEN 0 ELSE i - 1]
<1>1. \A i \in Nat : IsDue(Tail(up), down, i) <=> IsDue(up, down, i + 1) /\ i > 0
  BY DEF IsDue
<1>2. \A i \in Nat : i > 0 => At(Tail(up), down, i) = At(up, down, i + 1)
  BY DEF At
<1>3. \A i \in Nat : IsDue(up, down, i) => i > 1
  BY DEF IsDue
<1>4. h \in [Nat -> Nat] /\ \A i \in Nat : h[i] = IF i = 0 THEN 0 ELSE i - 1
  OBVIOUS
<1> HIDE DEF h
<1>5. \A d \in Nat : IsDue(up, down, d) =>
          IsDue(Tail(up), down, h[d]) /\ At(Tail(up), down, h[d]) = At(up, down, d)
  <2> SUFFICES ASSUME NEW d \in Nat, IsDue(up, down, d)
               PROVE  IsDue(Tail(up), down, h[d]) /\ At(Tail(up), down, h[d]) = At(up, down, d)
    OBVIOUS
  <2>1. d > 1 /\ h[d] = d - 1
    BY <1>3, <1>4
  <2>2. h[d] \in Nat /\ h[d] > 0 /\ h[d] + 1 = d
    BY <2>1
  <2> QED
    BY <1>1, <1>2, <2>2
<1>7. ASSUME NEW e \in Nat, IsDue(Tail(up), down, e)
      PROVE  \E d \in Nat : IsDue(up, down, d) /\ h[d] = e
  <2>1. IsDue(up, down, e + 1) /\ e + 1 \in Nat /\ h[e + 1] = e
    BY <1>1, <1>4, <1>7
  <2> QED
    BY <2>1
<1>21. \A d \in Nat : IsDue(up, down, d) =>
           /\ IsDue(Tail(up), down, h[d])
           /\ Carries(At(up, down, d), At(Tail(up), down, h[d]))
  BY <1>5 DEF Carries
<1>22. \A d, e \in Nat : IsDue(up, down, d) /\ IsDue(up, down, e) /\ d < e => h[d] < h[e]
  BY <1>3, <1>4
<1>23. \A e \in Nat : IsDue(Tail(up), down, e) =>
           \E d \in Nat : IsDue(up, down, d) /\ h[d] = e
  BY <1>7
<1>24. Moves(h, up, down, Tail(up), down)
  BY <1>4, <1>21, <1>22, <1>23 DEF Moves
<1> QED
  BY <1>24, Renumbered

\* UDP sends a WRITE up.
LEMMA WriteUp ==
    ASSUME NEW S, NEW up \in Seq(S), NEW down \in Seq(S), NEW q, NEW m \in S,
           m.type # "STATUS", \E f : Numbers(f, q, up, down)
    PROVE  \E f : Numbers(f, q, Append(up, m), down)
<1> DEFINE h == [i \in Nat |-> IF i <= Len(up) THEN i ELSE i + 1]
<1>1. \A i \in Nat : IsDue(up, down, i) =>
          IsDue(Append(up, m), down, h[i]) /\ At(Append(up, m), down, h[i]) = At(up, down, i)
  BY DEF IsDue, At
<1>2. h \in [Nat -> Nat] /\ \A i \in Nat : h[i] = IF i <= Len(up) THEN i ELSE i + 1
  OBVIOUS
<1>3. ASSUME NEW e \in Nat, IsDue(Append(up, m), down, e)
      PROVE  \E d \in Nat : IsDue(up, down, d) /\ h[d] = e
  <2>1. CASE e <= Len(up)
    <3>1. IsDue(up, down, e) /\ h[e] = e
      BY <1>3, <2>1 DEF IsDue
    <3> QED
      BY <3>1
  <2>2. CASE e > Len(up) + 1
    <3>1. IsDue(up, down, e - 1) /\ h[e - 1] = e /\ e - 1 \in Nat
      BY <1>3, <2>2 DEF IsDue
    <3> QED
      BY <3>1
  <2>3. e # Len(up) + 1
    BY <1>3 DEF IsDue
  <2> QED
    BY <2>1, <2>2, <2>3
<1> HIDE DEF h
<1>21. \A d \in Nat : IsDue(up, down, d) =>
           /\ IsDue(Append(up, m), down, h[d])
           /\ Carries(At(up, down, d), At(Append(up, m), down, h[d]))
  BY <1>1 DEF Carries
<1>22. \A d, e \in Nat : IsDue(up, down, d) /\ IsDue(up, down, e) /\ d < e => h[d] < h[e]
  BY <1>2
<1>23. \A e \in Nat : IsDue(Append(up, m), down, e) =>
           \E d \in Nat : IsDue(up, down, d) /\ h[d] = e
  BY <1>3
<1>24. Moves(h, up, down, Append(up, m), down)
  BY <1>2, <1>21, <1>22, <1>23 DEF Moves
<1> QED
  BY <1>24, Renumbered

\* UDP takes a STATUS.
LEMMA StatusTaken ==
    ASSUME NEW S, NEW up \in Seq(S), NEW down \in Seq(S), NEW q,
           down # <<>>, Head(down).type = "STATUS", \E f : Numbers(f, q, up, down)
    PROVE  \E f : Numbers(f, q, up, Tail(down))
<1> DEFINE h == [i \in Nat |-> IF i <= Len(up) THEN i ELSE i - 1]
<1>1. \A i \in Nat : IsDue(up, down, i) => i # Len(up) + 1
  BY DEF IsDue
<1>2. \A i \in Nat : IsDue(up, down, i) =>
          IsDue(up, Tail(down), h[i]) /\ At(up, Tail(down), h[i]) = At(up, down, i)
  BY <1>1 DEF IsDue, At
<1>3. h \in [Nat -> Nat] /\ \A i \in Nat : h[i] = IF i <= Len(up) THEN i ELSE i - 1
  OBVIOUS
<1>4. ASSUME NEW e \in Nat, IsDue(up, Tail(down), e)
      PROVE  \E d \in Nat : IsDue(up, down, d) /\ h[d] = e
  <2>1. CASE e <= Len(up)
    <3>1. IsDue(up, down, e) /\ h[e] = e
      BY <1>4, <2>1 DEF IsDue
    <3> QED
      BY <3>1
  <2>2. CASE e > Len(up)
    <3>1. IsDue(up, down, e + 1) /\ h[e + 1] = e /\ e + 1 \in Nat
      BY <1>4, <2>2 DEF IsDue
    <3> QED
      BY <3>1
  <2> QED
    BY <2>1, <2>2
<1> HIDE DEF h
<1>21. \A d \in Nat : IsDue(up, down, d) =>
           /\ IsDue(up, Tail(down), h[d])
           /\ Carries(At(up, down, d), At(up, Tail(down), h[d]))
  BY <1>2 DEF Carries
<1>22. \A d, e \in Nat : IsDue(up, down, d) /\ IsDue(up, down, e) /\ d < e => h[d] < h[e]
  <2> SUFFICES ASSUME NEW d \in Nat, NEW e \in Nat,
                      IsDue(up, down, d), IsDue(up, down, e), d < e
               PROVE  h[d] < h[e]
    OBVIOUS
  <2>1. d # Len(up) + 1 /\ e # Len(up) + 1 /\ Len(up) \in Nat
    BY <1>1
  <2>2. /\ h[d] = IF d <= Len(up) THEN d ELSE d - 1
        /\ h[e] = IF e <= Len(up) THEN e ELSE e - 1
    BY <1>3
  <2> HIDE DEF h
  <2> QED
    BY <2>1, <2>2
<1>23. \A e \in Nat : IsDue(up, Tail(down), e) =>
           \E d \in Nat : IsDue(up, down, d) /\ h[d] = e
  BY <1>4
<1>24. Moves(h, up, down, up, Tail(down))
  BY <1>3, <1>21, <1>22, <1>23 DEF Moves
<1> QED
  BY <1>24, Renumbered

\* UDP answers a request.
LEMMA RequestDone ==
    ASSUME NEW S, NEW up \in Seq(S), NEW down \in Seq(S), NEW q, NEW m \in S,
           down # <<>>, Head(down).type # "STATUS",
           m.type = "STATUS", m.conn = Head(down).conn, m.error # "EOK" => Head(down).type = "CLOSE",
           \E f : Numbers(f, q, up, down)
    PROVE  \E f : Numbers(f, q, Append(up, m), Tail(down))
<1> DEFINE h == [i \in Nat |-> i]
<1>1. \A i \in Nat : IsDue(Append(up, m), Tail(down), i) <=> IsDue(up, down, i)
  BY DEF IsDue
<1>2. \A i \in Nat : IsDue(up, down, i) =>
          Carries(At(up, down, i), At(Append(up, m), Tail(down), i))
  BY DEF IsDue, At, Carries
<1>3. h \in [Nat -> Nat] /\ \A i \in Nat : h[i] = i
  OBVIOUS
<1> HIDE DEF h
<1>21. \A d \in Nat : IsDue(up, down, d) =>
           /\ IsDue(Append(up, m), Tail(down), h[d])
           /\ Carries(At(up, down, d), At(Append(up, m), Tail(down), h[d]))
  BY <1>1, <1>2, <1>3
<1>22. \A d, e \in Nat : IsDue(up, down, d) /\ IsDue(up, down, e) /\ d < e => h[d] < h[e]
  BY <1>3
<1>23. \A e \in Nat : IsDue(Append(up, m), Tail(down), e) =>
           \E d \in Nat : IsDue(up, down, d) /\ h[d] = e
  BY <1>1, <1>3
<1>24. Moves(h, up, down, Append(up, m), Tail(down))
  BY <1>3, <1>21, <1>22, <1>23 DEF Moves
<1> QED
  BY <1>24, Renumbered

\* Sock sends a request down and puts it in the queue.
LEMMA RequestDown ==
    ASSUME NEW S, NEW up \in Seq(S), NEW down \in Seq(S), NEW m \in S, m.type # "STATUS",
           NEW R, NEW q \in Seq(R), NEW r \in R, r.conn = m.conn, r.type = m.type,
           \E f : Numbers(f, q, up, down)
    PROVE  \E f : Numbers(f, Append(q, r), up, Append(down, m))
<1>1. PICK f : Numbers(f, q, up, down)
  OBVIOUS
<1> DEFINE n == Len(q) + 1
           last == Len(up) + Len(down) + 1
           g == [i \in 1..n |-> IF i = n THEN last ELSE f[i]]
<1>2. /\ n \in Nat /\ last \in Nat /\ Len(Append(q, r)) = n /\ n > 0
      /\ Append(q, r)[n] = r /\ \A i \in 1..Len(q) : Append(q, r)[i] = q[i]
  OBVIOUS
<1>3. \A i \in Nat : IsDue(up, Append(down, m), i) <=> IsDue(up, down, i) \/ i = last
  BY DEF IsDue
<1>4. /\ \A i \in Nat : IsDue(up, down, i) => At(up, Append(down, m), i) = At(up, down, i)
      /\ At(up, Append(down, m), last) = m
  BY DEF IsDue, At
<1>5. \A i \in Nat : IsDue(up, down, i) => i < last
  BY DEF IsDue
<1>6. \A i \in 1..Len(q) : g[i] = f[i] /\ f[i] \in Nat /\ IsDue(up, down, f[i])
  <2>1. \A i \in 1..Len(q) : f[i] \in Nat /\ IsDue(up, down, f[i])
    BY <1>1 DEF Numbers
  <2>2. \A i \in 1..Len(q) : i \in 1..n /\ i # n
    BY <1>2
  <2> QED
    BY <2>1, <2>2
<1>7. g[n] = last /\ \A i \in 1..n : i = n \/ i \in 1..Len(q)
  OBVIOUS
<1>8. g \in [1..n -> Nat]
  <2>1. \A i \in 1..n : g[i] \in Nat
    BY <1>2, <1>6, <1>7
  <2> QED
    BY <2>1
<1> HIDE DEF n, last, g
<1>9. \A i \in 1..n : IsDue(up, Append(down, m), g[i])
  BY <1>2, <1>3, <1>6, <1>7
<1>10. \A i, j \in 1..n : i < j => g[i] < g[j]
  <2> SUFFICES ASSUME NEW i \in 1..n, NEW j \in 1..n, i < j PROVE g[i] < g[j]
    OBVIOUS
  <2>1. i \in 1..Len(q)
    BY <1>2, <1>7
  <2>2. CASE j = n
    BY <1>5, <1>6, <1>7, <2>1, <2>2
  <2>3. CASE j \in 1..Len(q)
    BY <1>1, <1>6, <2>1, <2>3 DEF Numbers
  <2> QED
    BY <1>7, <2>2, <2>3
<1>11. ASSUME NEW d \in Nat, IsDue(up, Append(down, m), d)
       PROVE  \E i \in 1..n : g[i] = d
  <2>1. CASE d = last
    BY <1>2, <1>7, <2>1
  <2>2. CASE IsDue(up, down, d)
    <3>1. PICK i \in 1..Len(q) : f[i] = d
      BY <1>1, <2>2 DEF Numbers
    <3> QED
      BY <1>2, <1>6, <3>1 DEF n
  <2> QED
    BY <1>3, <1>11, <2>1, <2>2
<1>12. \A i \in 1..n : At(up, Append(down, m), g[i]).conn \in {Append(q, r)[i].conn, Unbound}
  <2> SUFFICES ASSUME NEW i \in 1..n
               PROVE  At(up, Append(down, m), g[i]).conn \in {Append(q, r)[i].conn, Unbound}
    OBVIOUS
  <2>1. CASE i = n
    BY <1>2, <1>4, <1>7, <2>1
  <2>2. CASE i \in 1..Len(q)
    BY <1>1, <1>2, <1>4, <1>6, <2>2 DEF Numbers
  <2> QED
    BY <1>7, <2>1, <2>2
<1>13. \A i \in 1..n : Fits(Append(q, r)[i].type, At(up, Append(down, m), g[i]))
  <2> SUFFICES ASSUME NEW i \in 1..n
               PROVE  Fits(Append(q, r)[i].type, At(up, Append(down, m), g[i]))
    OBVIOUS
  <2>1. CASE i = n
    BY <1>2, <1>4, <1>7, <2>1 DEF Fits
  <2>2. CASE i \in 1..Len(q)
    BY <1>1, <1>2, <1>4, <1>6, <2>2 DEF Numbers
  <2> QED
    BY <1>7, <2>1, <2>2
<1> QED
  BY <1>2, <1>8, <1>9, <1>10, <1>11, <1>12, <1>13 DEF Numbers

\* Sock takes a STATUS for the answer to the head of the queue.
LEMMA AnswerTaken ==
    ASSUME NEW S, NEW up \in Seq(S), NEW down \in Seq(S), up # <<>>, Head(up).type = "STATUS",
           NEW R, NEW q \in Seq(R), q # <<>>, \E f : Numbers(f, q, up, down)
    PROVE  /\ \E f : Numbers(f, Tail(q), Tail(up), down)
           /\ Fits(Head(q).type, Head(up))
<1>1. PICK f : Numbers(f, q, up, down)
  OBVIOUS
<1>2. /\ Len(q) \in Nat /\ Len(q) > 0 /\ Len(Tail(q)) = Len(q) - 1
      /\ \A i \in 1..(Len(q) - 1) : Tail(q)[i] = q[i + 1]
      /\ Head(q) = q[1] /\ Head(up) = up[1]
  OBVIOUS
<1>3. IsDue(up, down, 1)
  BY DEF IsDue
<1>4. f[1] = 1
  <2>1. PICK i \in 1..Len(q) : f[i] = 1
    BY <1>1, <1>3 DEF Numbers
  <2>2. ~ (1 < i)
    <3>1. 1 \in 1..Len(q)
      BY <1>2
    <3>4. f[1] \in Nat /\ IsDue(up, down, f[1])
      BY <1>1, <3>1 DEF Numbers
    <3>2. f[1] > 0
      BY <3>4 DEF IsDue
    <3> QED
      BY <1>1, <1>2, <2>1, <3>1, <3>4, <3>2 DEF Numbers
  <2> QED
    BY <2>1, <2>2
<1> DEFINE g == [i \in 1..(Len(q) - 1) |-> f[i + 1] - 1]
<1>5. \A i \in 1..(Len(q) - 1) :
         /\ i + 1 \in 1..Len(q) /\ f[i + 1] \in Nat /\ f[i + 1] > 1
         /\ IsDue(up, down, f[i + 1])
  <2> SUFFICES ASSUME NEW i \in 1..(Len(q) - 1)
               PROVE  /\ i + 1 \in 1..Len(q) /\ f[i + 1] \in Nat /\ f[i + 1] > 1
                      /\ IsDue(up, down, f[i + 1])
    OBVIOUS
  <2>1. i + 1 \in 1..Len(q) /\ 1 \in 1..Len(q) /\ 1 < i + 1
    BY <1>2
  <2> QED
    BY <1>1, <1>4, <2>1 DEF Numbers
<1>6. \A i \in Nat : IsDue(Tail(up), down, i) <=> IsDue(up, down, i + 1) /\ i > 0
  BY DEF IsDue
<1>7. \A i \in Nat : i > 0 => At(Tail(up), down, i) = At(up, down, i + 1)
  BY DEF At
<1>8. \A i \in 1..(Len(q) - 1) : g[i] \in Nat /\ g[i] > 0 /\ g[i] + 1 = f[i + 1]
  BY <1>5
<1>9. g \in [1..(Len(q) - 1) -> Nat]
  BY <1>8
<1> HIDE DEF g
<1>10. \A i \in 1..(Len(q) - 1) : IsDue(Tail(up), down, g[i])
  BY <1>5, <1>6, <1>8
<1>11. \A i, j \in 1..(Len(q) - 1) : i < j => g[i] < g[j]
  <2> SUFFICES ASSUME NEW i \in 1..(Len(q) - 1), NEW j \in 1..(Len(q) - 1), i < j
               PROVE  g[i] < g[j]
    OBVIOUS
  <2>1. f[i + 1] < f[j + 1]
    BY <1>1, <1>5 DEF Numbers
  <2> QED
    BY <1>8, <2>1
<1>12. ASSUME NEW d \in Nat, IsDue(Tail(up), down, d)
       PROVE  \E i \in 1..(Len(q) - 1) : g[i] = d
  <2>1. IsDue(up, down, d + 1) /\ d > 0
    BY <1>6, <1>12
  <2>2. PICK k \in 1..Len(q) : f[k] = d + 1
    BY <1>1, <2>1 DEF Numbers
  <2>3. k # 1
    BY <1>4, <2>1, <2>2
  <2>4. k - 1 \in 1..(Len(q) - 1) /\ (k - 1) + 1 = k
    BY <1>2, <2>3
  <2>5. g[k - 1] + 1 = f[k] /\ g[k - 1] \in Nat
    BY <1>8, <2>4
  <2>6. g[k - 1] = d
    BY <2>2, <2>5
  <2> QED
    BY <2>4, <2>6
<1>13. \A i \in 1..(Len(q) - 1) : At(Tail(up), down, g[i]).conn \in {Tail(q)[i].conn, Unbound}
  <2> SUFFICES ASSUME NEW i \in 1..(Len(q) - 1)
               PROVE  At(Tail(up), down, g[i]).conn \in {Tail(q)[i].conn, Unbound}
    OBVIOUS
  <2>1. At(Tail(up), down, g[i]) = At(up, down, f[i + 1])
    BY <1>7, <1>8
  <2>2. At(up, down, f[i + 1]).conn \in {q[i + 1].conn, Unbound}
    BY <1>1, <1>5 DEF Numbers
  <2> QED
    BY <1>2, <2>1, <2>2
<1>14. \A i \in 1..(Len(q) - 1) : Fits(Tail(q)[i].type, At(Tail(up), down, g[i]))
  <2> SUFFICES ASSUME NEW i \in 1..(Len(q) - 1)
               PROVE  Fits(Tail(q)[i].type, At(Tail(up), down, g[i]))
    OBVIOUS
  <2>1. At(Tail(up), down, g[i]) = At(up, down, f[i + 1])
    BY <1>7, <1>8
  <2>2. Fits(q[i + 1].type, At(up, down, f[i + 1]))
    BY <1>1, <1>5 DEF Numbers
  <2> QED
    BY <1>2, <2>1, <2>2
<1>15. Numbers(g, Tail(q), Tail(up), down)
  BY <1>2, <1>9, <1>10, <1>11, <1>12, <1>13, <1>14 DEF Numbers
<1>16. Fits(Head(q).type, Head(up))
  <2>1. At(up, down, f[1]) = up[1]
    BY <1>4 DEF At
  <2>2. Fits(q[1].type, At(up, down, f[1]))
    BY <1>1, <1>2 DEF Numbers
  <2> QED
    BY <1>2, <2>1, <2>2
<1> QED
  BY <1>15, <1>16

-----------------------------------------------------------------------------
(***************************************************************************)
(* The steps.                                                              *)
(***************************************************************************)

Numbered == \E f : Numbers(f, udpq, fromUdp, toUdp)

OrderKept == \E f : Numbers(f, udpq', fromUdp', toUdp')

LEMMA OrderedPipes ==
    ASSUME TypeOK
    PROVE  /\ fromUdp \in Seq(Srrs) /\ toUdp \in Seq(Srrs) /\ udpq \in Seq(RequestRecord)
           /\ Numbered => UdpAnswersInOrder
<1>1. fromUdp \in Seq(Srrs) /\ toUdp \in Seq(Srrs) /\ udpq \in Seq(RequestRecord)
  BY DEF TypeOK, PipesOK, QueuesOK
<1> QED
  BY <1>1, NumbersInOrder DEF UdpAnswersInOrder, Numbered

LEMMA OrderedByRequest ==
    ASSUME TypeOK, Numbered, fromUdp' = fromUdp,
           NEW type \in RequestTypes, NEW fd \in Fd, NEW c \in Connection, NEW n \in Nat,
           SendUDPRequest(type, fd, c, n)
    PROVE  OrderKept
<1> DEFINE m == Srr(type, c, n, "EOK")
           r == [type |-> type, conn |-> c, sock |-> fd]
<1>1. m \in Srrs /\ m.type # "STATUS" /\ r \in RequestRecord /\ r.conn = m.conn
      /\ r.type = m.type
  BY DEF Srr, Srrs, Errors, RequestTypes, RequestRecord
<1>2. toUdp' = Append(toUdp, m) /\ udpq' = Append(udpq, r)
  BY DEF SendUDPRequest, Queued
<1> HIDE DEF m, r
<1>3. \E f : Numbers(f, Append(udpq, r), fromUdp, Append(toUdp, m))
  BY <1>1, OrderedPipes, RequestDown DEF Numbered
<1> QED
  BY <1>2, <1>3 DEF OrderKept

LEMMA OrderedByStatus ==
    ASSUME TypeOK, NEW up \in Seq(Srrs), \E f : Numbers(f, udpq, up, toUdp),
           fromUdp' = up, udpq' = udpq,
           NEW m \in Srrs, NEW n \in Nat, NEW err \in Errors, SendStatus(m, n, err)
    PROVE  OrderKept
<1> DEFINE s == Srr("STATUS", m.conn, n, err)
<1>1. s \in Srrs /\ s.type = "STATUS"
  BY MessageFields DEF Srr, Srrs
<1>2. toUdp' = toUdp \/ toUdp' = Append(toUdp, s)
  BY DEF SendStatus
<1> HIDE DEF s
<1>3. \E f : Numbers(f, udpq, up, Append(toUdp, s))
  BY <1>1, OrderedPipes, StatusDown
<1> QED
  BY <1>2, <1>3 DEF OrderKept

LEMMA OrderedByApp ==
    ASSUME TypeOK, Numbered, ProcessAppRequest
    PROVE  OrderKept
<1> DEFINE r == Head(fromApp)
<1>1. fromUdp' = fromUdp
  BY DEF ProcessAppRequest, AppSocket, AppRefused, AppNoPort, AppBind, AppListen, AppAccept,
         AppConnect, AppRead, AppWrite, AppClose, AppDefault, AppRequest
<1>2. CASE UNCHANGED <<toUdp, udpq>>
  BY <1>1, <1>2 DEF Numbered, OrderKept
<1>3. ASSUME NEW type \in RequestTypes, NEW fd \in Fd, NEW c \in Connection, NEW n \in Nat,
             SendUDPRequest(type, fd, c, n)
      PROVE  OrderKept
  BY <1>1, <1>3, OrderedByRequest
<1>4. \A type \in {"mBIND", "mCONNECT", "mWRITE", "mCLOSE"} : AppRequest(type) =>
         r.fd \in Fd /\ socks[r.fd].conn \in Connection /\ r.conn \in Connection /\ r.bytes \in Nat
  BY RequestTaken, SocketChanged DEF TypeOK
<1> HIDE DEF r
<1>5. CASE AppBind
  <2>1. PICK p \in Port :
            \/ NothingSent
            \/ SendUDPRequest("FORWARD", r.fd, [socks[r.fd].conn EXCEPT !.src = p], 0)
    BY <1>5 DEF AppBind, r
  <2>2. r.fd \in Fd /\ [socks[r.fd].conn EXCEPT !.src = p] \in Connection
    <3>1. r.fd \in Fd /\ socks[r.fd].conn \in Connection
      BY <1>4, <1>5 DEF AppBind
    <3> QED
      BY <3>1 DEF Connection
  <2> QED
    BY <1>2, <1>3, <2>1, <2>2 DEF NothingSent, RequestTypes
<1>6. CASE AppConnect
  <2>1. PICK p \in Port :
            LET c == [socks[r.fd].conn EXCEPT !.src = p, !.dest = r.conn.dest]
            IN  \/ SendUDPRequest("FORWARD", r.fd, c, 0)
                \/ SendTCPRequest("CONNECT", r.fd, c, 0)
    BY <1>6 DEF AppConnect, r
  <2>2. r.fd \in Fd /\ [socks[r.fd].conn EXCEPT !.src = p, !.dest = r.conn.dest] \in Connection
    <3>1. r.fd \in Fd /\ socks[r.fd].conn \in Connection /\ r.conn \in Connection
      BY <1>4, <1>6 DEF AppConnect
    <3> QED
      BY <3>1 DEF Connection
  <2> QED
    BY <1>2, <1>3, <2>1, <2>2 DEF SendTCPRequest, RequestTypes
<1>7. CASE AppWrite \/ AppClose
  <2>1. r.fd \in Fd /\ socks[r.fd].conn \in Connection /\ r.bytes \in Nat /\ 0 \in Nat
    BY <1>4, <1>7 DEF AppWrite, AppClose
  <2>2. \E type \in RequestTypes, n \in Nat :
            \/ SendUDPRequest(type, r.fd, socks[r.fd].conn, n)
            \/ SendTCPRequest(type, r.fd, socks[r.fd].conn, n)
    BY <1>7, <2>1 DEF AppWrite, AppClose, SendRequest, RequestTypes, r
  <2> QED
    BY <1>2, <1>3, <2>1, <2>2 DEF SendTCPRequest
<1>8. CASE AppSocket \/ AppRefused \/ AppNoPort \/ AppListen \/ AppAccept \/ AppRead \/ AppDefault
  BY <1>2, <1>8 DEF AppSocket, AppRefused, AppNoPort, AppListen, AppAccept, AppRead, AppDefault,
                    NothingSent, SendTCPRequest
<1> QED
  BY <1>5, <1>6, <1>7, <1>8 DEF ProcessAppRequest

LEMMA OrderedByMessage ==
    ASSUME TypeOK, Numbered, ProcessTCPMessage \/ ProcessUDPMessage
    PROVE  OrderKept
<1>1. ASSUME NEW m \in Srrs,
             \/ Unknown(m) \/ Refuse(m)
             \/ \E fd \in Fd : Deliver(fd, m) \/ Accepted(fd, m) \/ Connected(fd, m)
      PROVE  \E n \in Nat, err \in Errors : SendStatus(m, n, err)
  <2>1. m.bytes \in Nat /\ 0 \in Nat
    BY MessageFields
  <2>2. \A fd \in Fd : Taken(fd, m) \in Nat
    BY <2>1, SocketChanged, Constants DEF Taken, Lesser, Room, TypeOK
  <2> QED
    BY <1>1, <2>1, <2>2 DEF Unknown, Refuse, Deliver, Accepted, Connected, Errors
<1>2. CASE HandleTCPWrite
  <2>1. Head(fromTcp) \in Srrs
    BY <1>2 DEF HandleTCPWrite, TypeOK, PipesOK
  <2>2. \E n \in Nat, err \in Errors : SendStatus(Head(fromTcp), n, err)
    BY <1>1, <1>2, <2>1 DEF HandleTCPWrite
  <2> QED
    BY <1>2, <2>1, <2>2, OrderedPipes, OrderedByStatus DEF HandleTCPWrite, Numbered
<1>3. CASE HandleUDPWrite
  <2>1. Head(fromUdp) \in Srrs /\ Tail(fromUdp) \in Seq(Srrs)
    BY <1>3, OrderedPipes DEF HandleUDPWrite
  <2>2. \E n \in Nat, err \in Errors : SendStatus(Head(fromUdp), n, err)
    BY <1>1, <1>3, <2>1 DEF HandleUDPWrite
  <2>3. \E f : Numbers(f, udpq, Tail(fromUdp), toUdp)
    BY <1>3, OrderedPipes, WriteTaken DEF HandleUDPWrite, Numbered
  <2> QED
    BY <1>3, <2>1, <2>2, <2>3, OrderedByStatus DEF HandleUDPWrite
<1>4. CASE HandleTCPStatus
  BY <1>4 DEF HandleTCPStatus, Numbered, OrderKept
<1>5. CASE HandleUDPStatus
  <2>1. \E f : Numbers(f, Tail(udpq), Tail(fromUdp), toUdp)
    BY <1>5, OrderedPipes, AnswerTaken DEF HandleUDPStatus, Numbered
  <2> QED
    BY <1>5, <2>1 DEF HandleUDPStatus, OrderKept
<1> QED
  BY <1>2, <1>3, <1>4, <1>5 DEF ProcessTCPMessage, ProcessUDPMessage

LEMMA OrderedByUdp ==
    ASSUME TypeOK, Numbered, UdpStep, udpq' = udpq
    PROVE  OrderKept
<1> DEFINE req == Head(toUdp)
<1>1. CASE RejectDatagram
  BY <1>1 DEF RejectDatagram, Numbered, OrderKept
<1>2. CASE ForwardDatagram
  <2>1. PICK i \in DOMAIN clist :
            Send([type |-> "WRITE", conn |-> clist[i].conn, bytes |-> 1, error |-> "EOK"])
    BY <1>2 DEF ForwardDatagram
  <2> DEFINE m == [type |-> "WRITE", conn |-> clist[i].conn, bytes |-> 1, error |-> "EOK"]
  <2>2. m \in Srrs /\ m.type # "STATUS"
    <3> DEFINE Entry == [conn : Connection]
    <3>1. clist \in Seq(Entry)
      BY DEF TypeOK, UdpOK
    <3>2. clist[i] \in Entry
      <4> HIDE DEF Entry
      <4> QED
        BY <3>1
    <3>3. clist[i].conn \in Connection
      BY <3>2
    <3> QED
      BY <3>3 DEF Srrs, RequestTypes, Errors
  <2>3. fromUdp' = Append(fromUdp, m) /\ toUdp' = toUdp
    BY <1>2, <2>1 DEF ForwardDatagram, Send
  <2> HIDE DEF m
  <2>4. \E f : Numbers(f, udpq, Append(fromUdp, m), toUdp)
    BY <2>2, OrderedPipes, WriteUp DEF Numbered
  <2> QED
    BY <2>3, <2>4 DEF OrderKept
<1>3. CASE UdpIgnoreStatus
  <2>1. toUdp # <<>> /\ req.type = "STATUS" /\ toUdp' = Tail(toUdp) /\ fromUdp' = fromUdp
    BY <1>3 DEF UdpIgnoreStatus, UdpRequest
  <2>2. \E f : Numbers(f, udpq, fromUdp, Tail(toUdp))
    BY <2>1, OrderedPipes, StatusTaken DEF Numbered
  <2> QED
    BY <2>1, <2>2 DEF OrderKept
<1>4. CASE UdpWrite \/ UdpForward \/ UdpClose
  <2>1. toUdp # <<>> /\ req.type # "STATUS" /\ toUdp' = Tail(toUdp) /\ req \in Srrs
    BY <1>4, OrderedPipes DEF UdpWrite, UdpForward, UdpClose, UdpRequest
  <2>2. PICK n \in Nat, err \in Errors :
            Send(UdpStatus(req, n, err)) /\ (err # "EOK" => req.type = "CLOSE")
    <3>1. req.bytes \in Nat /\ 0 \in Nat
      BY <2>1, MessageFields
    <3> QED
      BY <1>4, <3>1 DEF UdpWrite, UdpForward, UdpClose, UdpRequest, Errors
  <2> DEFINE m == UdpStatus(req, n, err)
  <2>3. m \in Srrs /\ m.type = "STATUS" /\ m.conn = req.conn
        /\ (m.error # "EOK" => req.type = "CLOSE")
    BY <2>1, <2>2, MessageFields DEF UdpStatus, Srrs
  <2>4. fromUdp' = Append(fromUdp, m)
    BY <2>2 DEF Send
  <2> HIDE DEF m
  <2>5. \E f : Numbers(f, udpq, Append(fromUdp, m), Tail(toUdp))
    BY <2>1, <2>3, OrderedPipes, RequestDone DEF Numbered
  <2> QED
    BY <2>1, <2>4, <2>5 DEF OrderKept
<1> QED
  BY <1>1, <1>2, <1>3, <1>4 DEF UdpStep

LEMMA NumberedFirst == Init => Numbered
<1> SUFFICES ASSUME Init PROVE Numbered
  OBVIOUS
<1>1. udpq = <<>> /\ fromUdp = <<>> /\ toUdp = <<>>
  BY DEF Init, SockInit
<1>2. Numbers(<<>>, <<>>, <<>>, <<>>)
  BY DEF Numbers, IsDue
<1> QED
  BY <1>1, <1>2 DEF Numbered

LEMMA NumberedNext ==
    ASSUME TypeOK, Numbered, [Next]_vars
    PROVE  OrderKept
<1>1. CASE Sock
  BY <1>1, OrderedByApp, OrderedByMessage DEF Sock, SockStep
<1>2. CASE Udp
  BY <1>2, OrderedByUdp DEF Udp, sockVars
<1>3. CASE Call \/ Return \/ Tcp \/ Datagram \/ Segment \/ UNCHANGED vars
  <2>1. UNCHANGED <<udpq, fromUdp, toUdp>>
    BY <1>3 DEF Call, Return, Tcp, Datagram, Segment, vars, sockVars, pipes
  <2> QED
    BY <2>1 DEF Numbered, OrderKept
<1> QED
  BY <1>1, <1>2, <1>3 DEF Next

LEMMA NumberedAlways == Spec => [](TypeOK /\ Numbered)
<1>1. TypeOK /\ Numbered /\ [Next]_vars => Numbered'
  BY NumberedNext DEF Numbered, OrderKept
<1> QED
  BY <1>1, NumberedFirst, TypeCorrect, PTL DEF Spec

\* Every STATUS that sock takes from UDP answers the oldest request it has
\* made and has no answer to, for any number of sockets, ports and datagrams
\* and whatever the application asks.
THEOREM UdpOrder == Spec => []UdpAnswersInOrder
<1>1. TypeOK /\ Numbered => UdpAnswersInOrder
  BY OrderedPipes
<1> QED
  BY <1>1, NumberedAlways, PTL
-----------------------------------------------------------------------------
(***************************************************************************)
(* The forwards of UDP.                                                    *)
(*                                                                         *)
(* UDP takes a request as it finds it, long after sock has gone on, so the *)
(* invariant relates four things: the sockets, the ports in use, the       *)
(* requests on their way, and the forwards.  It rests on the order of the  *)
(* answers: while the application asks for something, no FORWARD is on its *)
(* way, and no answer of UDP closes a socket.                              *)
(***************************************************************************)

Fwd(c) == \E i \in DOMAIN clist : clist[i].conn = c

\* Why a forward is there: for a socket, until a CLOSE on its way comes, or in
\* the place of one that is asked for.
Kept(c) ==
    \/ \E fd \in Fd : socks[fd].conn = c
    \/ Asked("CLOSE", c)
    \/ c.dest = ANY /\ \E d \in Remotes : Asked("FORWARD", [c EXCEPT !.dest = d])

Entries == \A c \in Connection : Fwd(c) =>
    /\ c.src \in Port /\ c.protocol = "udp"
    /\ ports[c.src] # 0
    /\ Kept(c)

OneEntry == \A i, j \in DOMAIN clist : clist[i].conn.src = clist[j].conn.src => i = j

\* A new forward finds at most the one of the same socket before its connect.
ForwardsAsked == \A c \in Connection : Asked("FORWARD", c) =>
    /\ c.src \in Port /\ c.protocol = "udp"
    /\ \E fd \in Fd : socks[fd].conn = c
    /\ \A e \in Connection : Fwd(e) /\ e.src = c.src => e.dest = ANY /\ c.dest # ANY

\* No other socket has come to the port of one that is closed.
ClosesAsked == \A c \in Connection : Asked("CLOSE", c) =>
    /\ c.src \in Port /\ c.protocol = "udp"
    /\ ports[c.src] # 0
    /\ \A fd \in Fd : socks[fd].conn.protocol = "udp" => socks[fd].conn.src # c.src

HasPort(fd) == socks[fd].conn.protocol = "udp" /\ socks[fd].conn.src # ANY

Forwarded == \A fd \in Fd :
    HasPort(fd) => Asked("FORWARD", socks[fd].conn) \/ Fwd(socks[fd].conn)

Forwards == Entries /\ OneEntry /\ ForwardsAsked /\ ClosesAsked /\ Forwarded

HasRecord(fd) == \E i \in DOMAIN udpq : udpq[i].type = "FORWARD" /\ udpq[i].sock = fd

UdpSockets == \A fd \in Fd : socks[fd].conn.protocol = "udp" =>
    /\ socks[fd].status = "BOUND" => socks[fd].conn.dest = ANY
    /\ socks[fd].status = "UNBOUND" /\ socks[fd].conn.src # ANY => HasRecord(fd)

ConnectsOut == call # NONE /\ call.type = "mCONNECT" => call.conn.dest \in Remotes

-----------------------------------------------------------------------------
(***************************************************************************)
(* Requests on their way.                                                  *)
(***************************************************************************)

LEMMA AskedTyped ==
    ASSUME TypeOK, NEW type, NEW c, Asked(type, c)
    PROVE  c \in Connection
<1>1. toUdp \in Seq(Srrs)
  BY OrderedPipes
<1>2. PICK i \in DOMAIN toUdp : toUdp[i].conn = c
  BY DEF Asked
<1> QED
  BY <1>1, <1>2, MessageFields

LEMMA FwdTyped ==
    ASSUME TypeOK
    PROVE  /\ \A i \in DOMAIN clist : clist[i].conn \in Connection
           /\ \A c : Fwd(c) => c \in Connection
<1> DEFINE Entry == [conn : Connection]
<1>1. clist \in Seq(Entry)
  BY DEF TypeOK, UdpOK
<1>2. \A e \in Entry : e.conn \in Connection
  OBVIOUS
<1> HIDE DEF Entry
<1> QED
  BY <1>1, <1>2 DEF Fwd

LEMMA AskedMore ==
    ASSUME TypeOK, NEW m, toUdp' = Append(toUdp, m)
    PROVE  \A type, c : Asked(type, c)' <=> Asked(type, c) \/ (m.type = type /\ m.conn = c)
<1>1. toUdp \in Seq(Srrs)
  BY OrderedPipes
<1>2. /\ DOMAIN toUdp' = DOMAIN toUdp \cup {Len(toUdp) + 1}
      /\ \A i \in DOMAIN toUdp : toUdp'[i] = toUdp[i]
      /\ toUdp'[Len(toUdp) + 1] = m
  BY <1>1
<1> QED
  BY <1>2 DEF Asked

LEMMA AskedLess ==
    ASSUME TypeOK, toUdp # <<>>, toUdp' = Tail(toUdp)
    PROVE  /\ \A type, c : Asked(type, c)' => Asked(type, c)
           /\ \A type, c : Asked(type, c) =>
                 Asked(type, c)' \/ (Head(toUdp).type = type /\ Head(toUdp).conn = c)
           /\ Asked(Head(toUdp).type, Head(toUdp).conn)
<1>1. toUdp \in Seq(Srrs)
  BY OrderedPipes
<1>2. /\ DOMAIN toUdp = 1..Len(toUdp) /\ DOMAIN toUdp' = 1..(Len(toUdp) - 1)
      /\ Len(toUdp) \in Nat /\ Len(toUdp) > 0
      /\ Head(toUdp) = toUdp[1]
      /\ \A i \in 1..(Len(toUdp) - 1) : toUdp'[i] = toUdp[i + 1]
  BY <1>1
<1>3. \A i \in DOMAIN toUdp' : i + 1 \in DOMAIN toUdp /\ toUdp'[i] = toUdp[i + 1]
  BY <1>2
<1>4. \A i \in DOMAIN toUdp : i = 1 \/ (i - 1 \in DOMAIN toUdp' /\ toUdp'[i - 1] = toUdp[i])
  <2> SUFFICES ASSUME NEW i \in DOMAIN toUdp, i # 1
               PROVE  i - 1 \in DOMAIN toUdp' /\ toUdp'[i - 1] = toUdp[i]
    OBVIOUS
  <2>1. i - 1 \in 1..(Len(toUdp) - 1) /\ (i - 1) + 1 = i
    BY <1>2
  <2> QED
    BY <1>2, <2>1
<1>5. \A type, c : Asked(type, c)' => Asked(type, c)
  BY <1>3 DEF Asked
<1>6. \A type, c : Asked(type, c) =>
          Asked(type, c)' \/ (Head(toUdp).type = type /\ Head(toUdp).conn = c)
  BY <1>2, <1>4 DEF Asked
<1>7. Asked(Head(toUdp).type, Head(toUdp).conn)
  BY <1>2 DEF Asked
<1> QED
  BY <1>5, <1>6, <1>7

\* A FORWARD on its way has a record, so there is one at most, ...
LEMMA ForwardRecord ==
    ASSUME TypeOK, Numbered
    PROVE  /\ \A i \in DOMAIN toUdp : toUdp[i].type = "FORWARD" =>
                 \E k \in DOMAIN udpq : udpq[k].type = "FORWARD"
           /\ OneWaits => \A i, j \in DOMAIN toUdp :
                 toUdp[i].type = "FORWARD" /\ toUdp[j].type = "FORWARD" => i = j
<1>1. PICK f : Numbers(f, udpq, fromUdp, toUdp)
  BY DEF Numbered
<1>2. /\ Len(fromUdp) \in Nat /\ Len(toUdp) \in Nat
      /\ DOMAIN toUdp = 1..Len(toUdp) /\ DOMAIN udpq = 1..Len(udpq)
  BY OrderedPipes
<1>3. ASSUME NEW i \in DOMAIN toUdp, toUdp[i].type = "FORWARD"
      PROVE  \E k \in DOMAIN udpq : f[k] = Len(fromUdp) + i /\ udpq[k].type = "FORWARD"
  <2> DEFINE d == Len(fromUdp) + i
  <2>1. d \in Nat /\ IsDue(fromUdp, toUdp, d) /\ At(fromUdp, toUdp, d) = toUdp[i]
    BY <1>2, <1>3 DEF IsDue, At
  <2> HIDE DEF d
  <2>2. PICK k \in 1..Len(udpq) : f[k] = d
    BY <1>1, <2>1 DEF Numbers
  <2>3. Fits(udpq[k].type, At(fromUdp, toUdp, f[k]))
    BY <1>1, <2>2 DEF Numbers
  <2>4. udpq[k].type = "FORWARD"
    BY <1>3, <2>1, <2>2, <2>3 DEF Fits
  <2> QED
    BY <1>2, <2>2, <2>4 DEF d
<1>4. ASSUME OneWaits, NEW i \in DOMAIN toUdp, NEW j \in DOMAIN toUdp,
             toUdp[i].type = "FORWARD", toUdp[j].type = "FORWARD"
      PROVE  i = j
  <2>1. PICK k \in DOMAIN udpq : f[k] = Len(fromUdp) + i /\ udpq[k].type = "FORWARD"
    BY <1>3, <1>4
  <2>2. PICK l \in DOMAIN udpq : f[l] = Len(fromUdp) + j /\ udpq[l].type = "FORWARD"
    BY <1>3, <1>4
  <2>3. k = l
    BY <1>4, <2>1, <2>2 DEF OneWaits
  <2>4. Len(fromUdp) + i = Len(fromUdp) + j /\ i \in Nat /\ j \in Nat
    BY <1>2, <2>1, <2>2, <2>3
  <2> QED
    BY <1>2, <2>4
<1> QED
  BY <1>3, <1>4

\* ... and none when the application asks for something.
LEMMA IdleForwards ==
    ASSUME TypeOK, Numbered, Idle
    PROVE  \A c : ~ Asked("FORWARD", c)
  BY ForwardRecord DEF Idle, Asked
-----------------------------------------------------------------------------
(***************************************************************************)
(* What becomes of the forwards.                                           *)
(***************************************************************************)

\* Neither forwards nor requests for them nor UDP sockets with a port change.
LEMMA ForwardsRest ==
    ASSUME TypeOK, Forwards, clist' = clist,
           \A p \in Port : ports[p] # 0 => ports'[p] # 0,
           \A k \in Fd : socks'[k].conn = socks[k].conn \/ (~ HasPort(k) /\ ~ HasPort(k)'),
           \A c : Asked("FORWARD", c)' <=> Asked("FORWARD", c),
           \A c : Asked("CLOSE", c)' <=> Asked("CLOSE", c)
    PROVE  Forwards'
<1>1. \A c : Fwd(c)' <=> Fwd(c)
  BY DEF Fwd
<1>2. \A c : c.src \in Port /\ c.protocol = "udp" =>
          \A k \in Fd : socks[k].conn = c => socks'[k].conn = c
  BY NotAPort DEF HasPort
<1>3. Entries'
  <2> SUFFICES ASSUME NEW c \in Connection, Fwd(c)
               PROVE  c.src \in Port /\ c.protocol = "udp" /\ ports'[c.src] # 0 /\ Kept(c)'
    BY <1>1 DEF Entries
  <2>1. c.src \in Port /\ c.protocol = "udp" /\ ports[c.src] # 0 /\ Kept(c)
    BY DEF Forwards, Entries
  <2>2. Kept(c)'
    BY <1>2, <2>1 DEF Kept
  <2> QED
    BY <2>1, <2>2
<1>4. OneEntry'
  BY DEF Forwards, OneEntry
<1>5. ForwardsAsked'
  BY <1>1, <1>2 DEF Forwards, ForwardsAsked
<1>6. ClosesAsked'
  <2> SUFFICES ASSUME NEW c \in Connection, Asked("CLOSE", c)
               PROVE  /\ c.src \in Port /\ c.protocol = "udp" /\ ports'[c.src] # 0
                      /\ \A k \in Fd : socks'[k].conn.protocol = "udp" => socks'[k].conn.src # c.src
    BY DEF ClosesAsked
  <2>1. /\ c.src \in Port /\ c.protocol = "udp" /\ ports[c.src] # 0
        /\ \A k \in Fd : socks[k].conn.protocol = "udp" => socks[k].conn.src # c.src
    BY DEF Forwards, ClosesAsked
  <2>2. c.src # ANY
    BY <2>1, NotAPort
  <2> QED
    BY <2>1, <2>2 DEF HasPort
<1>7. Forwarded'
  BY <1>1 DEF Forwards, Forwarded, HasPort
<1> QED
  BY <1>3, <1>4, <1>5, <1>6, <1>7 DEF Forwards

\* A socket gets a port that nobody has: bind, or connect without it.
LEMMA ForwardFresh ==
    ASSUME TypeOK, PortsApart, Forwards, clist' = clist,
           NEW fd \in Fd, NEW c \in Connection,
           c.src \in Port, c.protocol = "udp", ports[c.src] = 0,
           ports' = [ports EXCEPT ![c.src] = fd],
           socks[fd].conn.src = ANY, socks'[fd].conn = c,
           \A k \in Fd \ {fd} : socks'[k] = socks[k],
           \A e : ~ Asked("FORWARD", e),
           \A e : Asked("FORWARD", e)' <=> e = c,
           \A e : Asked("CLOSE", e)' <=> Asked("CLOSE", e)
    PROVE  Forwards'
<1>1. \A e : Fwd(e)' <=> Fwd(e)
  BY DEF Fwd
<1>2. ports'[c.src] # 0 /\ \A p \in Port : ports[p] # 0 => ports'[p] = ports[p] /\ p # c.src
  BY NotAPort DEF TypeOK, PortsOK
<1>3. Entries'
  <2> SUFFICES ASSUME NEW e \in Connection, Fwd(e)
               PROVE  e.src \in Port /\ e.protocol = "udp" /\ ports'[e.src] # 0 /\ Kept(e)'
    BY <1>1 DEF Entries
  <2>1. e.src \in Port /\ e.protocol = "udp" /\ ports[e.src] # 0 /\ Kept(e)
    BY DEF Forwards, Entries
  <2>2. Kept(e)'
    BY <2>1, NotAPort DEF Kept
  <2> QED
    BY <1>2, <2>1, <2>2
<1>4. OneEntry'
  BY DEF Forwards, OneEntry
<1>5. ForwardsAsked'
  <2>1. \A e \in Connection : Fwd(e) => e.src # c.src
    BY DEF Forwards, Entries
  <2> QED
    BY <1>1, <2>1 DEF ForwardsAsked
<1>6. ClosesAsked'
  <2> SUFFICES ASSUME NEW e \in Connection, Asked("CLOSE", e)
               PROVE  /\ e.src \in Port /\ e.protocol = "udp" /\ ports'[e.src] # 0
                      /\ \A k \in Fd : socks'[k].conn.protocol = "udp" => socks'[k].conn.src # e.src
    BY DEF ClosesAsked
  <2>1. /\ e.src \in Port /\ e.protocol = "udp" /\ ports[e.src] # 0
        /\ \A k \in Fd : socks[k].conn.protocol = "udp" => socks[k].conn.src # e.src
    BY DEF Forwards, ClosesAsked
  <2> QED
    BY <1>2, <2>1
<1>7. Forwarded'
  BY <1>1 DEF Forwards, Forwarded, HasPort
<1> QED
  BY <1>3, <1>4, <1>5, <1>6, <1>7 DEF Forwards

\* A bound socket gets a remote end.
LEMMA ForwardConnected ==
    ASSUME TypeOK, PortsApart, Forwards, UNCHANGED <<clist, ports>>,
           NEW fd \in Fd, NEW d \in Remotes,
           socks[fd].conn.src \in Port, socks[fd].conn.dest = ANY, socks[fd].conn.protocol = "udp",
           socks'[fd].conn = [socks[fd].conn EXCEPT !.dest = d],
           \A k \in Fd \ {fd} : socks'[k] = socks[k],
           \A e : ~ Asked("FORWARD", e),
           \A e : Asked("FORWARD", e)' <=> e = socks'[fd].conn,
           \A e : Asked("CLOSE", e)' <=> Asked("CLOSE", e)
    PROVE  Forwards'
<1> DEFINE c == socks'[fd].conn
<1>1. \A e : Fwd(e)' <=> Fwd(e)
  BY DEF Fwd
<1>2. /\ socks[fd].conn \in Connection
      /\ c.src = socks[fd].conn.src /\ c.dest = d /\ c.protocol = "udp"
  BY SocketChanged DEF TypeOK, Connection
<1>3. d # ANY /\ socks[fd].conn.src # ANY
  BY StackAssumption, NotAPort
<1>4. Entries'
  <2> SUFFICES ASSUME NEW e \in Connection, Fwd(e)
               PROVE  e.src \in Port /\ e.protocol = "udp" /\ ports'[e.src] # 0 /\ Kept(e)'
    BY <1>1 DEF Entries
  <2>1. e.src \in Port /\ e.protocol = "udp" /\ ports[e.src] # 0 /\ Kept(e)
    BY DEF Forwards, Entries
  <2>2. Kept(e)'
    <3>1. CASE e = socks[fd].conn
      BY <3>1 DEF Kept
    <3>2. CASE e # socks[fd].conn
      BY <2>1, <3>2 DEF Kept
    <3> QED
      BY <3>1, <3>2
  <2> QED
    BY <2>1, <2>2
<1>5. OneEntry'
  BY DEF Forwards, OneEntry
<1>6. ForwardsAsked'
  <2>1. ASSUME NEW e \in Connection, Fwd(e), e.src = c.src
        PROVE  e.dest = ANY
    <3>1. e.protocol = "udp" /\ Kept(e)
      BY <2>1 DEF Forwards, Entries
    <3>2. ~ Asked("CLOSE", e)
      BY <1>2, <2>1 DEF Forwards, ClosesAsked
    <3>3. PICK k \in Fd : socks[k].conn = e
      BY <3>1, <3>2 DEF Kept
    <3>4. k = fd
      BY <1>2, <1>3, <2>1, <3>1, <3>3 DEF PortsApart
    <3> QED
      BY <3>3, <3>4
  <2> QED
    BY <1>1, <1>2, <1>3, <2>1 DEF ForwardsAsked
<1>7. ClosesAsked'
  <2> SUFFICES ASSUME NEW e \in Connection, Asked("CLOSE", e)
               PROVE  /\ e.src \in Port /\ e.protocol = "udp" /\ ports'[e.src] # 0
                      /\ \A k \in Fd : socks'[k].conn.protocol = "udp" => socks'[k].conn.src # e.src
    BY DEF ClosesAsked
  <2>1. /\ e.src \in Port /\ e.protocol = "udp" /\ ports[e.src] # 0
        /\ \A k \in Fd : socks[k].conn.protocol = "udp" => socks[k].conn.src # e.src
    BY DEF Forwards, ClosesAsked
  <2> HIDE DEF c
  <2> QED
    BY <1>2, <2>1 DEF c
<1>8. Forwarded'
  BY <1>1 DEF Forwards, Forwarded, HasPort
<1> QED
  BY <1>4, <1>5, <1>6, <1>7, <1>8 DEF Forwards

\* A socket with a port is closed.
LEMMA ForwardClosing ==
    ASSUME TypeOK, PortsApart, Forwards, UNCHANGED <<clist, ports>>,
           NEW fd \in Fd, HasPort(fd), socks'[fd].conn = Unbound,
           \A k \in Fd \ {fd} : socks'[k] = socks[k],
           \A e : ~ Asked("FORWARD", e),
           \A e : ~ Asked("FORWARD", e)',
           \A e : Asked("CLOSE", e)' <=> Asked("CLOSE", e) \/ e = socks[fd].conn
    PROVE  Forwards'
<1> DEFINE c == socks[fd].conn
<1>1. \A e : Fwd(e)' <=> Fwd(e)
  BY DEF Fwd
<1>2. c \in Connection /\ c.src \in Port /\ c.protocol = "udp" /\ ports[c.src] # 0
  BY SocketChanged DEF TypeOK, Connection, HasPort, PortsApart
<1>3. Unbound.protocol # "udp"
  BY StackAssumption DEF Unbound
<1>4. Entries'
  BY <1>1 DEF Forwards, Entries, Kept
<1>5. OneEntry'
  BY DEF Forwards, OneEntry
<1>6. ForwardsAsked'
  BY DEF ForwardsAsked
<1>7. ClosesAsked'
  <2> SUFFICES ASSUME NEW e \in Connection, Asked("CLOSE", e) \/ e = c
               PROVE  /\ e.src \in Port /\ e.protocol = "udp" /\ ports[e.src] # 0
                      /\ \A k \in Fd : socks'[k].conn.protocol = "udp" => socks'[k].conn.src # e.src
    BY DEF ClosesAsked
  <2>1. CASE e = c
    BY <1>2, <1>3, <2>1 DEF PortsApart, HasPort
  <2>2. CASE Asked("CLOSE", e)
    BY <1>3, <2>2 DEF Forwards, ClosesAsked
  <2> QED
    BY <2>1, <2>2
<1>8. Forwarded'
  BY <1>1, <1>3 DEF Forwards, Forwarded, HasPort
<1> QED
  BY <1>4, <1>5, <1>6, <1>7, <1>8 DEF Forwards
-----------------------------------------------------------------------------
(***************************************************************************)
(* What UDP does to its list.                                              *)
(***************************************************************************)

\* w is the list without the entries of a port.
Cleared(w, p) ==
    /\ w \in Seq([conn : Connection])
    /\ \A j, k \in DOMAIN w : w[j].conn.src = w[k].conn.src => j = k
    /\ \A e : (\E j \in DOMAIN w : w[j].conn = e) <=> Fwd(e) /\ e.src # p

LEMMA EntryRemoved ==
    ASSUME TypeOK, OneEntry, NEW i \in DOMAIN clist
    PROVE  Cleared(Without(clist, i), clist[i].conn.src)
<1> DEFINE Entry == [conn : Connection]
           n == Len(clist)
           w == Without(clist, i)
           p == clist[i].conn.src
           from(j) == IF j < i THEN j ELSE j + 1
<1>1. /\ clist \in Seq(Entry) /\ clist # <<>> /\ n \in Nat /\ DOMAIN clist = 1..n /\ i \in 1..n
  <2>1. clist \in Seq(Entry)
    BY DEF TypeOK, UdpOK
  <2> HIDE DEF Entry
  <2> QED
    BY <2>1
<1>2. w \in Seq(Entry)
  BY <1>1, WithoutType
<1>3. DOMAIN w = 1..(n - 1) /\ \A j \in 1..(n - 1) : w[j] = clist[from(j)]
  BY DEF Without
<1>4. \A j \in 1..(n - 1) : from(j) \in 1..n /\ from(j) # i
  BY <1>1
<1>5. \A j, k \in 1..(n - 1) : from(j) = from(k) => j = k
  BY <1>1
<1>6. \A k \in 1..n : k # i => \E j \in 1..(n - 1) : from(j) = k
  <2> SUFFICES ASSUME NEW k \in 1..n, k # i PROVE \E j \in 1..(n - 1) : from(j) = k
    OBVIOUS
  <2>1. CASE k < i
    <3>1. k \in 1..(n - 1) /\ from(k) = k
      BY <1>1, <2>1
    <3> QED
      BY <3>1
  <2>2. CASE k > i
    <3>1. k - 1 \in 1..(n - 1) /\ from(k - 1) = k
      BY <1>1, <2>2
    <3> QED
      BY <3>1
  <2> QED
    BY <1>1, <2>1, <2>2
<1> HIDE DEF n, w, from
<1>7. \A j, k \in DOMAIN w : w[j].conn.src = w[k].conn.src => j = k
  BY <1>1, <1>3, <1>4, <1>5 DEF OneEntry
<1>8. ASSUME NEW e
      PROVE  (\E j \in DOMAIN w : w[j].conn = e) <=> Fwd(e) /\ e.src # p
  <2>1. ASSUME NEW j \in DOMAIN w, w[j].conn = e
        PROVE  Fwd(e) /\ e.src # p
    BY <1>1, <1>3, <1>4, <2>1 DEF OneEntry, Fwd
  <2>2. ASSUME Fwd(e), e.src # p
        PROVE  \E j \in DOMAIN w : w[j].conn = e
    <3>1. PICK k \in DOMAIN clist : clist[k].conn = e
      BY <2>2 DEF Fwd
    <3>2. k \in 1..n /\ k # i
      BY <1>1, <2>2, <3>1
    <3>3. PICK j \in 1..(n - 1) : from(j) = k
      BY <1>6, <3>2
    <3> QED
      BY <1>3, <3>1, <3>3
  <2> QED
    BY <2>1, <2>2
<1> HIDE DEF p
<1> QED
  BY <1>2, <1>7, <1>8 DEF Cleared, w, p

\* A request for a port finds the entry of the port, if its remote end fits.
LEMMA MatchesPort ==
    ASSUME TypeOK, Entries, NEW i \in DOMAIN clist, NEW c \in Connection, c.src \in Port
    PROVE  /\ clist[i].conn \in Connection /\ Fwd(clist[i].conn)
           /\ Matches(clist[i].conn, c) <=>
                 clist[i].conn.src = c.src /\ EndpointMatches(clist[i].conn.dest, c.dest)
<1>1. clist[i].conn \in Connection /\ Fwd(clist[i].conn)
  BY FwdTyped DEF Fwd
<1>2. clist[i].conn.src \in Port
  BY <1>1 DEF Entries
<1> QED
  BY <1>1, <1>2, NotAPort DEF Matches, EndpointMatches

\* The forward of a port makes way for the next.
LEMMA PortReplaced ==
    ASSUME TypeOK, Entries, OneEntry, NEW c \in Connection, c.src \in Port,
           \A e \in Connection : Fwd(e) /\ e.src = c.src => e.dest = ANY
    PROVE  Cleared(ForwardReplaced(c), c.src)
<1>1. \A i \in DOMAIN clist :
          /\ Fwd(clist[i].conn)
          /\ Matches(clist[i].conn, c) <=> clist[i].conn.src = c.src
  <2> SUFFICES ASSUME NEW i \in DOMAIN clist
               PROVE  /\ Fwd(clist[i].conn)
                      /\ Matches(clist[i].conn, c) <=> clist[i].conn.src = c.src
    OBVIOUS
  <2>1. /\ clist[i].conn \in Connection /\ Fwd(clist[i].conn)
        /\ Matches(clist[i].conn, c) <=>
              clist[i].conn.src = c.src /\ EndpointMatches(clist[i].conn.dest, c.dest)
    BY MatchesPort
  <2> QED
    BY <2>1 DEF EndpointMatches
<1>2. CASE NoMatch(clist, c)
  <2>1. ForwardReplaced(c) = clist
    BY <1>2 DEF ForwardReplaced
  <2>2. \A e : Fwd(e) => e.src # c.src
    BY <1>1, <1>2 DEF NoMatch, Fwd
  <2>3. clist \in Seq([conn : Connection])
    BY DEF TypeOK, UdpOK
  <2> QED
    BY <2>1, <2>2, <2>3 DEF Cleared, OneEntry, Fwd
<1>3. CASE ~ NoMatch(clist, c)
  <2> DEFINE i == CHOOSE k \in DOMAIN clist : IsFirstMatch(clist, c, k)
  <2>1. PICK m \in DOMAIN clist : Matches(clist[m].conn, c)
    BY <1>3 DEF NoMatch
  <2>2. IsFirstMatch(clist, c, m)
    <3>1. m \in Nat /\ \A j \in 1..(m - 1) : j \in DOMAIN clist /\ j # m
      <4> DEFINE Entry == [conn : Connection]
      <4>1. clist \in Seq(Entry)
        BY DEF TypeOK, UdpOK
      <4> HIDE DEF Entry
      <4> QED
        BY <4>1
    <3>2. \A j \in 1..(m - 1) : ~ Matches(clist[j].conn, c)
      BY <1>1, <2>1, <3>1 DEF OneEntry
    <3> QED
      BY <2>1, <3>2 DEF IsFirstMatch
  <2>3. i \in DOMAIN clist /\ IsFirstMatch(clist, c, i)
    BY <2>2
  <2>4. ForwardReplaced(c) = Without(clist, i)
    BY <1>3 DEF ForwardReplaced
  <2> HIDE DEF i
  <2>5. clist[i].conn.src = c.src
    BY <1>1, <2>3 DEF IsFirstMatch
  <2> QED
    BY <2>3, <2>4, <2>5, EntryRemoved
<1> QED
  BY <1>2, <1>3

\* UDP takes a FORWARD.
LEMMA ForwardTaken ==
    ASSUME TypeOK, Numbered, OneWaits, PortsApart, Forwards, UNCHANGED <<socks, ports>>, UdpForward
    PROVE  Forwards'
<1> DEFINE c == Head(toUdp).conn
           w == ForwardReplaced(c)
<1>1. /\ toUdp # <<>> /\ Head(toUdp).type = "FORWARD" /\ toUdp' = Tail(toUdp)
      /\ clist' = Append(w, [conn |-> c])
  BY DEF UdpForward, UdpRequest
<1>2. Asked("FORWARD", c)
  BY <1>1, AskedLess
<1>3. \A e : Asked("FORWARD", e) => e = c
  <2>1. \A i, j \in DOMAIN toUdp :
            toUdp[i].type = "FORWARD" /\ toUdp[j].type = "FORWARD" => i = j
    BY ForwardRecord
  <2> QED
    BY <1>2, <2>1 DEF Asked
<1>4. \A e : ~ Asked("FORWARD", e)'
  <2>1. \A i \in DOMAIN toUdp' : i + 1 \in DOMAIN toUdp /\ toUdp'[i] = toUdp[i + 1] /\ i + 1 # 1
    BY <1>1, OrderedPipes
  <2>2. 1 \in DOMAIN toUdp /\ toUdp[1].type = "FORWARD"
    BY <1>1, OrderedPipes
  <2> QED
    BY <2>1, <2>2, ForwardRecord DEF Asked
<1>5. \A e : Asked("CLOSE", e)' <=> Asked("CLOSE", e)
  BY <1>1, AskedLess
<1>6. /\ c \in Connection /\ c.src \in Port /\ c.protocol = "udp"
      /\ \A e \in Connection : Fwd(e) /\ e.src = c.src => e.dest = ANY
  BY <1>2, AskedTyped DEF Forwards, ForwardsAsked
<1>7. PICK fd \in Fd : socks[fd].conn = c
  BY <1>2, <1>6 DEF Forwards, ForwardsAsked
<1> HIDE DEF c
<1>8. Cleared(w, c.src)
  BY <1>6, PortReplaced DEF Forwards
<1> HIDE DEF w
<1>9. OneEntry' /\ \A e : Fwd(e)' <=> e = c \/ (Fwd(e) /\ e.src # c.src)
  <2> DEFINE Entry == [conn : Connection]
  <2>1. w \in Seq(Entry) /\ [conn |-> c] \in Entry
    BY <1>6, <1>8 DEF Cleared
  <2> HIDE DEF Entry
  <2>2. /\ DOMAIN clist' = DOMAIN w \cup {Len(w) + 1}
        /\ \A j \in DOMAIN w : clist'[j] = w[j]
        /\ clist'[Len(w) + 1] = [conn |-> c]
    BY <1>1, <2>1
  <2>3. \A e : Fwd(e)' <=> e = c \/ \E j \in DOMAIN w : w[j].conn = e
    BY <2>2 DEF Fwd
  <2>4. \A j \in DOMAIN w : w[j].conn.src # c.src
    BY <1>8 DEF Cleared
  <2>5. \A j, k \in DOMAIN w : w[j].conn.src = w[k].conn.src => j = k
    BY <1>8 DEF Cleared
  <2>6. OneEntry'
    BY <2>2, <2>4, <2>5 DEF OneEntry
  <2> QED
    BY <1>8, <2>3, <2>6 DEF Cleared
<1>10. c.src # ANY
  BY <1>6, NotAPort
<1>11. Entries'
  <2> SUFFICES ASSUME NEW e \in Connection, e = c \/ (Fwd(e) /\ e.src # c.src)
               PROVE  e.src \in Port /\ e.protocol = "udp" /\ ports'[e.src] # 0 /\ Kept(e)'
    BY <1>9 DEF Entries
  <2>1. CASE e = c
    BY <1>6, <1>7, <1>10, <2>1 DEF Kept, PortsApart
  <2>2. CASE Fwd(e) /\ e.src # c.src
    <3>1. e.src \in Port /\ e.protocol = "udp" /\ ports[e.src] # 0 /\ Kept(e)
      BY <2>2 DEF Forwards, Entries
    <3>2. \A d \in Remotes : [e EXCEPT !.dest = d] # c
      BY <2>2 DEF Connection
    <3>3. Kept(e)'
      BY <1>3, <1>5, <3>1, <3>2 DEF Kept
    <3> QED
      BY <3>1, <3>3
  <2> QED
    BY <2>1, <2>2
<1>12. ForwardsAsked'
  BY <1>4 DEF ForwardsAsked
<1>13. ClosesAsked'
  BY <1>5 DEF Forwards, ClosesAsked
<1>14. Forwarded'
  <2> SUFFICES ASSUME NEW k \in Fd, HasPort(k) PROVE Fwd(socks[k].conn)'
    BY DEF Forwarded, HasPort
  <2>1. CASE socks[k].conn.src = c.src
    <3>1. k = fd
      BY <1>6, <1>7, <1>10, <2>1 DEF HasPort, PortsApart
    <3> QED
      BY <1>7, <1>9, <3>1
  <2>2. CASE socks[k].conn.src # c.src
    BY <1>3, <1>9, <2>2 DEF Forwards, Forwarded
  <2> QED
    BY <2>1, <2>2
<1> QED
  BY <1>9, <1>11, <1>12, <1>13, <1>14 DEF Forwards

\* UDP takes a CLOSE.
LEMMA CloseTaken ==
    ASSUME TypeOK, Forwards, UNCHANGED <<socks, ports>>, UdpClose
    PROVE  Forwards'
<1> DEFINE c == Head(toUdp).conn
<1>1. toUdp # <<>> /\ Head(toUdp).type = "CLOSE" /\ toUdp' = Tail(toUdp)
  BY DEF UdpClose, UdpRequest
<1>2. /\ Asked("CLOSE", c)
      /\ \A e : Asked("FORWARD", e)' <=> Asked("FORWARD", e)
      /\ \A e : Asked("CLOSE", e)' => Asked("CLOSE", e)
      /\ \A e : Asked("CLOSE", e) => Asked("CLOSE", e)' \/ e = c
  BY <1>1, AskedLess
<1>3. /\ c \in Connection /\ c.src \in Port
      /\ \A k \in Fd : socks[k].conn.protocol = "udp" => socks[k].conn.src # c.src
  BY <1>2, AskedTyped DEF Forwards, ClosesAsked
<1> HIDE DEF c
<1>4. /\ OneEntry'
      /\ \A e : Fwd(e)' => Fwd(e) /\ e # c
      /\ \A e : Fwd(e) /\ e.src # c.src => Fwd(e)'
  <2>1. \A i \in DOMAIN clist :
            /\ clist[i].conn \in Connection /\ Fwd(clist[i].conn)
            /\ Matches(clist[i].conn, c) => clist[i].conn.src = c.src
            /\ clist[i].conn = c => Matches(clist[i].conn, c)
    BY <1>3, MatchesPort DEF Forwards, EndpointMatches
  <2>2. CASE NoMatch(clist, c) /\ UNCHANGED clist
    BY <2>1, <2>2 DEF Forwards, OneEntry, NoMatch, Fwd
  <2>3. ASSUME NEW i \in DOMAIN clist, IsFirstMatch(clist, c, i), clist' = Without(clist, i)
        PROVE  /\ OneEntry'
               /\ \A e : Fwd(e)' => Fwd(e) /\ e # c
               /\ \A e : Fwd(e) /\ e.src # c.src => Fwd(e)'
    <3>1. clist[i].conn.src = c.src
      BY <2>1, <2>3 DEF IsFirstMatch
    <3>2. Cleared(clist', c.src)
      BY <2>3, <3>1, EntryRemoved DEF Forwards
    <3> QED
      BY <3>2 DEF Cleared, OneEntry, Fwd
  <2> QED
    BY <2>2, <2>3 DEF UdpClose, c
<1>5. Entries'
  <2> SUFFICES ASSUME NEW e \in Connection, Fwd(e), e # c
               PROVE  e.src \in Port /\ e.protocol = "udp" /\ ports[e.src] # 0 /\ Kept(e)'
    BY <1>4 DEF Entries
  <2>1. e.src \in Port /\ e.protocol = "udp" /\ ports[e.src] # 0 /\ Kept(e)
    BY DEF Forwards, Entries
  <2> QED
    BY <1>2, <2>1 DEF Kept
<1>6. ForwardsAsked'
  BY <1>2, <1>4 DEF Forwards, ForwardsAsked
<1>7. ClosesAsked'
  BY <1>2 DEF Forwards, ClosesAsked
<1>8. Forwarded'
  BY <1>2, <1>3, <1>4 DEF Forwards, Forwarded, HasPort
<1> QED
  BY <1>4, <1>5, <1>6, <1>7, <1>8 DEF Forwards
-----------------------------------------------------------------------------
(***************************************************************************)
(* The sockets of UDP.                                                     *)
(***************************************************************************)

\* A socket becomes bound without a remote end, and waits with its port for
\* the STATUS of its FORWARD.
LEMMA ShapeKept ==
    ASSUME UdpSockets,
           \A k \in Fd :
              \/ socks'[k].conn = socks[k].conn /\ socks'[k].status = socks[k].status
              \/ socks'[k].conn.protocol # "udp"
              \/ socks'[k].status \notin {"UNBOUND", "BOUND"}
              \/ socks'[k].status = "UNBOUND" /\ (socks'[k].conn.src = ANY \/ HasRecord(k)')
              \/ socks'[k].status = "BOUND" /\ socks'[k].conn.dest = ANY,
           \A k \in Fd : HasRecord(k) => HasRecord(k)' \/ socks'[k].status # "UNBOUND"
    PROVE  UdpSockets'
  BY DEF UdpSockets

LEMMA IdleUnbound ==
    ASSUME Idle, UdpSockets, NEW fd \in Fd,
           socks[fd].conn.protocol = "udp", socks[fd].status = "UNBOUND"
    PROVE  socks[fd].conn.src = ANY
  BY DEF Idle, UdpSockets, HasRecord

\* What a request to UDP adds.
LEMMA RequestOnWay ==
    ASSUME TypeOK, NEW type \in RequestTypes, NEW fd, NEW c, NEW n, SendUDPRequest(type, fd, c, n)
    PROVE  /\ \A kind, e : Asked(kind, e)' <=> Asked(kind, e) \/ (kind = type /\ e = c)
           /\ \A k \in Fd : HasRecord(k) => HasRecord(k)'
           /\ type = "FORWARD" => HasRecord(fd)'
<1>1. \A kind, e : Asked(kind, e)' <=> Asked(kind, e) \/ (kind = type /\ e = c)
  <2> DEFINE m == Srr(type, c, n, "EOK")
  <2>1. m.type = type /\ m.conn = c /\ toUdp' = Append(toUdp, m)
    BY DEF Srr, SendUDPRequest
  <2> HIDE DEF m
  <2> QED
    BY <2>1, AskedMore
<1>2. /\ \A i \in DOMAIN udpq : i \in DOMAIN udpq' /\ udpq'[i] = udpq[i]
      /\ \E i \in DOMAIN udpq' : udpq'[i].type = type /\ udpq'[i].sock = fd
  <2> DEFINE r == [type |-> type, conn |-> c, sock |-> fd]
  <2>1. r.type = type /\ r.sock = fd /\ udpq' = Append(udpq, r) /\ udpq \in Seq(RequestRecord)
    BY OrderedPipes DEF SendUDPRequest, Queued
  <2> HIDE DEF r
  <2> QED
    BY <2>1
<1> QED
  BY <1>1, <1>2 DEF HasRecord

\* What a STATUS from sock adds.
LEMMA StatusOnWay ==
    ASSUME TypeOK, NEW m, NEW n, NEW err, SendStatus(m, n, err)
    PROVE  \A kind, e : kind # "STATUS" => (Asked(kind, e)' <=> Asked(kind, e))
<1> DEFINE s == Srr("STATUS", m.conn, n, err)
<1>1. s.type = "STATUS"
  BY DEF Srr
<1>2. CASE toUdp' = toUdp
  BY <1>2 DEF Asked
<1>3. CASE toUdp' = Append(toUdp, s)
  <2> HIDE DEF s
  <2> QED
    BY <1>1, <1>3, AskedMore
<1> QED
  BY <1>2, <1>3 DEF SendStatus, s

LEMMA QuietPipes ==
    ASSUME toUdp' = toUdp
    PROVE  \A kind, e : Asked(kind, e)' <=> Asked(kind, e)
  BY DEF Asked

FwdInv == UdpSockets /\ (strayClose \/ Forwards)

\* The sockets that change have no port at UDP.
LEMMA QuietKeeps ==
    ASSUME TypeOK, FwdInv, clist' = clist, strayClose => strayClose',
           \A p \in Port : ports[p] # 0 => ports'[p] # 0,
           \A k \in Fd :
              \/ socks'[k].conn = socks[k].conn /\ socks'[k].status = socks[k].status
              \/ socks'[k].conn = socks[k].conn /\ socks'[k].status \notin {"UNBOUND", "BOUND"}
              \/ ~ HasPort(k) /\ socks'[k].conn.protocol # "udp"
              \/ ~ HasPort(k) /\ socks'[k].status = "UNBOUND" /\ socks'[k].conn.src = ANY
              \/ /\ socks'[k].conn = socks[k].conn
                 /\ socks'[k].status = "BOUND" /\ socks'[k].conn.dest = ANY,
           \A k \in Fd : HasRecord(k) => HasRecord(k)' \/ socks'[k].status # "UNBOUND",
           \A c : Asked("FORWARD", c)' <=> Asked("FORWARD", c),
           \A c : Asked("CLOSE", c)' <=> Asked("CLOSE", c)
    PROVE  FwdInv'
<1>1. UdpSockets'
  BY ShapeKept DEF FwdInv
<1>2. \A k \in Fd : socks'[k].conn = socks[k].conn \/ (~ HasPort(k) /\ ~ HasPort(k)')
  BY DEF HasPort
<1>3. Forwards => Forwards'
  BY <1>2, ForwardsRest
<1> QED
  BY <1>1, <1>3 DEF FwdInv

StrayMarked ==
    strayClose' = (strayClose \/ \E i \in DOMAIN toUdp' :
                      toUdp'[i].type = "CLOSE" /\ toUdp'[i].conn.src = ANY)

\* A request that goes to nobody, or to TCP.
LEMMA QuietRequest ==
    ASSUME TypeOK, FwdInv, clist' = clist, StrayMarked,
           UNCHANGED <<toUdp, udpq>>,
           \A p \in Port : ports[p] # 0 => ports'[p] # 0,
           \A k \in Fd :
              \/ socks'[k].conn = socks[k].conn /\ socks'[k].status = socks[k].status
              \/ socks'[k].conn = socks[k].conn /\ socks'[k].status \notin {"UNBOUND", "BOUND"}
              \/ ~ HasPort(k) /\ socks'[k].conn.protocol # "udp"
              \/ ~ HasPort(k) /\ socks'[k].status = "UNBOUND" /\ socks'[k].conn.src = ANY
    PROVE  FwdInv'
<1>1. \A k \in Fd : HasRecord(k) => HasRecord(k)'
  BY DEF HasRecord
<1>2. \A kind, c : Asked(kind, c)' <=> Asked(kind, c)
  BY QuietPipes
<1>3. strayClose => strayClose'
  BY DEF StrayMarked
<1> QED
  BY <1>1, <1>2, <1>3, QuietKeeps

LEMMA SocksMoved ==
    ASSUME TypeOK, NEW fd \in Fd
    PROVE  /\ \A st : SetStatus(fd, st) =>
                 /\ socks'[fd].conn = socks[fd].conn /\ socks'[fd].status = st
                 /\ \A k \in Fd \ {fd} : socks'[k] = socks[k]
           /\ \A c, st : SetConn(fd, c, st) =>
                 /\ socks'[fd].conn = c /\ socks'[fd].status = st
                 /\ \A k \in Fd \ {fd} : socks'[k] = socks[k]
           /\ CloseSocket(fd) =>
                 /\ socks'[fd].conn = Unbound /\ socks'[fd].status = "FREE"
                 /\ \A k \in Fd \ {fd} : socks'[k] = socks[k]
  BY DEF TypeOK, SocksOK, SetStatus, SetConn, CloseSocket, Free

LEMMA SocketForwards ==
    ASSUME TypeOK, StackInv, FwdInv, clist' = clist, StrayMarked, AppSocket
    PROVE  FwdInv'
<1>1. /\ UNCHANGED <<ports, toUdp, udpq>>
      /\ \/ UNCHANGED socks
         \/ \E fd \in Fd : /\ socks[fd].status = "FREE"
                           /\ SetConn(fd, [socks[fd].conn EXCEPT !.protocol = Head(fromApp).conn.protocol],
                                      "UNBOUND")
  BY DEF AppSocket, NothingSent, IsFreeSock
<1>2. CASE UNCHANGED socks
  BY <1>1, <1>2, QuietRequest
<1>3. ASSUME NEW fd \in Fd, socks[fd].status = "FREE", NEW p,
             SetConn(fd, [socks[fd].conn EXCEPT !.protocol = p], "UNBOUND")
      PROVE  FwdInv'
  <2>1. socks[fd].conn = Unbound
    BY <1>3 DEF StackInv, Sockets
  <2>2. /\ socks'[fd].conn = [Unbound EXCEPT !.protocol = p] /\ socks'[fd].status = "UNBOUND"
        /\ \A k \in Fd \ {fd} : socks'[k] = socks[k]
    BY <1>3, <2>1, SocksMoved
  <2>3. ~ HasPort(fd) /\ socks'[fd].conn.src = ANY
    BY <2>1, <2>2 DEF HasPort, Unbound
  <2>4. \A k \in Fd :
          \/ socks'[k].conn = socks[k].conn /\ socks'[k].status = socks[k].status
          \/ ~ HasPort(k) /\ socks'[k].status = "UNBOUND" /\ socks'[k].conn.src = ANY
    BY <2>2, <2>3
  <2> QED
    BY <1>1, <2>4, QuietRequest
<1> QED
  BY <1>1, <1>2, <1>3

LEMMA BindForwards ==
    ASSUME TypeOK, StackInv, Numbered, FwdInv, clist' = clist, StrayMarked, AppBind
    PROVE  FwdInv'
<1>1. AppRequest("mBIND") /\ Ready(Head(fromApp)) /\ "mBIND" \in DOMAIN ReadyStatus
  BY DEF AppBind, ReadyStatus
<1>2. /\ Head(fromApp) = call /\ call.fd \in Fd /\ Idle
      /\ socks[call.fd].conn \in Connection /\ socks[call.fd].status = "UNBOUND"
  BY <1>1, RequestReady, CallMade
<1>10. PICK fd \in Fd : fd = call.fd
  BY <1>2
<1>3. PICK p \in Port :
        /\ ports[p] = 0 /\ ports' = [ports EXCEPT ![p] = fd]
        /\ LET c == [socks[fd].conn EXCEPT !.src = p]
           IN  \/ /\ c.protocol = "udp"
                  /\ SetConn(fd, c, "UNBOUND")
                  /\ SendUDPRequest("FORWARD", fd, c, 0)
               \/ /\ c.protocol # "udp"
                  /\ SetConn(fd, c, "BOUND")
                  /\ NothingSent
  BY <1>2, <1>10 DEF AppBind, Resolved
<1> DEFINE c == [socks[fd].conn EXCEPT !.src = p]
<1>4. c \in Connection /\ c.src = p /\ c.protocol = socks[fd].conn.protocol
  BY <1>2, <1>10 DEF Connection
<1>5. \A q \in Port : ports[q] # 0 => ports'[q] # 0
  BY <1>2, <1>3, NotAPort DEF TypeOK, PortsOK
<1> HIDE DEF c
<1>6. CASE c.protocol = "udp" /\ SetConn(fd, c, "UNBOUND") /\ SendUDPRequest("FORWARD", fd, c, 0)
  <2>1. /\ socks'[fd].conn = c /\ socks'[fd].status = "UNBOUND"
        /\ \A k \in Fd \ {fd} : socks'[k] = socks[k]
    BY <1>6, SocksMoved
  <2>2. /\ \A kind, e : Asked(kind, e)' <=> Asked(kind, e) \/ (kind = "FORWARD" /\ e = c)
        /\ \A k \in Fd : HasRecord(k) => HasRecord(k)'
        /\ HasRecord(fd)'
    BY <1>6, RequestOnWay DEF RequestTypes
  <2>3. socks[fd].conn.src = ANY
    BY <1>2, <1>4, <1>6, <1>10, IdleUnbound DEF FwdInv
  <2>4. UdpSockets'
    BY <2>1, <2>2, ShapeKept DEF FwdInv
  <2>5. \A e : ~ Asked("FORWARD", e)
    BY <1>2, IdleForwards
  <2>6. /\ \A e : Asked("FORWARD", e)' <=> e = c
        /\ \A e : Asked("CLOSE", e)' <=> Asked("CLOSE", e)
    BY <2>2, <2>5
  <2>7. fd \in Fd /\ c.src \in Port /\ ports[c.src] = 0 /\ ports' = [ports EXCEPT ![c.src] = fd]
    BY <1>3, <1>4
  <2>8. Forwards => Forwards'
    BY <1>4, <1>6, <2>1, <2>3, <2>5, <2>6, <2>7, ForwardFresh DEF StackInv
  <2> QED
    BY <2>4, <2>8 DEF FwdInv, StrayMarked
<1>7. CASE c.protocol # "udp" /\ SetConn(fd, c, "BOUND") /\ NothingSent
  <2>1. /\ socks'[fd].conn = c
        /\ \A k \in Fd \ {fd} : socks'[k] = socks[k]
    BY <1>7, SocksMoved
  <2>2. ~ HasPort(fd) /\ UNCHANGED <<toUdp, udpq>>
    BY <1>4, <1>7 DEF HasPort, NothingSent
  <2> QED
    BY <1>5, <1>7, <2>1, <2>2, QuietRequest
<1> QED
  BY <1>3, <1>6, <1>7 DEF c

LEMMA ConnectForwards ==
    ASSUME TypeOK, StackInv, Numbered, FwdInv, ConnectsOut, clist' = clist, StrayMarked, AppConnect
    PROVE  FwdInv'
<1>1. AppRequest("mCONNECT") /\ Ready(Head(fromApp)) /\ "mCONNECT" \in DOMAIN ReadyStatus
  BY DEF AppConnect, ReadyStatus
<1>2. /\ Head(fromApp) = call /\ call.fd \in Fd /\ Idle
      /\ socks[call.fd].conn \in Connection /\ socks[call.fd].status \in {"UNBOUND", "BOUND"}
  BY <1>1, RequestReady, CallMade
<1>3. call.conn.dest \in Remotes
  BY <1>1, CallMade DEF ConnectsOut
<1> DEFINE fd == call.fd
<1>4. PICK p \in Port :
        /\ \/ /\ socks[fd].status = "UNBOUND"
              /\ ports[p] = 0 /\ ports' = [ports EXCEPT ![p] = fd]
           \/ socks[fd].status = "BOUND" /\ p = socks[fd].conn.src /\ UNCHANGED ports
        /\ LET c == [socks[fd].conn EXCEPT !.src = p, !.dest = call.conn.dest]
           IN  \/ /\ c.protocol = "udp"
                  /\ SetConn(fd, c, "CONNECTED")
                  /\ SendUDPRequest("FORWARD", fd, c, 0)
               \/ /\ c.protocol # "udp"
                  /\ SetConn(fd, c, "CONNECT_PENDING")
                  /\ SendTCPRequest("CONNECT", fd, c, 0)
  BY <1>2 DEF AppConnect, Resolved
<1> DEFINE c == [socks[fd].conn EXCEPT !.src = p, !.dest = call.conn.dest]
<1>5. c \in Connection /\ c.src = p /\ c.protocol = socks[fd].conn.protocol
  BY <1>2, <1>3 DEF Connection
<1>6. \A q \in Port : ports[q] # 0 => ports'[q] # 0
  BY <1>2, <1>4, NotAPort DEF TypeOK, PortsOK
<1>7. p = socks[fd].conn.src => c = [socks[fd].conn EXCEPT !.dest = call.conn.dest]
  BY <1>2 DEF Connection
<1> HIDE DEF fd, c
<1>8. CASE c.protocol = "udp" /\ SetConn(fd, c, "CONNECTED") /\ SendUDPRequest("FORWARD", fd, c, 0)
  <2>1. /\ socks'[fd].conn = c /\ socks'[fd].status = "CONNECTED"
        /\ \A k \in Fd \ {fd} : socks'[k] = socks[k]
    BY <1>2, <1>8, SocksMoved DEF fd
  <2>2. /\ \A kind, e : Asked(kind, e)' <=> Asked(kind, e) \/ (kind = "FORWARD" /\ e = c)
        /\ \A k \in Fd : HasRecord(k) => HasRecord(k)'
    BY <1>8, RequestOnWay DEF RequestTypes
  <2>3. UdpSockets'
    BY <2>1, <2>2, ShapeKept DEF FwdInv
  <2>4. \A e : ~ Asked("FORWARD", e)
    BY <1>2, IdleForwards
  <2>5. /\ \A e : Asked("FORWARD", e)' <=> e = c
        /\ \A e : Asked("CLOSE", e)' <=> Asked("CLOSE", e)
    BY <2>2, <2>4
  <2>6. Forwards => Forwards'
    <3>1. CASE socks[fd].status = "UNBOUND" /\ ports[p] = 0 /\ ports' = [ports EXCEPT ![p] = fd]
      <4>1. socks[fd].conn.src = ANY
        BY <1>2, <1>5, <1>8, <3>1, IdleUnbound DEF FwdInv, fd
      <4>2. fd \in Fd /\ c.src \in Port /\ ports[c.src] = 0 /\ ports' = [ports EXCEPT ![c.src] = fd]
        BY <1>2, <1>5, <3>1 DEF fd
      <4> QED
        BY <1>5, <1>8, <2>1, <2>4, <2>5, <4>1, <4>2, ForwardFresh DEF StackInv
    <3>2. CASE socks[fd].status = "BOUND" /\ p = socks[fd].conn.src /\ UNCHANGED ports
      <4>1. fd \in Fd /\ socks[fd].conn.dest = ANY /\ socks[fd].conn.protocol = "udp"
        BY <1>2, <1>5, <1>8, <3>2 DEF FwdInv, UdpSockets, fd
      <4>2. socks'[fd].conn = [socks[fd].conn EXCEPT !.dest = call.conn.dest]
        BY <1>7, <2>1, <3>2
      <4> QED
        BY <1>3, <2>1, <2>4, <2>5, <3>2, <4>1, <4>2, ForwardConnected DEF StackInv
    <3> QED
      BY <1>4, <3>1, <3>2
  <2> QED
    BY <2>3, <2>6 DEF FwdInv, StrayMarked
<1>9. CASE c.protocol # "udp" /\ SetConn(fd, c, "CONNECT_PENDING")
           /\ SendTCPRequest("CONNECT", fd, c, 0)
  <2>1. /\ socks'[fd].conn = c
        /\ \A k \in Fd \ {fd} : socks'[k] = socks[k]
    BY <1>2, <1>9, SocksMoved DEF fd
  <2>2. ~ HasPort(fd) /\ UNCHANGED <<toUdp, udpq>>
    BY <1>5, <1>9 DEF HasPort, SendTCPRequest
  <2> QED
    BY <1>6, <1>9, <2>1, <2>2, QuietRequest
<1> QED
  BY <1>4, <1>8, <1>9 DEF c

LEMMA CloseForwards ==
    ASSUME TypeOK, StackInv, Numbered, FwdInv, clist' = clist, StrayMarked, AppClose
    PROVE  FwdInv'
<1>1. /\ AppRequest("mCLOSE") /\ Ready(Head(fromApp)) /\ "mCLOSE" \in DOMAIN ReadyStatus
      /\ UNCHANGED ports
  BY DEF AppClose, ReadyStatus
<1>2. Head(fromApp) = call /\ call.fd \in Fd /\ Idle
  BY <1>1, RequestReady, CallMade
<1>8. PICK fd \in Fd, c \in Connection : fd = call.fd /\ c = socks[fd].conn
  BY <1>2, SocketChanged DEF TypeOK
<1>3. SendRequest("CLOSE", fd, c, 0) /\ CloseSocket(fd)
  BY <1>2, <1>8 DEF AppClose
<1>4. /\ socks'[fd].conn = Unbound /\ socks'[fd].status = "FREE"
      /\ \A k \in Fd \ {fd} : socks'[k] = socks[k]
  BY <1>2, <1>3, SocksMoved
<1>5. Unbound.protocol # "udp"
  BY StackAssumption DEF Unbound
<1>6. CASE c.protocol = "udp" /\ SendUDPRequest("CLOSE", fd, c, 0)
  <2>1. /\ \A kind, e : Asked(kind, e)' <=> Asked(kind, e) \/ (kind = "CLOSE" /\ e = c)
        /\ \A k \in Fd : HasRecord(k) => HasRecord(k)'
    BY <1>6, RequestOnWay DEF RequestTypes
  <2>2. UdpSockets'
    BY <1>4, <1>5, <2>1, ShapeKept DEF FwdInv
  <2>3. \A e : ~ Asked("FORWARD", e)
    BY <1>2, IdleForwards
  <2>4. /\ \A e : ~ Asked("FORWARD", e)'
        /\ \A e : Asked("CLOSE", e)' <=> Asked("CLOSE", e) \/ e = c
    BY <2>1, <2>3
  <2>5. CASE c.src = ANY
    <3>1. Asked("CLOSE", c)'
      BY <2>4
    <3>2. strayClose'
      BY <2>5, <3>1 DEF StrayMarked, Asked
    <3> QED
      BY <2>2, <3>2 DEF FwdInv
  <2>6. CASE c.src # ANY
    <3>1. fd \in Fd /\ HasPort(fd)
      BY <1>6, <1>8, <2>6 DEF HasPort
    <3>2. Forwards => Forwards'
      BY <1>1, <1>4, <1>8, <2>3, <2>4, <3>1, ForwardClosing DEF StackInv
    <3> QED
      BY <2>2, <3>2 DEF FwdInv, StrayMarked
  <2> QED
    BY <2>5, <2>6
<1>7. CASE c.protocol # "udp" /\ SendTCPRequest("CLOSE", fd, c, 0)
  <2>1. ~ HasPort(fd) /\ UNCHANGED <<toUdp, udpq>>
    BY <1>7, <1>8 DEF HasPort, SendTCPRequest
  <2> QED
    BY <1>1, <1>4, <1>5, <2>1, QuietRequest
<1> QED
  BY <1>3, <1>6, <1>7 DEF SendRequest

LEMMA RequestForwards ==
    ASSUME TypeOK, StackInv, Numbered, FwdInv, ConnectsOut, clist' = clist, StrayMarked,
           ProcessAppRequest
    PROVE  FwdInv'
<1>1. CASE AppRefused \/ AppNoPort \/ AppDefault
  <2>1. UNCHANGED <<socks, ports, toUdp, udpq>>
    BY <1>1 DEF AppRefused, AppNoPort, AppDefault, NothingSent
  <2> QED
    BY <2>1, QuietRequest
<1>2. CASE AppListen
  <2>1. /\ AppRequest("mLISTEN") /\ Ready(Head(fromApp)) /\ "mLISTEN" \in DOMAIN ReadyStatus
        /\ UNCHANGED <<ports, toUdp, udpq>>
    BY <1>2 DEF AppListen, ReadyStatus, NothingSent
  <2>2. PICK fd \in Fd : fd = Head(fromApp).fd
    BY <2>1, RequestReady
  <2>3. \/ UNCHANGED socks
        \/ /\ socks[fd].conn.protocol # "udp"
           /\ SetConn(fd, [socks[fd].conn EXCEPT !.dest = ANY], "LISTENING")
    BY <1>2, <2>2 DEF AppListen
  <2>4. CASE /\ socks[fd].conn.protocol # "udp"
             /\ SetConn(fd, [socks[fd].conn EXCEPT !.dest = ANY], "LISTENING")
    <3>1. /\ socks'[fd].conn = [socks[fd].conn EXCEPT !.dest = ANY]
          /\ \A k \in Fd \ {fd} : socks'[k] = socks[k]
      BY <2>4, SocksMoved
    <3>2. ~ HasPort(fd) /\ socks'[fd].conn.protocol # "udp"
      BY <2>4, <3>1, SocketChanged DEF HasPort, TypeOK, Connection
    <3> QED
      BY <2>1, <3>1, <3>2, QuietRequest
  <2> QED
    BY <2>1, <2>3, <2>4, QuietRequest
<1>3. CASE AppAccept \/ AppRead \/ AppWrite
  <2>1. /\ \E type \in {"mACCEPT", "mREAD", "mWRITE"} :
              AppRequest(type) /\ Ready(Head(fromApp)) /\ type \in DOMAIN ReadyStatus
        /\ UNCHANGED ports
    BY <1>3 DEF AppAccept, AppRead, AppWrite, ReadyStatus
  <2>2. PICK fd \in Fd : fd = Head(fromApp).fd
    BY <2>1, RequestReady
  <2>3. PICK c \in Connection : c = socks[fd].conn
    BY SocketChanged DEF TypeOK
  <2>4. \/ UNCHANGED socks
        \/ \E st \in {"ACCEPT_PENDING", "READ_PENDING", "WRITE_PENDING"} : SetStatus(fd, st)
    BY <1>3, <2>2 DEF AppAccept, AppRead, AppWrite
  <2>5. \A k \in Fd :
          \/ socks'[k].conn = socks[k].conn /\ socks'[k].status = socks[k].status
          \/ socks'[k].conn = socks[k].conn /\ socks'[k].status \notin {"UNBOUND", "BOUND"}
    BY <2>4, SocksMoved
  <2>6. CASE UNCHANGED <<toUdp, udpq>>
    BY <2>1, <2>5, <2>6, QuietRequest
  <2>7. CASE \E n : SendUDPRequest("WRITE", fd, c, n)
    <3>1. /\ \A e : Asked("FORWARD", e)' <=> Asked("FORWARD", e)
          /\ \A e : Asked("CLOSE", e)' <=> Asked("CLOSE", e)
          /\ \A k \in Fd : HasRecord(k) => HasRecord(k)'
      BY <2>7, RequestOnWay DEF RequestTypes
    <3>2. strayClose => strayClose'
      BY DEF StrayMarked
    <3> QED
      BY <2>1, <2>5, <3>1, <3>2, QuietKeeps
  <2>8. \/ UNCHANGED <<toUdp, udpq>>
        \/ \E n : SendUDPRequest("WRITE", fd, c, n)
    BY <1>3, <2>2, <2>3
       DEF AppAccept, AppRead, AppWrite, NothingSent, SendTCPRequest, SendRequest
  <2> QED
    BY <2>6, <2>7, <2>8
<1> QED
  BY <1>1, <1>2, <1>3, SocketForwards, BindForwards, ConnectForwards, CloseForwards
     DEF ProcessAppRequest

\* A message from below gives no UDP socket another connection.
LEMMA WriteForwards ==
    ASSUME TypeOK, StackInv, FwdInv, clist' = clist, StrayMarked, HandleTCPWrite \/ HandleUDPWrite
    PROVE  FwdInv'
<1>1. PICK m \in Srrs :
        /\ \E n, err : SendStatus(m, n, err)
        /\ \/ UNCHANGED socks
           \/ \E fd \in Fd : IsFound(fd, m.conn) /\ (Deliver(fd, m) \/ Accepted(fd, m) \/ Connected(fd, m))
  <2>1. PICK m \in Srrs :
            \/ Unknown(m) \/ Refuse(m)
            \/ \E fd \in Fd : /\ IsFound(fd, m.conn)
                              /\ Deliver(fd, m) \/ Accepted(fd, m) \/ Connected(fd, m)
    <3>1. /\ fromTcp # <<>> => Head(fromTcp) \in Srrs
          /\ fromUdp # <<>> => Head(fromUdp) \in Srrs
      BY DEF TypeOK, PipesOK
    <3> QED
      BY <3>1 DEF HandleTCPWrite, HandleUDPWrite
  <2> QED
    BY <2>1 DEF Unknown, Refuse, Deliver, Accepted, Connected
<1>2. UNCHANGED <<ports, udpq>>
  BY DEF HandleTCPWrite, HandleUDPWrite
<1>3. /\ \A e : Asked("FORWARD", e)' <=> Asked("FORWARD", e)
      /\ \A e : Asked("CLOSE", e)' <=> Asked("CLOSE", e)
      /\ \A k \in Fd : HasRecord(k) => HasRecord(k)'
      /\ strayClose => strayClose'
  BY <1>1, <1>2, StatusOnWay DEF HasRecord, StrayMarked
<1>5. m.conn \in Connection
  BY MessageFields
<1>4. \A k \in Fd :
        \/ socks'[k].conn = socks[k].conn /\ socks'[k].status = socks[k].status
        \/ socks'[k].conn = socks[k].conn /\ socks'[k].status \notin {"UNBOUND", "BOUND"}
        \/ ~ HasPort(k) /\ socks'[k].conn.protocol # "udp"
  <2>1. CASE UNCHANGED socks
    BY <2>1
  <2>2. ASSUME NEW fd \in Fd, Deliver(fd, m)
        PROVE  \A k \in Fd :
                 \/ socks'[k].conn = socks[k].conn /\ socks'[k].status = socks[k].status
                 \/ socks'[k].conn = socks[k].conn /\ socks'[k].status \notin {"UNBOUND", "BOUND"}
    <3>1. CASE socks' = [socks EXCEPT ![fd].bin = @ + Taken(fd, m)]
      BY <3>1 DEF TypeOK, SocksOK
    <3>2. CASE SetStatus(fd, "CONNECTED")
      BY <3>2, SocksMoved
    <3> QED
      BY <2>2, <3>1, <3>2 DEF Deliver
  <2>3. ASSUME NEW fd \in Fd, IsFound(fd, m.conn), Accepted(fd, m)
        PROVE  \A k \in Fd :
                 \/ socks'[k].conn = socks[k].conn /\ socks'[k].status = socks[k].status
                 \/ socks'[k].conn = socks[k].conn /\ socks'[k].status \notin {"UNBOUND", "BOUND"}
                 \/ ~ HasPort(k) /\ socks'[k].conn.protocol # "udp"
    <3>1. CASE SetStatus(fd, "LISTENING")
      BY <3>1, SocksMoved
    <3>2. ASSUME NEW new \in Fd, IsFreeSock(new),
                 socks' = [socks EXCEPT ![fd].status = "LISTENING", ![new].conn = m.conn,
                                        ![new].status = "CONNECTED"]
          PROVE  \A k \in Fd :
                   \/ socks'[k].conn = socks[k].conn /\ socks'[k].status = socks[k].status
                   \/ socks'[k].conn = socks[k].conn /\ socks'[k].status \notin {"UNBOUND", "BOUND"}
                   \/ ~ HasPort(k) /\ socks'[k].conn.protocol # "udp"
      <4>1. /\ socks[fd].status = "ACCEPT_PENDING" /\ socks[fd].conn.protocol = "tcp"
            /\ socks[new].conn = Unbound /\ new # fd
        BY <2>3, <3>2 DEF Accepted, IsFreeSock, StackInv, Sockets
      <4>2. socks[fd].conn = m.conn \/ socks[fd].conn = [m.conn EXCEPT !.dest = ANY]
        BY <2>3 DEF IsFound, Answers
      <4>3. /\ socks'[fd].conn = socks[fd].conn /\ socks'[fd].status = "LISTENING"
            /\ socks'[new].conn = m.conn
            /\ \A k \in Fd \ {fd, new} : socks'[k] = socks[k]
        BY <3>2, <4>1 DEF TypeOK, SocksOK
      <4>4. ~ HasPort(new)
        BY <4>1 DEF HasPort, Unbound
      <4>5. socks'[new].conn = socks[fd].conn \/ [socks'[new].conn EXCEPT !.dest = ANY] = socks[fd].conn
        BY <4>2, <4>3
      <4>7. socks'[new].conn \in Connection
        <5>1. m.conn \in Connection
          BY <1>5
        <5> QED
          BY <4>3, <5>1
      <4>6. socks'[new].conn.protocol # "udp"
        BY <4>1, <4>5, <4>7 DEF Connection
      <4> QED
        BY <4>3, <4>4, <4>6
    <3> QED
      BY <2>3, <3>1, <3>2 DEF Accepted
  <2>4. ASSUME NEW fd \in Fd, Connected(fd, m)
        PROVE  \A k \in Fd :
                 \/ socks'[k].conn = socks[k].conn /\ socks'[k].status = socks[k].status
                 \/ socks'[k].conn = socks[k].conn /\ socks'[k].status \notin {"UNBOUND", "BOUND"}
                 \/ ~ HasPort(k) /\ socks'[k].conn.protocol # "udp"
    <3>1. socks[fd].conn.protocol = "tcp"
      BY <2>4 DEF Connected, StackInv, Sockets
    <3>2. CASE SetStatus(fd, "CONNECTED")
      BY <3>2, SocksMoved
    <3>3. CASE CloseSocket(fd)
      BY <3>1, <3>3, SocksMoved, StackAssumption DEF HasPort, Unbound
    <3> QED
      BY <2>4, <3>2, <3>3 DEF Connected
  <2> QED
    BY <1>1, <2>1, <2>2, <2>3, <2>4
<1> QED
  BY <1>2, <1>3, <1>4, QuietKeeps

LEMMA TcpStatusForwards ==
    ASSUME TypeOK, StackInv, FwdInv, clist' = clist, StrayMarked, HandleTCPStatus
    PROVE  FwdInv'
<1> DEFINE r == Head(tcpq)
           m == Head(fromTcp)
<1>1. /\ tcpq # <<>> /\ fromTcp # <<>> /\ m.type = "STATUS"
      /\ UNCHANGED <<ports, udpq, toUdp>>
      /\ \/ m.error # "EOK"
         \/ SetStatus(r.sock, "CONNECTED")
         \/ UNCHANGED socks
  BY DEF HandleTCPStatus
<1>2. r.sock \in Fd
  BY <1>1, RecordSocket, RecordTaken
<1>3. m.error = "EOK"
  <2>1. 1 \in DOMAIN fromTcp /\ m = fromTcp[1]
    BY <1>1 DEF TypeOK, PipesOK
  <2> QED
    BY <1>1, <2>1 DEF StackInv, TcpEnds
<1>4. \A k \in Fd :
        \/ socks'[k].conn = socks[k].conn /\ socks'[k].status = socks[k].status
        \/ socks'[k].conn = socks[k].conn /\ socks'[k].status \notin {"UNBOUND", "BOUND"}
  BY <1>1, <1>2, <1>3, SocksMoved
<1> QED
  BY <1>1, <1>4, QuietRequest

\* UDP never refuses a FORWARD, so no socket is closed under the application.
LEMMA UdpStatusForwards ==
    ASSUME TypeOK, Numbered, FwdInv, clist' = clist, StrayMarked, HandleUDPStatus
    PROVE  FwdInv'
<1> DEFINE r == Head(udpq)
           m == Head(fromUdp)
<1>1. /\ udpq # <<>> /\ fromUdp # <<>> /\ m.type = "STATUS" /\ udpq' = Tail(udpq)
      /\ UNCHANGED <<ports, toUdp>>
      /\ \/ r.type \in {"FORWARD", "WRITE"} /\ StatusByDest(r.sock)
         \/ r.type = "FORWARD" /\ m.error # "EOK"
         \/ r.type = "CLOSE" /\ UNCHANGED socks
  BY DEF HandleUDPStatus
<1>2. m.error # "EOK" => r.type = "CLOSE"
  BY <1>1, OrderedPipes, AnswerTaken DEF Numbered, Fits
<1>3. /\ r.sock \in Fd
      /\ \A i \in DOMAIN udpq : i = 1 \/ \E j \in DOMAIN udpq' : udpq'[j] = udpq[i]
      /\ r = udpq[1]
  <2>1. r.sock \in Fd /\ r = udpq[1]
    BY <1>1, RecordSocket, RecordTaken
  <2>2. udpq \in Seq(RequestRecord) /\ DOMAIN udpq = 1..Len(udpq) /\ Len(udpq) \in Nat
    BY OrderedPipes
  <2>3. ASSUME NEW i \in DOMAIN udpq, i # 1
        PROVE  \E j \in DOMAIN udpq' : udpq'[j] = udpq[i]
    <3>1. i - 1 \in 1..(Len(udpq) - 1) /\ (i - 1) + 1 = i
      BY <2>2, <2>3
    <3>2. DOMAIN udpq' = 1..(Len(udpq) - 1) /\ udpq'[i - 1] = udpq[i]
      BY <1>1, <2>2, <3>1
    <3> QED
      BY <3>1, <3>2
  <2> QED
    BY <2>1, <2>3
<1>4. CASE r.type = "CLOSE" /\ UNCHANGED socks
  <2>1. \A k \in Fd : HasRecord(k) => HasRecord(k)'
    BY <1>3, <1>4 DEF HasRecord
  <2>2. strayClose => strayClose'
    BY DEF StrayMarked
  <2> QED
    BY <1>1, <1>4, <2>1, <2>2, QuietPipes, QuietKeeps
<1>5. CASE r.type \in {"FORWARD", "WRITE"} /\ StatusByDest(r.sock)
  <2>1. /\ socks'[r.sock].conn = socks[r.sock].conn
        /\ \/ socks'[r.sock].status = "CONNECTED"
           \/ socks'[r.sock].status = "BOUND" /\ socks'[r.sock].conn.dest = ANY
        /\ \A k \in Fd \ {r.sock} : socks'[k] = socks[k]
    BY <1>3, <1>5, SocksMoved DEF StatusByDest
  <2> HIDE DEF r
  <2>2. \A k \in Fd :
          \/ socks'[k].conn = socks[k].conn /\ socks'[k].status = socks[k].status
          \/ socks'[k].conn = socks[k].conn /\ socks'[k].status \notin {"UNBOUND", "BOUND"}
          \/ /\ socks'[k].conn = socks[k].conn
             /\ socks'[k].status = "BOUND" /\ socks'[k].conn.dest = ANY
    BY <2>1
  <2>3. \A k \in Fd : HasRecord(k) => HasRecord(k)' \/ socks'[k].status # "UNBOUND"
    BY <1>3, <2>1 DEF HasRecord
  <2>4. strayClose => strayClose'
    BY DEF StrayMarked
  <2> QED
    BY <1>1, <2>2, <2>3, <2>4, QuietPipes, QuietKeeps
<1> QED
  BY <1>1, <1>2, <1>4, <1>5

LEMMA UdpForwards ==
    ASSUME TypeOK, StackInv, Numbered, FwdInv, UNCHANGED <<sockVars, strayClose>>, UdpStep
    PROVE  FwdInv'
<1>1. UdpSockets'
  BY DEF FwdInv, UdpSockets, HasRecord, sockVars
<1>2. CASE ForwardDatagram \/ RejectDatagram \/ UdpIgnoreStatus \/ UdpWrite
  <2>1. /\ clist' = clist
        /\ \/ toUdp' = toUdp
           \/ toUdp # <<>> /\ toUdp' = Tail(toUdp) /\ Head(toUdp).type \in {"STATUS", "WRITE"}
    BY <1>2 DEF ForwardDatagram, RejectDatagram, UdpIgnoreStatus, UdpWrite, UdpRequest
  <2>2. /\ \A e : Asked("FORWARD", e)' <=> Asked("FORWARD", e)
        /\ \A e : Asked("CLOSE", e)' <=> Asked("CLOSE", e)
    BY <2>1, QuietPipes, AskedLess
  <2>3. Forwards => Forwards'
    BY <2>1, <2>2, ForwardsRest DEF sockVars
  <2> QED
    BY <1>1, <2>3 DEF FwdInv
<1>3. CASE UdpForward
  <2>1. Forwards => Forwards'
    BY <1>3, ForwardTaken DEF StackInv, Waiting, sockVars
  <2> QED
    BY <1>1, <2>1 DEF FwdInv
<1>4. CASE UdpClose
  <2>1. Forwards => Forwards'
    BY <1>4, CloseTaken DEF sockVars
  <2> QED
    BY <1>1, <2>1 DEF FwdInv
<1> QED
  BY <1>2, <1>3, <1>4 DEF UdpStep

LEMMA ConnectRemote == \A r \in Requests : r.type = "mCONNECT" => r.conn.dest \in Remotes
<1> SUFFICES ASSUME NEW r \in Requests, r.type = "mCONNECT" PROVE r.conn.dest \in Remotes
  OBVIOUS
<1>1. r \in minet_connect
  BY DEF Requests, minet_socket, minet_bind, minet_listen, minet_accept,
         minet_read, minet_write, minet_close, minet_recvfrom, minet_sendto, minet_modes, Slrr
<1>2. PICK fd \in Fd, d \in Remotes : r = Slrr("mCONNECT", fd, ANY, SlrrConn(ANY, d, NONE), 0)
  BY <1>1 DEF minet_connect
<1> QED
  BY <1>2 DEF Slrr, SlrrConn

LEMMA ForwardsNext ==
    ASSUME TypeOK, StackInv, Numbered, FwdInv, ConnectsOut, [Next]_vars
    PROVE  FwdInv' /\ ConnectsOut'
<1>1. CASE Sock
  <2>1. ConnectsOut'
    BY <1>1 DEF Sock, appVars, ConnectsOut
  <2>2. clist' = clist /\ StrayMarked
    BY <1>1 DEF Sock, StrayMarked
  <2> QED
    BY <1>1, <2>1, <2>2, RequestForwards, WriteForwards, TcpStatusForwards, UdpStatusForwards
       DEF Sock, SockStep, ProcessTCPMessage, ProcessUDPMessage
<1>2. CASE Udp
  BY <1>2, UdpForwards DEF Udp, appVars, ConnectsOut
<1>3. CASE Call \/ Return \/ Tcp \/ Datagram \/ Segment \/ UNCHANGED vars
  <2>1. UNCHANGED <<socks, ports, udpq, toUdp, clist, strayClose>>
    BY <1>3 DEF Call, Return, Tcp, Datagram, Segment, vars, sockVars, pipes
  <2>2. FwdInv'
    BY <2>1 DEF FwdInv, UdpSockets, HasRecord, Forwards, Entries, OneEntry, ForwardsAsked,
                ClosesAsked, Forwarded, HasPort, Fwd, Kept, Asked
  <2>3. ConnectsOut'
    <3>1. CASE Call
      BY <3>1, ConnectRemote DEF Call, ConnectsOut
    <3>2. CASE Return
      BY <3>2 DEF Return, ConnectsOut
    <3>3. CASE Tcp \/ Datagram \/ Segment \/ UNCHANGED vars
      BY <3>3 DEF Tcp, Datagram, Segment, vars, appVars, ConnectsOut
    <3> QED
      BY <1>3, <3>1, <3>2, <3>3
  <2> QED
    BY <2>2, <2>3
<1> QED
  BY <1>1, <1>2, <1>3 DEF Next

LEMMA ForwardsFirst == Init => FwdInv /\ ConnectsOut
<1> SUFFICES ASSUME Init PROVE FwdInv /\ ConnectsOut
  OBVIOUS
<1>1. /\ call = NONE /\ clist = <<>> /\ toUdp = <<>>
      /\ \A fd \in Fd : socks[fd].conn = Unbound
  BY DEF Init, SockInit, UdpInit, Free
<1>2. \A c : ~ Fwd(c) /\ \A type : ~ Asked(type, c)
  BY <1>1 DEF Fwd, Asked
<1>3. \A fd \in Fd : socks[fd].conn.protocol # "udp"
  BY <1>1, StackAssumption DEF Unbound
<1>4. UdpSockets /\ ConnectsOut
  BY <1>1, <1>3 DEF UdpSockets, ConnectsOut
<1>5. Entries /\ OneEntry
  BY <1>1, <1>2 DEF Entries, OneEntry
<1>6. ForwardsAsked /\ ClosesAsked /\ Forwarded
  BY <1>2, <1>3 DEF ForwardsAsked, ClosesAsked, Forwarded, HasPort
<1> QED
  BY <1>4, <1>5, <1>6 DEF FwdInv, Forwards

\* Until a close of an unbound socket, the forwards of UDP are the bound UDP
\* sockets of sock, up to requests on their way, however many sockets, ports
\* and datagrams there are.
THEOREM ForwardsInPlace == CloseEnds /\ Spec => []ForwardInPlace
<1> SUFFICES ASSUME CloseEnds PROVE Spec => []ForwardInPlace
  OBVIOUS
<1>1. TypeOK /\ StackInv /\ Numbered /\ FwdInv /\ ConnectsOut /\ [Next]_vars => (FwdInv /\ ConnectsOut)'
  BY ForwardsNext
<1>2. TypeOK /\ FwdInv => ForwardInPlace
  <2> SUFFICES ASSUME TypeOK, Forwards PROVE ForwardInPlace
    BY DEF FwdInv, ForwardInPlace
  <2>1. \A fd \in Fd : HasPort(fd) => Asked("FORWARD", socks[fd].conn) \/ Fwd(socks[fd].conn)
    BY DEF Forwards, Forwarded
  <2>2. \A i \in DOMAIN clist : Kept(clist[i].conn)
    BY FwdTyped DEF Forwards, Entries, Fwd
  <2> QED
    BY <2>1, <2>2 DEF ForwardInPlace, HasPort, Fwd, Kept
<1> QED
  BY <1>1, <1>2, ForwardsFirst, StackInvariant, NumberedAlways, PTL DEF Spec
=============================================================================
