----------------------------- MODULE LinkProof -----------------------------
(***************************************************************************)
(* Proofs about BrokerLink: its inductive invariants, and the safety       *)
(* properties that follow from them, for arenas, pipes and programs of any *)
(* size.                                                                   *)
(***************************************************************************)
EXTENDS LinkInv, SeqLemmas

-----------------------------------------------------------------------------
(* What one more and one less does to the matching of calls with tickets.  *)

LEMMA AppendProps ==
  ASSUME NEW S, NEW q \in Seq(S), NEW e \in S
  PROVE  /\ Len(q) \in Nat /\ Append(q, e) \in Seq(S)
         /\ Len(Append(q, e)) = Len(q) + 1
         /\ \A i \in 1 .. Len(q) : Append(q, e)[i] = q[i]
         /\ Append(q, e)[Len(q) + 1] = e
         /\ Append(q, e) # <<>>
BY AppendProperties

LEMMA EmptyProps ==
  ASSUME NEW f, Len(f) \in Nat, NEW k \in Nat, NEW A
  PROVE  /\ Len(<<>>) = 0 /\ Ops(<<>>, A) /\ Unnumbered(<<>>)
         /\ k <= Len(f) => Matches(<<>>, f, k)
BY DEF Ops, Unnumbered, Matches

\* Taking the oldest message, and the oldest ticket, away.
LEMMA MatchesTail ==
  ASSUME NEW S, NEW q \in Seq(S), q # <<>>, NEW f, Len(f) \in Nat,
         NEW k \in Nat, Matches(q, f, k)
  PROVE  /\ Head(q).seq = f[k + 1] /\ k + 1 <= Len(f)
         /\ Matches(Tail(q), f, k + 1)
<1>1. /\ Len(q) \in Nat \ {0} /\ Head(q) = q[1]
      /\ Len(Tail(q)) = Len(q) - 1
      /\ \A i \in 1 .. Len(q) - 1 : Tail(q)[i] = q[i + 1]
  BY TailProps
<1>2. k + Len(q) <= Len(f) /\ \A i \in 1 .. Len(q) : q[i].seq = f[k + i]
  BY DEF Matches
<1>3. ASSUME NEW i \in 1 .. Len(Tail(q))
      PROVE  Tail(q)[i].seq = f[(k + 1) + i]
  <2>1. i + 1 \in 1 .. Len(q) /\ k + (i + 1) = (k + 1) + i
        /\ Tail(q)[i] = q[i + 1]
    BY <1>1
  <2> QED
    BY <1>2, <2>1
<1> QED
  BY <1>1, <1>2, <1>3 DEF Matches

LEMMA MatchesDrop ==
  ASSUME NEW T, NEW f \in Seq(T), f # <<>>, NEW q, Len(q) \in Nat,
         NEW k \in Nat \ {0}, Matches(q, f, k)
  PROVE  Matches(q, Tail(f), k - 1)
<1>1. /\ Len(f) \in Nat \ {0} /\ Len(Tail(f)) = Len(f) - 1
      /\ \A i \in 1 .. Len(f) - 1 : Tail(f)[i] = f[i + 1]
  BY TailProps
<1>2. k + Len(q) <= Len(f) /\ \A i \in 1 .. Len(q) : q[i].seq = f[k + i]
  BY DEF Matches
<1>3. ASSUME NEW i \in 1 .. Len(q)
      PROVE  q[i].seq = Tail(f)[(k - 1) + i]
  <2>1. /\ (k - 1) + i \in 1 .. Len(f) - 1
        /\ ((k - 1) + i) + 1 = k + i
    BY <1>1, <1>2
  <2> QED
    BY <1>1, <1>2, <2>1
<1> QED
  BY <1>1, <1>2, <1>3 DEF Matches

\* A message for the next ticket; a ticket more.
LEMMA MatchesAppend ==
  ASSUME NEW S, NEW q \in Seq(S), NEW e \in S, NEW f, Len(f) \in Nat,
         NEW k \in Nat, Matches(q, f, k),
         k + Len(q) + 1 <= Len(f), e.seq = f[k + Len(q) + 1]
  PROVE  Matches(Append(q, e), f, k)
<1>1. /\ Len(q) \in Nat /\ Len(Append(q, e)) = Len(q) + 1
      /\ \A i \in 1 .. Len(q) : Append(q, e)[i] = q[i]
      /\ Append(q, e)[Len(q) + 1] = e
  BY AppendProps
<1>2. \A i \in 1 .. Len(q) : q[i].seq = f[k + i]
  BY DEF Matches
<1>3. ASSUME NEW i \in 1 .. Len(q) + 1
      PROVE  Append(q, e)[i].seq = f[k + i]
  <2>1. CASE i \in 1 .. Len(q)
    BY <1>1, <1>2, <2>1
  <2>2. CASE i = Len(q) + 1
    BY <1>1, <2>2
  <2> QED
    BY <1>1, <2>1, <2>2
<1> QED
  BY <1>1, <1>3 DEF Matches

LEMMA MatchesGrow ==
  ASSUME NEW T, NEW f \in Seq(T), NEW t \in T, NEW q, Len(q) \in Nat,
         NEW k \in Nat, Matches(q, f, k)
  PROVE  Matches(q, Append(f, t), k)
<1>1. /\ Len(f) \in Nat /\ Len(Append(f, t)) = Len(f) + 1
      /\ \A i \in 1 .. Len(f) : Append(f, t)[i] = f[i]
  BY AppendProps
<1>2. k + Len(q) <= Len(f) /\ \A i \in 1 .. Len(q) : q[i].seq = f[k + i]
  BY DEF Matches
<1>3. ASSUME NEW i \in 1 .. Len(q)
      PROVE  q[i].seq = Append(f, t)[k + i]
  <2>1. k + i \in 1 .. Len(f)
    BY <1>1, <1>2
  <2> QED
    BY <1>1, <1>2, <2>1
<1> QED
  BY <1>1, <1>2, <1>3 DEF Matches

\* The same for the messages' kinds.
LEMMA KindsTail ==
  ASSUME NEW S, NEW q \in Seq(S), q # <<>>, NEW A
  PROVE  /\ Ops(q, A) => Head(q).op \in A /\ Ops(Tail(q), A)
         /\ Unnumbered(q) => Head(q).seq = -1 /\ Unnumbered(Tail(q))
<1>1. /\ Len(q) \in Nat \ {0} /\ Head(q) = q[1]
      /\ Len(Tail(q)) = Len(q) - 1
      /\ \A i \in 1 .. Len(q) - 1 : Tail(q)[i] = q[i + 1]
  BY TailProps
<1>2. ASSUME NEW i \in 1 .. Len(Tail(q))
      PROVE  i + 1 \in 1 .. Len(q) /\ Tail(q)[i] = q[i + 1]
  BY <1>1
<1>3. 1 \in 1 .. Len(q)
  BY <1>1
<1>4. ASSUME Ops(q, A)
      PROVE  Head(q).op \in A /\ Ops(Tail(q), A)
  BY <1>1, <1>2, <1>3, <1>4 DEF Ops
<1>5. ASSUME Unnumbered(q)
      PROVE  Head(q).seq = -1 /\ Unnumbered(Tail(q))
  BY <1>1, <1>2, <1>3, <1>5 DEF Unnumbered
<1> QED
  BY <1>4, <1>5

LEMMA KindsAppend ==
  ASSUME NEW S, NEW q \in Seq(S), NEW e \in S, NEW A
  PROVE  /\ Ops(q, A) /\ e.op \in A => Ops(Append(q, e), A)
         /\ Unnumbered(q) /\ e.seq = -1 => Unnumbered(Append(q, e))
<1>1. /\ Len(q) \in Nat /\ Len(Append(q, e)) = Len(q) + 1
      /\ \A i \in 1 .. Len(q) : Append(q, e)[i] = q[i]
      /\ Append(q, e)[Len(q) + 1] = e
  BY AppendProps
<1>2. ASSUME NEW i \in 1 .. Len(Append(q, e))
      PROVE  \/ i \in 1 .. Len(q) /\ Append(q, e)[i] = q[i]
             \/ Append(q, e)[i] = e
  BY <1>1
<1>3. ASSUME Ops(q, A), e.op \in A
      PROVE  Ops(Append(q, e), A)
  BY <1>2, <1>3 DEF Ops
<1>4. ASSUME Unnumbered(q), e.seq = -1
      PROVE  Unnumbered(Append(q, e))
  BY <1>2, <1>4 DEF Unnumbered
<1> QED
  BY <1>3, <1>4

LEMMA GrowsMore ==
  ASSUME NEW T \in SUBSET Int, NEW f \in Seq(T), NEW top \in Int,
         NEW more \in Int, Grows(f, top), top <= more
  PROVE  Grows(f, more)
<1>1. \A i \in 1 .. Len(f) : f[i] \in Int
  <2>1. \A i \in 1 .. Len(f) : f[i] \in T
    OBVIOUS
  <2> QED
    BY <2>1
<1>2. \A i \in 1 .. Len(f) : f[i] < top
  BY DEF Grows
<1>3. \A i \in 1 .. Len(f) : f[i] < more
  BY <1>1, <1>2
<1> QED
  BY <1>3 DEF Grows

LEMMA GrowsTail ==
  ASSUME NEW T, NEW f \in Seq(T), f # <<>>, NEW top, Grows(f, top)
  PROVE  Grows(Tail(f), top)
<1>1. /\ Len(f) \in Nat \ {0} /\ Len(Tail(f)) = Len(f) - 1
      /\ \A i \in 1 .. Len(f) - 1 : Tail(f)[i] = f[i + 1]
  BY TailProps
<1>2. /\ \A i \in 1 .. Len(f) : f[i] < top
      /\ \A i, j \in 1 .. Len(f) : i < j => f[i] < f[j]
  BY DEF Grows
<1>3. ASSUME NEW i \in 1 .. Len(Tail(f))
      PROVE  i + 1 \in 1 .. Len(f) /\ Tail(f)[i] = f[i + 1] /\ i \in Int
  BY <1>1
<1>4. \A i \in 1 .. Len(Tail(f)) : Tail(f)[i] < top
  BY <1>2, <1>3
<1>5. ASSUME NEW i \in 1 .. Len(Tail(f)), NEW j \in 1 .. Len(Tail(f)), i < j
      PROVE  Tail(f)[i] < Tail(f)[j]
  <2>1. i + 1 < j + 1
    BY <1>3, <1>5
  <2> QED
    BY <1>2, <1>3, <2>1
<1> QED
  BY <1>4, <1>5 DEF Grows

\* A ticket above all of them.
LEMMA GrowsAppend ==
  ASSUME NEW T \in SUBSET Int, NEW f \in Seq(T), NEW t \in T,
         NEW top \in Int, NEW more \in Int,
         Grows(f, top), \A i \in 1 .. Len(f) : f[i] < t,
         top <= more, t < more
  PROVE  Grows(Append(f, t), more)
<1>1. /\ Len(f) \in Nat /\ Len(Append(f, t)) = Len(f) + 1
      /\ \A i \in 1 .. Len(f) : Append(f, t)[i] = f[i]
      /\ Append(f, t)[Len(f) + 1] = t
  BY AppendProps
<1>2. /\ \A i \in 1 .. Len(f) : f[i] < more
      /\ \A i, j \in 1 .. Len(f) : i < j => f[i] < f[j]
  BY GrowsMore DEF Grows
<1>3. ASSUME NEW i \in 1 .. Len(f) + 1
      PROVE  /\ i \in 1 .. Len(f) \/ i = Len(f) + 1
             /\ Append(f, t)[i] < more
  <2>1. i \in 1 .. Len(f) \/ i = Len(f) + 1
    BY <1>1
  <2> QED
    BY <1>1, <1>2, <2>1
<1>4. ASSUME NEW i \in 1 .. Len(f) + 1, NEW j \in 1 .. Len(f) + 1, i < j
      PROVE  Append(f, t)[i] < Append(f, t)[j]
  <2>1. i \in 1 .. Len(f) /\ (j \in 1 .. Len(f) \/ j = Len(f) + 1)
    BY <1>1, <1>4
  <2> QED
    BY <1>1, <1>2, <1>4, <2>1
<1> QED
  BY <1>1, <1>3, <1>4 DEF Grows

\* The oldest call in flight has been replied to.
LEMMA AlignedDrop ==
  ASSUME NEW g, NEW p \in Nat, NEW T, NEW f \in Seq(T), f # <<>>,
         NEW k \in Nat \ {0}, NEW top, Grows(f, top),
         Aligned(g, p, f, k), Older(g, p, f)
  PROVE  Aligned(g, p + 1, Tail(f), k - 1) /\ Older(g, p + 1, Tail(f))
<1>1. /\ Len(f) \in Nat \ {0} /\ Len(Tail(f)) = Len(f) - 1
      /\ \A i \in 1 .. Len(f) - 1 : Tail(f)[i] = f[i + 1]
  BY TailProps
<1>2. /\ k <= Len(f) /\ p + k = Len(g)
      /\ \A i \in 1 .. k : g[p + i] = f[i]
  BY DEF Aligned
<1>3. ASSUME NEW i \in 1 .. k - 1
      PROVE  g[(p + 1) + i] = Tail(f)[i]
  <2>1. /\ i + 1 \in 1 .. k /\ p + (i + 1) = (p + 1) + i
        /\ i \in 1 .. Len(f) - 1
    BY <1>1, <1>2
  <2> QED
    BY <1>1, <1>2, <2>1
<1>4. ASSUME NEW n \in 1 .. p + 1, NEW i \in 1 .. Len(f) - 1
      PROVE  g[n] < Tail(f)[i]
  <2>1. /\ i + 1 \in 1 .. Len(f) /\ 1 \in 1 .. Len(f) /\ 1 < i + 1
        /\ Tail(f)[i] = f[i + 1]
    BY <1>1
  <2>2. CASE n \in 1 .. p
    BY <2>1, <2>2 DEF Older
  <2>3. CASE n = p + 1
    <3>1. 1 \in 1 .. k
      OBVIOUS
    <3>2. g[n] = f[1]
      BY <1>2, <2>3, <3>1
    <3> QED
      BY <2>1, <3>2 DEF Grows
  <2>4. n \in 1 .. p \/ n = p + 1
    OBVIOUS
  <2> QED
    BY <2>2, <2>3, <2>4
<1>5. k - 1 <= Len(Tail(f)) /\ (p + 1) + (k - 1) = Len(g)
  BY <1>1, <1>2
<1> QED
  BY <1>1, <1>3, <1>4, <1>5 DEF Aligned, Older

\* The client sends a call.
LEMMA AlignedGrow ==
  ASSUME NEW g, Len(g) \in Nat, NEW p \in Nat, NEW T, NEW f \in Seq(T),
         NEW t \in T, NEW k \in Nat,
         Aligned(g, p, f, k), Older(g, p, f), Grows(g, t)
  PROVE  Aligned(g, p, Append(f, t), k) /\ Older(g, p, Append(f, t))
<1>1. /\ Len(f) \in Nat /\ Len(Append(f, t)) = Len(f) + 1
      /\ \A i \in 1 .. Len(f) : Append(f, t)[i] = f[i]
      /\ Append(f, t)[Len(f) + 1] = t
  BY AppendProps
<1>2. /\ k <= Len(f) /\ p + k = Len(g)
      /\ \A i \in 1 .. k : g[p + i] = f[i]
  BY DEF Aligned
<1>3. ASSUME NEW i \in 1 .. k
      PROVE  g[p + i] = Append(f, t)[i]
  <2>1. i \in 1 .. Len(f)
    BY <1>1, <1>2
  <2> QED
    BY <1>1, <1>2, <2>1
<1>4. ASSUME NEW n \in 1 .. p, NEW i \in 1 .. Len(f) + 1
      PROVE  g[n] < Append(f, t)[i]
  <2>1. CASE i \in 1 .. Len(f)
    BY <1>1, <2>1 DEF Older
  <2>2. CASE i = Len(f) + 1
    <3>1. n \in 1 .. Len(g)
      BY <1>2
    <3> QED
      BY <1>1, <2>2, <3>1 DEF Grows
  <2>3. i \in 1 .. Len(f) \/ i = Len(f) + 1
    BY <1>1
  <2> QED
    BY <2>1, <2>2, <2>3
<1> QED
  BY <1>1, <1>2, <1>3, <1>4 DEF Aligned, Older

\* The reader submits the next call.
LEMMA AlignedAppend ==
  ASSUME NEW T, T \subseteq Int, NEW g \in Seq(Int), NEW p \in Nat,
         NEW f \in Seq(T), NEW k \in Nat, NEW top \in Int,
         Aligned(g, p, f, k), Older(g, p, f), Grows(g, top), Grows(f, top),
         k + 1 <= Len(f)
  PROVE  /\ Aligned(Append(g, f[k + 1]), p, f, k + 1)
         /\ Older(Append(g, f[k + 1]), p, f)
         /\ Grows(Append(g, f[k + 1]), top)
<1> DEFINE t == f[k + 1]
<1>1. k + 1 \in 1 .. Len(f) /\ t \in T /\ t \in Int /\ Len(f) \in Nat
  <2>1. Len(f) \in Nat /\ \A i \in 1 .. Len(f) : f[i] \in T
    OBVIOUS
  <2>2. k + 1 \in 1 .. Len(f)
    BY <2>1
  <2> QED
    BY <2>1, <2>2
<1>2. /\ Len(g) \in Nat /\ Len(Append(g, t)) = Len(g) + 1
      /\ \A i \in 1 .. Len(g) : Append(g, t)[i] = g[i]
      /\ Append(g, t)[Len(g) + 1] = t
  BY <1>1, AppendProps
<1>3. /\ p + k = Len(g) /\ \A i \in 1 .. k : g[p + i] = f[i]
  BY DEF Aligned
<1>4. ASSUME NEW i \in 1 .. k + 1
      PROVE  Append(g, t)[p + i] = f[i]
  <2>1. CASE i \in 1 .. k
    <3>1. p + i \in 1 .. Len(g)
      BY <1>2, <1>3, <2>1
    <3> QED
      BY <1>2, <1>3, <2>1, <3>1
  <2>2. CASE i = k + 1
    <3>1. p + i = Len(g) + 1
      <4>1. p + k = Len(g)
        BY <1>3
      <4> QED
        BY <2>2, <4>1
    <3> QED
      BY <1>2, <2>2, <3>1
  <2>3. i \in 1 .. k \/ i = k + 1
    OBVIOUS
  <2> QED
    BY <2>1, <2>2, <2>3
<1>5. ASSUME NEW n \in 1 .. p, NEW i \in 1 .. Len(f)
      PROVE  Append(g, t)[n] < f[i]
  <2>1. n \in 1 .. Len(g)
    BY <1>2, <1>3
  <2> QED
    BY <1>2, <2>1 DEF Older
<1>6. ASSUME NEW n \in 1 .. Len(g)
      PROVE  g[n] < t
  <2>1. CASE n <= p
    <3>1. n \in 1 .. p
      BY <2>1
    <3> QED
      BY <1>1, <3>1 DEF Older
  <2>2. CASE n > p
    <3>1. /\ n - p \in 1 .. k /\ p + (n - p) = n /\ n - p < k + 1
          /\ n - p \in 1 .. Len(f)
      BY <1>1, <1>3, <2>2
    <3>2. g[n] = f[n - p]
      BY <1>3, <3>1
    <3> QED
      BY <1>1, <3>1, <3>2 DEF Grows
  <2>3. n <= p \/ n > p
    OBVIOUS
  <2> QED
    BY <2>1, <2>2, <2>3
<1>7. t < top
  BY <1>1 DEF Grows
<1>8. Grows(Append(g, t), top)
  <2> HIDE DEF t
  <2>1. Int \in SUBSET Int /\ top <= top
    OBVIOUS
  <2> QED
    BY <1>1, <1>6, <1>7, <2>1, GrowsAppend
<1>9. p + (k + 1) = Len(Append(g, t))
  BY <1>2, <1>3
<1> QED
  BY <1>2, <1>4, <1>5, <1>8, <1>9 DEF Aligned, Older

\* Replies that are read and sent.
LEMMA AnsweredTail ==
  ASSUME NEW S, NEW q \in Seq(S), q # <<>>, NEW st, NEW p \in Nat,
         Finished(st, p), Answered(q, st, p)
  PROVE  Finished(st, p + 1) /\ Answered(Tail(q), st, p + 1)
<1>1. /\ Len(q) \in Nat \ {0} /\ Len(Tail(q)) = Len(q) - 1
      /\ \A i \in 1 .. Len(q) - 1 : Tail(q)[i] = q[i + 1]
  BY TailProps
<1>2. 1 \in 1 .. Len(q)
  BY <1>1
<1>3. st[<<Me, p + 1>>] \notin Pending
  BY <1>2 DEF Answered
<1>4. ASSUME NEW n \in Numbers, n <= p + 1
      PROVE  st[<<Me, n>>] \notin Pending
  <2>1. n \in Int
    BY DEF Numbers
  <2>2. n <= p \/ n = p + 1
    BY <1>4, <2>1
  <2> QED
    BY <1>3, <2>2 DEF Finished
<1>5. ASSUME NEW i \in 1 .. Len(Tail(q))
      PROVE  /\ st[<<Me, (p + 1) + i>>] \notin Pending
             /\ Tail(q)[i].op = st[<<Me, (p + 1) + i>>]
  <2>1. i + 1 \in 1 .. Len(q) /\ p + (i + 1) = (p + 1) + i
        /\ Tail(q)[i] = q[i + 1]
    BY <1>1
  <2>2. /\ st[<<Me, p + (i + 1)>>] \notin Pending
        /\ q[i + 1].op = st[<<Me, p + (i + 1)>>]
    BY <2>1 DEF Answered
  <2> QED
    BY <2>1, <2>2
<1> QED
  BY <1>4, <1>5 DEF Finished, Answered

LEMMA AnsweredAppend ==
  ASSUME NEW S, NEW q \in Seq(S), NEW e \in S, NEW st, NEW p \in Nat,
         Answered(q, st, p),
         st[<<Me, p + Len(q) + 1>>] \notin Pending,
         e.op = st[<<Me, p + Len(q) + 1>>]
  PROVE  Answered(Append(q, e), st, p)
<1>1. /\ Len(q) \in Nat /\ Len(Append(q, e)) = Len(q) + 1
      /\ \A i \in 1 .. Len(q) : Append(q, e)[i] = q[i]
      /\ Append(q, e)[Len(q) + 1] = e
  BY AppendProps
<1>2. ASSUME NEW i \in 1 .. Len(q) + 1
      PROVE  /\ st[<<Me, p + i>>] \notin Pending
             /\ Append(q, e)[i].op = st[<<Me, p + i>>]
  <2>1. CASE i \in 1 .. Len(q)
    BY <1>1, <2>1 DEF Answered
  <2>2. CASE i = Len(q) + 1
    <3>1. p + i = p + Len(q) + 1
      BY <1>1, <2>2
    <3> QED
      BY <1>1, <2>2, <3>1
  <2>3. i \in 1 .. Len(q) \/ i = Len(q) + 1
    BY <1>1
  <2> QED
    BY <2>1, <2>2, <2>3
<1> QED
  BY <1>1, <1>2 DEF Answered

-----------------------------------------------------------------------------
\* What the lengths and the counts are worth.
Lengths ==
  /\ Len(toClient) \in Nat /\ Len(toBroker) \in Nat
  /\ Len(replies) \in Nat /\ Len(inflight) \in Nat
  /\ Len(calls) \in Nat
  /\ Replied \in Nat /\ Taken \in Nat /\ Held \in Nat /\ Read \in Nat
  /\ Submitted \in Nat /\ Past \in Int
  /\ MaxCalls \in Nat /\ Depth \in Nat \ {0}
  /\ Replied = Len(toClient)
  /\ spc = "send" => Taken = Replied + 1
  /\ spc # "send" => Taken = Replied
  /\ Held = Taken + Len(replies)
  /\ rpc \in {"run", "put"} => Read = Held + 1
  /\ rpc \notin {"run", "put"} => Read = Held
  /\ rpc = "put" => Submitted = Held + 1
  /\ rpc # "put" => Submitted = Held
  /\ cpc # "answer" => Past = Len(calls) - Submitted
  /\ cpc = "answer" => Past = Len(calls)
  /\ Replied <= Taken /\ Taken <= Held
  /\ Held <= Submitted /\ Submitted <= Read

LEMMA LengthProps == TypeOK => Lengths
<1> SUFFICES ASSUME TypeOK PROVE Lengths
  OBVIOUS
<1>1. /\ Len(toClient) \in Nat /\ Len(toBroker) \in Nat
      /\ Len(replies) \in Nat /\ Len(inflight) \in Nat
      /\ Len(calls) \in Nat
  BY DEF TypeOK
<1>2. MaxCalls \in Nat /\ Depth \in Nat \ {0}
  BY LinkAssumption DEF LinkAssumption
<1>3. Replied \in Nat /\ Taken \in Nat
  BY <1>1 DEF Replied, Taken
<1>4. Held \in Nat
  BY <1>1, <1>3 DEF Held
<1>5. Read \in Nat /\ Submitted \in Nat
  BY <1>4 DEF Read, Submitted
<1>6. /\ Past \in Int
      /\ cpc # "answer" => Past = Len(calls) - Submitted
      /\ cpc = "answer" => Past = Len(calls)
  BY <1>1, <1>5 DEF Past
<1>7. /\ Replied = Len(toClient) /\ Held = Taken + Len(replies)
      /\ spc = "send" => Taken = Replied + 1
      /\ spc # "send" => Taken = Replied
  BY <1>1, <1>3 DEF Replied, Held, Taken
<1>8. /\ rpc \in {"run", "put"} => Read = Held + 1
      /\ rpc \notin {"run", "put"} => Read = Held
      /\ rpc = "put" => Submitted = Held + 1
      /\ rpc # "put" => Submitted = Held
  BY <1>4 DEF Read, Submitted
<1>9. Replied <= Taken /\ Taken <= Held
  BY <1>1, <1>3, <1>4, <1>7
<1>10. Held <= Submitted /\ Submitted <= Read
  BY <1>4 DEF Read, Submitted
<1> QED
  BY <1>1, <1>2, <1>3, <1>4, <1>5, <1>6, <1>7, <1>8, <1>9, <1>10 DEF Lengths

LEMMA LengthPropsNext == TypeOK' => Lengths'
BY LengthProps, PTL

-----------------------------------------------------------------------------
(* The client.                                                             *)

\* What the client does by itself moves no message.
Inside ==
  \/ Submit \/ TooLarge \/ Collected \/ Fill
  \/ (\E t \in Tickets : Wait(t)) \/ (\E op \in {"stats", "bye"} : Drain(op))

LEMMA InsideStep == ASSUME IInv, Inside PROVE IInv'
<1>1. /\ cpc \notin {"gone", "answer"} /\ cpc' \notin {"gone", "answer"}
      /\ UNCHANGED <<inflight, results, toBroker, toClient, rpc, msg, mine,
                     mapped, calls, spc, item, replies, status, sent,
                     healthy, loaded>>
  BY DEF Inside, Submit, TooLarge, Collected, Fill, Wait, Drain, reader,
         sender, device
<1>2. /\ seq \in 0 .. MaxCalls /\ MaxCalls \in Nat
      /\ arena \in [0 .. Depth - 1 -> Contents]
  BY LinkAssumption DEF IInv, TypeOK, LinkAssumption
<1>3. TypeOK'
  <2>1. /\ seq' \in 0 .. MaxCalls /\ want' \in Int
        /\ ask' \in {"stats", "bye"}
        /\ cpc' \in {"idle", "room", "send", "wait", "drain"}
    BY <1>2 DEF Inside, Submit, TooLarge, Collected, Fill, Wait, Drain,
       IInv, TypeOK, Tickets
  <2>2. arena' \in [0 .. Depth - 1 -> Contents]
    <3>1. CASE Fill
      <4>1. want \in Int
        BY DEF IInv, TypeOK
      <4>2. Input(want) \in Contents
        BY <4>1 DEF Input, Contents
      <4> QED
        BY <1>2, <3>1, <4>2 DEF Fill
    <3>2. CASE ~ Fill
      BY <1>2, <3>2 DEF Inside, Submit, TooLarge, Collected, Wait, Drain
    <3> QED
      BY <3>1, <3>2
  <2> QED
    BY <1>1, <2>1, <2>2 DEF IInv, TypeOK
<1>4. ServiceInv'
  BY <1>1 DEF IInv, ServiceInv, Waiting
<1>5. PathInv' /\ AskInv'
  BY <1>1 DEF IInv, PathInv, AskInv, Calling, Alive, Replied, Taken, Held,
     Read
<1>6. Top' \in {Top, Top + 1} /\ Top \in Int
      /\ (Filling' => want' = seq' - 1 /\ want' \in Tickets)
  <2>1. Filling => want = seq - 1 /\ want \in Tickets
    BY <1>1 DEF IInv, TicketInv, Alive
  <2> QED
    BY <1>2, <2>1 DEF Inside, Submit, TooLarge, Collected, Fill, Wait, Drain,
       Filling, Top, Tickets
<1>7. TicketInv'
  <2>1. /\ calls \in Seq(Int) /\ inflight \in Seq(Tickets)
        /\ Tickets \in SUBSET Int /\ Int \in SUBSET Int
    BY <1>2 DEF IInv, TypeOK, Tickets
  <2>2. Grows(calls, Top) /\ Grows(inflight, Top)
    BY <1>1 DEF IInv, TicketInv, Alive
  <2>3. Top' \in Int /\ Top <= Top'
    BY <1>6
  <2>4. Grows(calls, Top') /\ Grows(inflight, Top')
    BY <1>6, <2>1, <2>2, <2>3, GrowsMore
  <2> QED
    BY <1>1, <1>6, <2>4 DEF TicketInv
<1>8. CallInv'
  BY <1>1 DEF IInv, CallInv, Calling, Alive, Past, Submitted, Held, Taken,
     Replied, Waiting
<1> QED
  BY <1>3, <1>4, <1>5, <1>7, <1>8 DEF IInv

\* The reply is to the oldest call in flight.
LEMMA ReplyProps ==
  ASSUME IInv, ReceiveOne
  PROVE  /\ Calling /\ toClient # <<>> /\ inflight # <<>>
         /\ Head(toClient).seq = Head(inflight) /\ Replied # 0
         /\ Head(inflight) = inflight[1] /\ Head(toClient) = toClient[1]
         /\ inflight[1] \in Tickets
         /\ results' = [results EXCEPT ![inflight[1]] =
              IF toClient[1].op = "ok" THEN arena[Slot(inflight[1])]
              ELSE Error]
         /\ toClient' = Tail(toClient) /\ inflight' = Tail(inflight)
         /\ UNCHANGED <<cpc, seq, want, ask, toBroker, arena, rpc, msg, mine,
                        mapped, calls, spc, item, replies, status, sent,
                        healthy, loaded>>
<1>1. /\ Calling /\ toClient # <<>>
      /\ toClient \in Seq(Messages(Statuses \cup Commands))
      /\ inflight \in Seq(Tickets)
  BY DEF ReceiveOne, MustReceive, Calling, Alive, IInv, TypeOK
<1>2. Len(toClient) \in Nat \ {0} /\ Head(toClient) = toClient[1]
  BY <1>1, TailProps
<1>3. Len(inflight) \in Nat /\ Len(inflight) >= Len(toClient)
  <2>1. Len(inflight) = Read + Len(toBroker)
    BY <1>1 DEF IInv, PathInv
  <2>2. TypeOK
    BY DEF IInv
  <2>3. Replied <= Taken /\ Taken <= Held
        /\ Held <= Submitted /\ Submitted <= Read
    BY <2>2, LengthProps DEF Lengths
  <2>4. Len(toClient) \in Nat /\ Len(inflight) \in Nat
        /\ Replied = Len(toClient) /\ Len(toBroker) \in Nat
        /\ Taken \in Nat /\ Held \in Nat /\ Read \in Nat
        /\ Submitted \in Nat
    BY <2>2, LengthProps DEF Lengths
  <2> QED
    BY <2>1, <2>3, <2>4
<1>4. inflight # <<>> /\ 1 \in 1 .. Len(inflight)
  BY <1>2, <1>3
<1>5. Head(inflight) = inflight[1] /\ inflight[1] \in Tickets
  BY <1>1, <1>4, TailProps
<1>6. Head(toClient).seq = Head(inflight)
  <2>1. Matches(toClient, inflight, 0)
    BY <1>1 DEF IInv, PathInv
  <2>2. 0 \in Nat /\ Len(inflight) \in Nat /\ 0 + 1 = 1
    BY <1>3
  <2>3. Head(toClient).seq = inflight[0 + 1]
    BY <1>1, <2>1, <2>2, MatchesTail
  <2> QED
    BY <1>5, <2>2, <2>3
<1> QED
  BY <1>1, <1>2, <1>4, <1>5, <1>6
  DEF ReceiveOne, reader, sender, device, Replied

\* The sequences' types, apart from everything else.
LEMMA SeqTypes ==
  ASSUME TypeOK
  PROVE  /\ inflight \in Seq(Tickets) /\ calls \in Seq(Int)
         /\ toClient \in Seq(Messages(Statuses \cup Commands))
         /\ toBroker \in Seq(Messages({"run", "stats", "bye"}))
         /\ replies \in Seq(Messages(Commands))
         /\ msg \in Messages(Commands)
         /\ item \in Messages(Commands)
         /\ Tickets \in SUBSET Int /\ Int \in SUBSET Int
         /\ Tickets \subseteq Int
BY LinkAssumption DEF TypeOK, LinkAssumption, Tickets

\* A reply is read: every count, and the calls in flight, are one less.
LEMMA ReceiveStep == ASSUME IInv, ReceiveOne PROVE IInv'
<1>1. /\ Calling /\ toClient # <<>> /\ inflight # <<>> /\ Replied # 0
      /\ toClient' = Tail(toClient) /\ inflight' = Tail(inflight)
      /\ UNCHANGED <<cpc, seq, want, ask, toBroker, arena, rpc, msg, mine,
                     mapped, calls, spc, item, replies, status, sent,
                     healthy, loaded>>
  BY ReplyProps
<1>2. /\ inflight \in Seq(Tickets) /\ calls \in Seq(Int)
      /\ toClient \in Seq(Messages(Statuses \cup Commands))
      /\ toBroker \in Seq(Messages({"run", "stats", "bye"}))
      /\ replies \in Seq(Messages(Commands))
  BY SeqTypes DEF IInv
<1>3. /\ Len(Tail(inflight)) = Len(inflight) - 1
      /\ Tail(inflight) \in Seq(Tickets)
      /\ \A i \in 1 .. Len(inflight) - 1 :
           Tail(inflight)[i] = inflight[i + 1]
  BY <1>1, <1>2, TailProps
<1>4. /\ Len(Tail(toClient)) = Len(toClient) - 1
      /\ Tail(toClient) \in Seq(Messages(Statuses \cup Commands))
  BY <1>1, <1>2, TailProps
<1>5. TypeOK'
  <2>1. results' \in [Tickets -> Contents]
    <3>1. /\ results \in [Tickets -> Contents] /\ inflight[1] \in Tickets
          /\ results' = [results EXCEPT ![inflight[1]] =
               IF toClient[1].op = "ok" THEN arena[Slot(inflight[1])]
               ELSE Error]
      BY ReplyProps DEF IInv, TypeOK
    <3>2. Error \in Contents
      BY DEF Error, Contents
    <3>3. arena[Slot(inflight[1])] \in Contents
      <4>1. Slot(inflight[1]) \in 0 .. Depth - 1
        BY <3>1, LinkAssumption DEF LinkAssumption, Slot, Tickets
      <4> QED
        BY <4>1 DEF IInv, TypeOK
    <3> QED
      BY <3>1, <3>2, <3>3
  <2> QED
    BY <1>1, <1>3, <1>4, <2>1 DEF IInv, TypeOK
<1>6. Lengths /\ Lengths'
  BY <1>5, LengthProps, LengthPropsNext DEF IInv
<1>7. /\ spc' = spc /\ rpc' = rpc /\ cpc' = cpc /\ calls' = calls
      /\ replies' = replies /\ toBroker' = toBroker /\ item' = item
      /\ msg' = msg /\ status' = status /\ cpc # "answer"
  BY <1>1 DEF Calling
<1>8. PathInv /\ CallInv /\ TicketInv /\ Calling /\ Calling' /\ Alive /\ Alive'
  BY <1>1 DEF IInv, Calling, Alive
<1>9. /\ Replied' = Replied - 1 /\ Taken' = Taken - 1 /\ Held' = Held - 1
      /\ Submitted' = Submitted - 1 /\ Read' = Read - 1 /\ Past' = Past + 1
      /\ Replied \in Nat \ {0} /\ Taken \in Nat \ {0} /\ Held \in Nat \ {0}
      /\ Submitted \in Nat \ {0} /\ Read \in Nat \ {0} /\ Past \in Nat
  <2>1. Len(toClient') = Len(toClient) - 1 /\ Len(toClient) \in Nat
    BY <1>1, <1>2, <1>4
  <2>2. Replied' = Replied - 1 /\ Replied \in Nat \ {0}
    BY <1>1, <1>6, <2>1 DEF Lengths
  <2>3. Taken' = Taken - 1
    <3>1. /\ spc = "send" => Taken = Replied + 1
          /\ spc # "send" => Taken = Replied
          /\ spc' = "send" => Taken' = Replied' + 1
          /\ spc' # "send" => Taken' = Replied'
      BY <1>6 DEF Lengths
    <3> QED
      BY <1>7, <2>2, <3>1
  <2>4. Held' = Held - 1
    BY <1>6, <1>7, <2>3 DEF Lengths
  <2>5. Submitted' = Submitted - 1 /\ Read' = Read - 1
    <3>1. /\ rpc = "put" => Submitted = Held + 1
          /\ rpc # "put" => Submitted = Held
          /\ rpc' = "put" => Submitted' = Held' + 1
          /\ rpc' # "put" => Submitted' = Held'
          /\ rpc \in {"run", "put"} => Read = Held + 1
          /\ rpc \notin {"run", "put"} => Read = Held
          /\ rpc' \in {"run", "put"} => Read' = Held' + 1
          /\ rpc' \notin {"run", "put"} => Read' = Held'
          /\ Held \in Nat
      BY <1>6 DEF Lengths
    <3> QED
      BY <1>7, <2>4, <3>1
  <2>6. Past' = Past + 1 /\ Past \in Nat
    <3>1. /\ Past = Len(calls) - Submitted
          /\ Past' = Len(calls') - Submitted'
          /\ Submitted \in Nat /\ Len(calls) \in Nat /\ Past \in Int
      BY <1>6, <1>7 DEF Lengths
    <3>2. 0 <= Past
      BY <1>8 DEF CallInv
    <3> QED
      BY <1>7, <2>5, <3>1, <3>2
  <2>7. /\ Replied <= Taken /\ Taken <= Held /\ Held <= Submitted
        /\ Submitted <= Read /\ Taken \in Nat /\ Held \in Nat
        /\ Submitted \in Nat /\ Read \in Nat
    BY <1>6 DEF Lengths
  <2> QED
    BY <2>2, <2>3, <2>4, <2>5, <2>6, <2>7
<1>10. /\ Len(replies) \in Nat /\ Len(toBroker) \in Nat
       /\ Len(inflight) \in Nat /\ Held = Taken + Len(replies)
       /\ spc = "send" => Taken = Replied + 1
       /\ rpc \in {"run", "put"} => Read = Held + 1
  BY <1>6 DEF Lengths
<1>11. Len(inflight) = Read + Len(toBroker)
  BY <1>8 DEF PathInv
<1>12. ServiceInv'
  BY <1>1 DEF IInv, ServiceInv, Waiting
<1>13. PathInv'
  <2>1. Matches(Tail(toClient), Tail(inflight), 0)
    <3>1. Matches(toClient, inflight, 0) /\ 0 \in Nat /\ 0 + 1 = 1
      BY <1>8 DEF PathInv
    <3>2. Matches(Tail(toClient), inflight, 1)
      BY <1>1, <1>2, <1>10, <3>1, MatchesTail
    <3>3. Len(Tail(toClient)) \in Nat /\ 1 \in Nat \ {0} /\ 1 - 1 = 0
      BY <1>4
    <3>4. Matches(Tail(toClient), Tail(inflight), 1 - 1)
      BY <1>1, <1>2, <3>2, <3>3, MatchesDrop
    <3> QED
      BY <3>3, <3>4
  <2>2. Matches(replies, Tail(inflight), Taken - 1)
    <3>1. Matches(replies, inflight, Taken)
      BY <1>8 DEF PathInv
    <3> QED
      BY <1>1, <1>2, <1>9, <1>10, <3>1, MatchesDrop
  <2>3. Matches(toBroker, Tail(inflight), Read - 1)
    <3>1. Matches(toBroker, inflight, Read)
      BY <1>8 DEF PathInv
    <3> QED
      BY <1>1, <1>2, <1>9, <1>10, <3>1, MatchesDrop
  <2>4. spc = "send" => item.seq = Tail(inflight)[(Replied - 1) + 1]
    <3>1. spc = "send" => item.seq = inflight[Replied + 1]
      BY <1>8 DEF PathInv
    <3>2. Taken <= Len(inflight)
      BY <1>9, <1>10, <1>11, <1>6 DEF Lengths
    <3>3. spc = "send" => /\ (Replied - 1) + 1 \in 1 .. Len(inflight) - 1
                          /\ ((Replied - 1) + 1) + 1 = Replied + 1
      BY <1>9, <1>10, <3>2
    <3> QED
      BY <1>3, <3>1, <3>3
  <2>5. rpc \in {"run", "put"} =>
          msg.seq = Tail(inflight)[(Held - 1) + 1]
    <3>1. rpc \in {"run", "put"} => msg.seq = inflight[Held + 1]
      BY <1>8 DEF PathInv
    <3>2. rpc \in {"run", "put"} =>
            /\ (Held - 1) + 1 \in 1 .. Len(inflight) - 1
            /\ ((Held - 1) + 1) + 1 = Held + 1
      BY <1>9, <1>10, <1>11
    <3> QED
      BY <1>3, <3>1, <3>2
  <2>6. Len(Tail(inflight)) = (Read - 1) + Len(toBroker)
    BY <1>3, <1>9, <1>10, <1>11
  <2> QED
    BY <1>1, <1>7, <1>8, <1>9, <2>1, <2>2, <2>3, <2>4, <2>5, <2>6
    DEF PathInv
<1>14. AskInv'
  BY <1>7 DEF AskInv
<1>15. Top' = Top /\ Filling' = Filling
  BY <1>1 DEF Top, Filling
<1>16. Grows(inflight, Top) /\ Grows(calls, Top)
  BY <1>8 DEF TicketInv
<1>17. TicketInv'
  <2>1. Grows(Tail(inflight), Top)
    BY <1>1, <1>2, <1>16, GrowsTail
  <2> QED
    BY <1>1, <1>8, <1>15, <1>16, <2>1 DEF TicketInv
<1>18. CallInv'
  <2>1. /\ Older(calls, Past, inflight) /\ Finished(status, Past)
        /\ Aligned(calls, Past, inflight, Submitted)
        /\ Answered(toClient, status, Past)
    BY <1>8 DEF CallInv
  <2>2. /\ Aligned(calls, Past + 1, Tail(inflight), Submitted - 1)
        /\ Older(calls, Past + 1, Tail(inflight))
    BY <1>1, <1>2, <1>9, <1>16, <2>1, AlignedDrop
  <2>3. /\ Finished(status, Past + 1)
        /\ Answered(Tail(toClient), status, Past + 1)
    BY <1>1, <1>2, <1>9, <2>1, AnsweredTail
  <2> QED
    BY <1>1, <1>7, <1>8, <1>9, <2>2, <2>3 DEF CallInv
<1> QED
  BY <1>5, <1>12, <1>13, <1>14, <1>17, <1>18 DEF IInv

\* A call is sent: the calls in flight and those in the pipe are one more.
LEMMA SendStep == ASSUME IInv, Send PROVE IInv'
<1>1. /\ cpc = "send" /\ cpc' = "idle" /\ want' = -1
      /\ toBroker' = Append(toBroker, Run(want))
      /\ inflight' = Append(inflight, want)
      /\ UNCHANGED <<seq, ask, results, toClient, arena, rpc, msg, mine,
                     mapped, calls, spc, item, replies, status, sent,
                     healthy, loaded>>
  BY DEF Send, reader, sender, device
<1>2. /\ inflight \in Seq(Tickets) /\ calls \in Seq(Int)
      /\ toClient \in Seq(Messages(Statuses \cup Commands))
      /\ toBroker \in Seq(Messages({"run", "stats", "bye"}))
      /\ replies \in Seq(Messages(Commands))
      /\ Tickets \in SUBSET Int /\ Int \in SUBSET Int
  BY SeqTypes DEF IInv
<1>3. /\ PathInv /\ CallInv /\ TicketInv /\ Calling /\ Calling' /\ Alive
      /\ Alive' /\ Filling /\ ~ Filling' /\ Top = want /\ Top' = seq
  BY <1>1 DEF IInv, Calling, Alive, Filling, Top
<1>4. /\ want = seq - 1 /\ want \in Tickets /\ seq \in Int /\ want \in Int
      /\ Run(want) \in Messages({"run", "stats", "bye"})
      /\ Run(want).op = "run" /\ Run(want).seq = want
  <2>1. want = seq - 1 /\ want \in Tickets /\ seq \in Int /\ want \in Int
    BY <1>2, <1>3 DEF TicketInv, IInv, TypeOK
  <2> QED
    BY <2>1 DEF Run, Messages
<1>5. /\ Len(inflight') = Len(inflight) + 1 /\ Len(inflight) \in Nat
      /\ inflight' \in Seq(Tickets)
      /\ \A i \in 1 .. Len(inflight) : inflight'[i] = inflight[i]
      /\ inflight'[Len(inflight) + 1] = want
  BY <1>1, <1>2, <1>4, AppendProps
<1>6. /\ Len(toBroker') = Len(toBroker) + 1
      /\ toBroker' \in Seq(Messages({"run", "stats", "bye"}))
      /\ Len(toBroker) \in Nat
  BY <1>1, <1>2, <1>4, AppendProps
<1>7. TypeOK'
  BY <1>1, <1>5, <1>6 DEF IInv, TypeOK
<1>8. Lengths
  BY LengthProps DEF IInv
<1>9. /\ Replied' = Replied /\ Taken' = Taken /\ Held' = Held
      /\ Read' = Read /\ Submitted' = Submitted /\ Past' = Past
  BY <1>1 DEF Replied, Taken, Held, Read, Submitted, Past
<1>10. /\ Replied \in Nat /\ Taken \in Nat /\ Held \in Nat /\ Read \in Nat
       /\ Submitted \in Nat /\ Len(replies) \in Nat
       /\ Len(toClient) \in Nat /\ Len(calls) \in Nat /\ Past \in Nat
       /\ Replied <= Taken /\ Taken <= Held /\ Held <= Read
       /\ spc = "send" => Taken = Replied + 1
       /\ rpc \in {"run", "put"} => Read = Held + 1
  <2>1. 0 <= Past
    BY <1>3 DEF CallInv
  <2>2. Past \in Int /\ Held <= Submitted /\ Submitted <= Read
        /\ Held \in Nat /\ Read \in Nat /\ Submitted \in Nat
    BY <1>8 DEF Lengths
  <2> QED
    BY <1>8, <2>1, <2>2 DEF Lengths
<1>11. Len(inflight) = Read + Len(toBroker)
  BY <1>3 DEF PathInv
<1>12. ServiceInv'
  BY <1>1 DEF IInv, ServiceInv, Waiting
<1>13. PathInv'
  <2>1. /\ Matches(toClient, inflight, 0) /\ Matches(replies, inflight, Taken)
        /\ Matches(toBroker, inflight, Read) /\ 0 \in Nat
        /\ Ops(toBroker, {"run"})
    BY <1>3 DEF PathInv
  <2>2. Matches(toClient, inflight', 0) /\ Matches(replies, inflight', Taken)
        /\ Matches(toBroker, inflight', Read)
    BY <1>1, <1>2, <1>4, <1>6, <1>10, <2>1, MatchesGrow
  <2>3. Matches(Append(toBroker, Run(want)), inflight', Read)
    <3>1. /\ Len(inflight') \in Nat /\ Read \in Nat
          /\ Read + Len(toBroker) + 1 <= Len(inflight')
          /\ Read + Len(toBroker) + 1 = Len(inflight) + 1
      BY <1>5, <1>6, <1>10, <1>11
    <3>2. Run(want).seq = inflight'[Read + Len(toBroker) + 1]
      BY <1>4, <1>5, <3>1
    <3> QED
      BY <1>2, <1>4, <2>2, <3>1, <3>2, MatchesAppend
  <2>4. Ops(Append(toBroker, Run(want)), {"run"})
    <3>1. Run(want).op \in {"run"}
      BY <1>4
    <3> QED
      BY <1>2, <1>4, <2>1, <3>1, KindsAppend
  <2>5. spc = "send" => item.seq = inflight'[Replied + 1]
    <3>1. spc = "send" => item.seq = inflight[Replied + 1]
      BY <1>3 DEF PathInv
    <3>2. spc = "send" => Replied + 1 \in 1 .. Len(inflight)
      BY <1>5, <1>6, <1>10, <1>11
    <3> QED
      BY <1>5, <3>1, <3>2
  <2>6. rpc \in {"run", "put"} => msg.seq = inflight'[Held + 1]
    <3>1. rpc \in {"run", "put"} => msg.seq = inflight[Held + 1]
      BY <1>3 DEF PathInv
    <3>2. rpc \in {"run", "put"} => Held + 1 \in 1 .. Len(inflight)
      BY <1>5, <1>6, <1>10, <1>11
    <3> QED
      BY <1>5, <3>1, <3>2
  <2>7. Len(inflight') = Read + Len(toBroker')
    BY <1>5, <1>6, <1>10, <1>11
  <2> QED
    BY <1>1, <1>3, <1>9, <2>2, <2>3, <2>4, <2>5, <2>6, <2>7 DEF PathInv
<1>14. AskInv'
  BY <1>1 DEF AskInv
<1>15. Grows(inflight, want) /\ Grows(calls, want)
  BY <1>3 DEF TicketInv
<1>16. TicketInv'
  <2>1. want <= seq /\ want < seq
    BY <1>4
  <2>2. \A i \in 1 .. Len(inflight) : inflight[i] < want
    BY <1>15 DEF Grows
  <2>3. Grows(Append(inflight, want), seq)
    BY <1>2, <1>4, <1>15, <2>1, <2>2, GrowsAppend
  <2>4. Grows(calls, seq)
    BY <1>2, <1>4, <1>15, <2>1, GrowsMore
  <2> QED
    BY <1>1, <1>3, <2>3, <2>4 DEF TicketInv
<1>17. CallInv'
  <2>1. /\ Older(calls, Past, inflight) /\ 0 <= Past
        /\ Aligned(calls, Past, inflight, Submitted)
    BY <1>3 DEF CallInv
  <2>2. /\ Aligned(calls, Past, Append(inflight, want), Submitted)
        /\ Older(calls, Past, Append(inflight, want))
    BY <1>2, <1>4, <1>10, <1>15, <2>1, AlignedGrow
  <2> QED
    BY <1>1, <1>3, <1>9, <2>2 DEF CallInv
<1> QED
  BY <1>7, <1>12, <1>13, <1>14, <1>16, <1>17 DEF IInv

\* With nothing in flight, nothing is on its way.
LEMMA NothingOnTheWay ==
  ASSUME IInv, Calling, inflight = <<>>
  PROVE  /\ toClient = <<>> /\ replies = <<>> /\ toBroker = <<>>
         /\ spc = "get" /\ rpc = "recv" /\ Past = Len(calls)
         /\ Replied = 0 /\ Taken = 0 /\ Held = 0 /\ Read = 0 /\ Submitted = 0
<1>1. PathInv /\ TypeOK /\ Lengths /\ cpc # "answer"
  BY LengthProps DEF IInv, Calling
<1>2. /\ Replied \in Nat /\ Taken \in Nat /\ Held \in Nat /\ Read \in Nat
      /\ Submitted \in Nat /\ Len(replies) \in Nat
      /\ Len(toBroker) \in Nat /\ Len(toClient) \in Nat /\ Len(calls) \in Nat
      /\ Replied <= Taken /\ Taken <= Held /\ Held <= Submitted
      /\ Submitted <= Read /\ Replied = Len(toClient)
      /\ Held = Taken + Len(replies)
      /\ spc = "send" => Taken = Replied + 1
      /\ rpc \in {"run", "put"} => Read = Held + 1
      /\ Past = Len(calls) - Submitted
  BY <1>1 DEF Lengths
<1>3. 0 = Read + Len(toBroker)
  BY <1>1 DEF PathInv
<1>4. /\ Replied = 0 /\ Taken = 0 /\ Held = 0 /\ Read = 0 /\ Submitted = 0
      /\ Len(toBroker) = 0 /\ Len(replies) = 0 /\ Len(toClient) = 0
  BY <1>2, <1>3
<1>5. Past = Len(calls) /\ spc # "send" /\ rpc \notin {"run", "put"}
  BY <1>2, <1>4
<1>6. toClient = <<>> /\ replies = <<>> /\ toBroker = <<>>
  <2>1. /\ toClient \in Seq(Messages(Statuses \cup Commands))
        /\ toBroker \in Seq(Messages({"run", "stats", "bye"}))
        /\ replies \in Seq(Messages(Commands))
    BY <1>1, SeqTypes
  <2> QED
    BY <1>4, <2>1, EmptySeq
<1>7. spc = "get" /\ rpc = "recv"
  BY <1>1, <1>5 DEF PathInv
<1> QED
  BY <1>4, <1>5, <1>6, <1>7

\* stats or bye is sent, with no call in flight.
LEMMA AskStep == ASSUME IInv, Ask PROVE IInv'
<1>1. /\ cpc = "drain" /\ cpc' = "answer" /\ inflight = <<>>
      /\ toBroker' = Append(toBroker, [op |-> ask, seq |-> -1])
      /\ UNCHANGED <<seq, want, ask, inflight, results, toClient, arena, rpc,
                     msg, mine, mapped, calls, spc, item, replies, status,
                     sent, healthy, loaded>>
  BY DEF Ask, MustReceive, reader, sender, device
<1>2. Calling /\ Alive /\ Alive' /\ ~ Calling'
  BY <1>1 DEF Calling, Alive
<1>3. /\ toClient = <<>> /\ replies = <<>> /\ toBroker = <<>>
      /\ spc = "get" /\ rpc = "recv" /\ Past = Len(calls) /\ Held = 0
  BY <1>1, <1>2, NothingOnTheWay
<1>4. ask \in {"stats", "bye"} /\ calls \in Seq(Int)
  BY DEF IInv, TypeOK
<1>5. [op |-> ask, seq |-> -1] \in Messages({"run", "stats", "bye"})
  BY <1>4 DEF Messages
<1>6. /\ toBroker' \in Seq(Messages({"run", "stats", "bye"}))
      /\ Len(toBroker') = 1
      /\ Ops(toBroker', {ask}) /\ Unnumbered(toBroker')
  <2>1. /\ toBroker' = <<[op |-> ask, seq |-> -1]>>
    BY <1>1, <1>3
  <2>2. /\ Len(toBroker') = 1
        /\ toBroker'[1].op = ask /\ toBroker'[1].seq = -1
    BY <2>1
  <2> QED
    BY <1>5, <2>1, <2>2 DEF Ops, Unnumbered
<1>7. TypeOK'
  BY <1>1, <1>6 DEF IInv, TypeOK
<1>8. ServiceInv'
  BY <1>1 DEF IInv, ServiceInv, Waiting
<1>9. Held' = Held /\ Past' = Past
  BY <1>1, <1>3 DEF Past, Held, Taken, Replied
<1>10. AskInv'
  <2>1. /\ Unnumbered(<<>>) /\ Ops(<<>>, {"stats", "bye", "stop"})
        /\ Ops(<<>>, {"stats"})
    BY DEF Unnumbered, Ops
  <2>2. Held' + Len(toBroker') = 1
    BY <1>3, <1>6, <1>9
  <2> QED
    BY <1>1, <1>3, <1>6, <2>1, <2>2 DEF AskInv
<1>11. TicketInv'
  BY <1>1, <1>2 DEF IInv, TicketInv, Top, Filling
<1>12. CallInv'
  BY <1>1, <1>2, <1>9 DEF IInv, CallInv
<1> QED
  BY <1>2, <1>7, <1>8, <1>10, <1>11, <1>12 DEF IInv, PathInv

\* A client that is gone is promised nothing.
LEMMA GoneStep == ASSUME TypeOK', ServiceInv', cpc' = "gone" PROVE IInv'
BY DEF IInv, PathInv, AskInv, TicketInv, CallInv, Calling, Alive

\* The answer is read; after statistics the client makes calls again.
LEMMA GetAnswerStep == ASSUME IInv, GetAnswer PROVE IInv'
<1>1. /\ cpc = "answer" /\ toClient # <<>> /\ toClient' = Tail(toClient)
      /\ cpc' = (IF ask = "bye" THEN "gone" ELSE "idle") /\ ask' = "bye"
      /\ UNCHANGED <<seq, want, inflight, results, toBroker, arena, rpc, msg,
                     mine, mapped, calls, spc, item, replies, status, sent,
                     healthy, loaded>>
  BY DEF GetAnswer, reader, sender, device
<1>2. /\ toClient \in Seq(Messages(Statuses \cup Commands))
      /\ calls \in Seq(Int)
      /\ toBroker \in Seq(Messages({"run", "stats", "bye"}))
      /\ replies \in Seq(Messages(Commands))
  BY SeqTypes DEF IInv
<1>3. /\ Len(Tail(toClient)) = Len(toClient) - 1
      /\ Tail(toClient) \in Seq(Messages(Statuses \cup Commands))
      /\ Len(toClient) \in Nat \ {0}
  BY <1>1, <1>2, TailProps
<1>4. TypeOK'
  <2>1. cpc' \in {"gone", "idle"}
    BY <1>1
  <2> QED
    BY <1>1, <1>3, <2>1 DEF IInv, TypeOK
<1>5. ServiceInv'
  BY <1>1 DEF IInv, ServiceInv, Waiting
<1>6. CASE ask = "bye"
  BY <1>1, <1>4, <1>5, <1>6, GoneStep
<1>7. CASE ask = "stats"
  <2>1. /\ AskInv /\ Lengths /\ TypeOK /\ CallInv /\ TicketInv /\ Alive
        /\ cpc' = "idle"
    BY <1>1, <1>7, LengthProps DEF IInv, Alive
  <2>2. /\ inflight = <<>> /\ rpc \in {"recv", "stats"}
        /\ spc \in {"get", "send"}
        /\ rpc = "stats" => Held + Len(toBroker) = 0
        /\ rpc = "recv" => Held + Len(toBroker) = 1
    BY <1>1, <1>7, <2>1 DEF AskInv
  <2>3. /\ Replied \in Nat /\ Taken \in Nat /\ Held \in Nat
        /\ Len(replies) \in Nat /\ Len(toBroker) \in Nat
        /\ Replied <= Taken /\ Taken <= Held /\ Replied = Len(toClient)
        /\ Held = Taken + Len(replies)
        /\ spc = "send" => Taken = Replied + 1
    BY <2>1 DEF Lengths
  <2>4. /\ rpc = "recv" /\ Replied = 1 /\ Len(replies) = 0
        /\ Len(toBroker) = 0 /\ Len(toClient') = 0 /\ spc # "send"
    BY <1>1, <1>3, <2>2, <2>3
  <2>5. replies = <<>> /\ toBroker = <<>> /\ toClient' = <<>> /\ spc = "get"
    BY <1>1, <1>2, <1>3, <2>2, <2>4, EmptySeq
  <2>6. /\ Replied' = 0 /\ Taken' = 0 /\ Held' = 0 /\ Submitted' = 0
        /\ Read' = 0
    BY <1>1, <2>4, <2>5 DEF Replied, Taken, Held, Submitted, Read
  <2>7. Past' = Len(calls) /\ Past = Len(calls) /\ Len(calls) \in Nat
    BY <1>1, <1>2, <2>1, <2>6 DEF Past
  <2>8. /\ Matches(<<>>, <<>>, 0) /\ Ops(<<>>, {"run"})
        /\ Answered(<<>>, status, Past)
        /\ Aligned(calls, Past, <<>>, 0)
    BY <2>7 DEF Matches, Ops, Answered, Aligned
  <2>9. PathInv'
    <3>1. /\ inflight' = <<>> /\ toBroker' = <<>> /\ toClient' = <<>>
          /\ replies' = <<>> /\ rpc' = "recv" /\ spc' = "get"
      BY <1>1, <2>2, <2>4, <2>5
    <3>2. Len(inflight') = Read' + Len(toBroker')
      BY <2>6, <3>1
    <3> QED
      BY <2>6, <2>8, <3>1, <3>2 DEF PathInv
  <2>10. AskInv' /\ TicketInv'
    <3>1. Filling = Filling' /\ Top' = Top /\ ~ Filling
      BY <1>1, <2>1 DEF Filling, Top
    <3> QED
      BY <1>1, <2>1, <3>1 DEF AskInv, TicketInv
  <2>11. CallInv'
    BY <1>1, <2>1, <2>2, <2>5, <2>6, <2>7, <2>8 DEF CallInv
  <2> QED
    BY <1>4, <1>5, <2>9, <2>10, <2>11 DEF IInv
<1> QED
  BY <1>6, <1>7 DEF IInv, TypeOK

LEMMA DieStep == ASSUME IInv, Die PROVE IInv'
<1>1. /\ cpc' = "gone"
      /\ UNCHANGED <<seq, want, ask, inflight, results, toBroker, toClient,
                     arena, rpc, msg, mine, mapped, calls, spc, item,
                     replies, status, sent, healthy, loaded>>
  BY DEF Die, reader, sender, device
<1>2. TypeOK'
  BY <1>1 DEF IInv, TypeOK
<1>3. ServiceInv'
  BY <1>1 DEF IInv, ServiceInv, Waiting
<1> QED
  BY <1>1, <1>2, <1>3, GoneStep

-----------------------------------------------------------------------------
(* The reader.                                                             *)

LEMMA RecvStep == ASSUME IInv, Recv PROVE IInv'
<1>1. /\ rpc = "recv" /\ toBroker # <<>> /\ msg' = Head(toBroker)
      /\ toBroker' = Tail(toBroker) /\ rpc' = Head(toBroker).op
      /\ UNCHANGED <<cpc, seq, want, ask, inflight, results, toClient, arena,
                     mine, mapped, calls, spc, item, replies, status, sent,
                     healthy, loaded>>
  BY DEF Recv, client, sender, device
<1>2. /\ toBroker \in Seq(Messages({"run", "stats", "bye"}))
      /\ inflight \in Seq(Tickets)
  BY SeqTypes DEF IInv
<1>3. /\ Len(Tail(toBroker)) = Len(toBroker) - 1
      /\ Tail(toBroker) \in Seq(Messages({"run", "stats", "bye"}))
      /\ Len(toBroker) \in Nat \ {0}
      /\ Head(toBroker) \in Messages({"run", "stats", "bye"})
  BY <1>1, <1>2, TailProps
<1>4. /\ Head(toBroker).op \in {"run", "stats", "bye"}
      /\ Head(toBroker) \in Messages(Commands)
  BY <1>3 DEF Messages, Commands
<1>5. TypeOK'
  BY <1>1, <1>3, <1>4 DEF IInv, TypeOK
<1>6. ServiceInv'
  <2>1. rpc' \notin {"put", "join", "ended"}
    BY <1>1, <1>4
  <2> QED
    BY <1>1, <2>1 DEF IInv, ServiceInv, Waiting
<1>7. /\ Lengths /\ Replied' = Replied /\ Taken' = Taken /\ Held' = Held
      /\ Submitted' = Submitted /\ Past' = Past
  <2>1. Lengths /\ Replied' = Replied /\ Taken' = Taken /\ Held' = Held
    BY <1>1, LengthProps DEF IInv, Replied, Taken, Held
  <2>2. rpc # "put" /\ rpc' # "put"
    BY <1>1, <1>4
  <2>3. Submitted' = Submitted
    BY <2>1, <2>2 DEF Submitted
  <2> QED
    BY <1>1, <2>1, <2>3 DEF Past
<1>8. /\ Held \in Nat /\ Len(inflight) \in Nat /\ Read \in Nat
      /\ Read = Held
  BY <1>1, <1>7 DEF Lengths
<1>9. PathInv'
  <2>1. SUFFICES ASSUME Calling
                 PROVE  PathInv'
    BY <1>1 DEF PathInv, Calling, Alive
  <2>2. PathInv
    BY DEF IInv
  <2>3. Ops(toBroker, {"run"}) /\ Matches(toBroker, inflight, Read)
    BY <2>1, <2>2 DEF PathInv
  <2>4. Head(toBroker).op = "run" /\ Ops(Tail(toBroker), {"run"})
    BY <1>1, <1>2, <2>3, KindsTail
  <2>5. /\ Head(toBroker).seq = inflight[Read + 1]
        /\ Matches(Tail(toBroker), inflight, Read + 1)
    BY <1>1, <1>2, <1>8, <2>3, MatchesTail
  <2>6. rpc' = "run" /\ Read' = Read + 1
    <3>1. rpc' = "run"
      BY <1>1, <2>4
    <3> QED
      BY <1>7, <1>8, <3>1 DEF Read
  <2>7. Len(inflight) = Read' + (Len(toBroker) - 1)
    <3>1. Len(inflight) = Read + Len(toBroker)
      BY <2>1, <2>2 DEF PathInv
    <3> QED
      BY <1>3, <1>8, <2>6, <3>1
  <2>8. /\ Len(inflight') = Read' + Len(toBroker')
        /\ msg'.op = "run" /\ msg'.seq = inflight'[Held' + 1]
        /\ Matches(toBroker', inflight', Read') /\ Ops(toBroker', {"run"})
    BY <1>1, <1>3, <1>7, <1>8, <2>4, <2>5, <2>6, <2>7
  <2>9. /\ spc \in {"get", "send"} /\ Matches(toClient, inflight, 0)
        /\ spc = "send" =>
             item.op = "run" /\ item.seq = inflight[Replied + 1]
        /\ Ops(replies, {"run"}) /\ Matches(replies, inflight, Taken)
    BY <2>1, <2>2 DEF PathInv
  <2> QED
    BY <1>1, <1>7, <2>6, <2>8, <2>9 DEF PathInv
<1>10. AskInv'
  <2>1. SUFFICES ASSUME cpc = "answer"
                 PROVE  AskInv'
    BY <1>1 DEF AskInv
  <2>2. AskInv
    BY DEF IInv
  <2>3. Unnumbered(toBroker) /\ Ops(toBroker, {ask})
    BY <2>1, <2>2 DEF AskInv
  <2>4. /\ Head(toBroker).op = ask /\ Ops(Tail(toBroker), {ask})
        /\ Head(toBroker).seq = -1 /\ Unnumbered(Tail(toBroker))
    <3>1. Head(toBroker).op \in {ask} /\ Ops(Tail(toBroker), {ask})
      BY <1>1, <1>2, <2>3, KindsTail
    <3>2. Head(toBroker).seq = -1 /\ Unnumbered(Tail(toBroker))
      BY <1>1, <1>2, <2>3, KindsTail
    <3> QED
      BY <3>1, <3>2
  <2>5. ask \in {"stats", "bye"} /\ rpc' = ask
    BY <1>1, <2>4 DEF IInv, TypeOK
  <2>6. ask = "stats" => Held' + Len(toBroker') = 0
    <3>1. ask = "stats" => Held + Len(toBroker) = 1
      BY <1>1, <2>1, <2>2 DEF AskInv
    <3> QED
      BY <1>1, <1>3, <1>7, <1>8, <3>1
  <2> QED
    BY <1>1, <2>1, <2>2, <2>4, <2>5, <2>6 DEF AskInv
<1>11. TicketInv'
  BY <1>1 DEF IInv, TicketInv, Top, Filling, Alive
<1>12. CallInv'
  BY <1>1, <1>7 DEF IInv, CallInv, Calling, Alive
<1> QED
  BY <1>5, <1>6, <1>9, <1>10, <1>11, <1>12 DEF IInv

\* The reader unwinds after a client that is gone.
LEMMA UnwindStep == ASSUME IInv, EndOfFile \/ NoArena PROVE IInv'
<1>1. /\ cpc = "gone" /\ rpc \in {"recv", "run"} /\ rpc' = "finally"
      /\ UNCHANGED <<cpc, seq, want, ask, inflight, results, toBroker,
                     toClient, arena, msg, mine, mapped, calls, spc, item,
                     replies, status, sent, healthy, loaded>>
  BY DEF EndOfFile, NoArena, client, sender, device
<1>2. TypeOK'
  BY <1>1 DEF IInv, TypeOK
<1>3. ServiceInv'
  BY <1>1 DEF IInv, ServiceInv, Waiting
<1> QED
  BY <1>1, <1>2, <1>3, GoneStep

\* broker.submit numbers the call one above the last.
LEMMA SubmitProps ==
  ASSUME IInv, SubmitCall
  PROVE  /\ rpc = "run" /\ rpc' = "put" /\ mapped' = TRUE
         /\ calls' = Append(calls, msg.seq)
         /\ Len(calls) + 1 \in Numbers /\ Len(calls') = Len(calls) + 1
         /\ Len(calls) \in Nat /\ Len(calls) + 1 <= MaxCalls
         /\ calls' \in Seq(Int)
         /\ status' \in [{Me} \X Numbers -> Statuses]
         /\ sent' \in [{Me} -> Nat] /\ sent'[Me] = Len(calls) + 1
         /\ \A n \in Numbers : n # Len(calls) + 1 =>
              status'[<<Me, n>>] = status[<<Me, n>>]
         /\ UNCHANGED <<cpc, seq, want, ask, inflight, results, toBroker,
                        toClient, arena, msg, mine, spc, item, replies,
                        healthy, loaded>>
<1>1. /\ rpc = "run" /\ rpc' = "put" /\ mapped' = TRUE
      /\ calls' = Append(calls, msg.seq)
      /\ UNCHANGED <<cpc, seq, want, ask, inflight, results, toBroker,
                     toClient, arena, msg, mine, spc, item, replies, loaded>>
  BY DEF SubmitCall, client, sender
<1>2. /\ sent[Me] < MaxCalls /\ healthy' = healthy
      /\ sent' = [sent EXCEPT ![Me] = @ + 1]
      /\ \E s \in {"queued", "refused"} :
           status' = [status EXCEPT ![<<Me, sent[Me] + 1>>] = s]
  BY DEF SubmitCall, service!Request, service!Become
<1>3. /\ sent[Me] = Len(calls) /\ sent \in [{Me} -> Nat]
      /\ status \in [{Me} \X Numbers -> Statuses]
  BY DEF IInv, ServiceInv, TypeOK
<1>4. calls \in Seq(Int) /\ msg.seq \in Int
  BY DEF IInv, TypeOK, Messages
<1>5. Len(calls) \in Nat /\ MaxCalls \in Nat
  BY <1>4, LinkAssumption DEF LinkAssumption
<1>6. Len(calls') = Len(calls) + 1 /\ calls' \in Seq(Int)
  BY <1>1, <1>4, AppendProps
<1>7. Len(calls) + 1 \in Numbers /\ Len(calls) + 1 <= MaxCalls
  BY <1>2, <1>3, <1>5 DEF Numbers
<1>8. sent' \in [{Me} -> Nat] /\ sent'[Me] = Len(calls) + 1
  BY <1>2, <1>3, <1>5
<1>9. /\ status' \in [{Me} \X Numbers -> Statuses]
      /\ \A n \in Numbers : n # Len(calls) + 1 =>
           status'[<<Me, n>>] = status[<<Me, n>>]
  <2>1. PICK s \in {"queued", "refused"} :
          status' = [status EXCEPT ![<<Me, Len(calls) + 1>>] = s]
    BY <1>2, <1>3
  <2>2. s \in Statuses
    BY DEF Statuses, Pending
  <2>3. status' \in [{Me} \X Numbers -> Statuses]
    BY <1>3, <2>1, <2>2
  <2>4. ASSUME NEW n \in Numbers, n # Len(calls) + 1
        PROVE  status'[<<Me, n>>] = status[<<Me, n>>]
    <3>1. /\ <<Me, n>> \in {Me} \X Numbers
          /\ <<Me, n>> # <<Me, Len(calls) + 1>>
      BY <2>4
    <3> QED
      BY <1>3, <2>1, <3>1
  <2> QED
    BY <2>3, <2>4
<1> QED
  BY <1>1, <1>2, <1>5, <1>6, <1>7, <1>8, <1>9

LEMMA SubmitCallStep == ASSUME IInv, SubmitCall PROVE IInv'
<1>1. /\ rpc = "run" /\ rpc' = "put" /\ mapped' = TRUE
      /\ calls' = Append(calls, msg.seq)
      /\ UNCHANGED <<cpc, seq, want, ask, inflight, results, toBroker,
                     toClient, arena, msg, mine, spc, item, replies,
                     healthy, loaded>>
  BY SubmitProps
<1>2. /\ Len(calls) + 1 \in Numbers /\ Len(calls') = Len(calls) + 1
      /\ Len(calls) \in Nat /\ Len(calls) + 1 <= MaxCalls
      /\ sent'[Me] = Len(calls) + 1
  BY SubmitProps
<1>3. \A n \in Numbers : n # Len(calls) + 1 =>
        status'[<<Me, n>>] = status[<<Me, n>>]
  BY SubmitProps
<1>4. TypeOK'
  BY <1>1, SubmitProps DEF IInv, TypeOK
<1>5. \A n \in Numbers : n \in Int
  BY DEF Numbers
<1>6. ServiceInv'
  <2>1. ServiceInv
    BY DEF IInv
  <2>2. ASSUME NEW n \in Numbers, n > Len(calls) + 1
        PROVE  status'[<<Me, n>>] = "none"
    <3>1. n # Len(calls) + 1 /\ n > Len(calls)
      BY <1>2, <1>5, <2>2
    <3> QED
      BY <1>3, <2>1, <3>1 DEF ServiceInv
  <2>3. ASSUME NEW n \in Numbers, n # Len(calls) + 1,
               status'[<<Me, n>>] \in Pending
        PROVE  n \in mine
    BY <1>1, <1>3, <2>1, <2>3 DEF ServiceInv, Waiting
  <2>4. Len(calls) + 1 # 0
    BY <1>2
  <2> QED
    BY <1>1, <1>2, <2>2, <2>3, <2>4 DEF ServiceInv, Waiting
<1>7. /\ Replied' = Replied /\ Taken' = Taken /\ Held' = Held
      /\ Read' = Read /\ Submitted' = Held + 1 /\ Submitted = Held
      /\ Held \in Nat /\ Read = Held + 1 /\ Len(toClient) \in Nat
      /\ Replied = Len(toClient) /\ Replied <= Held
  <2>1. Lengths
    BY LengthProps DEF IInv
  <2>2. Replied' = Replied /\ Taken' = Taken /\ Held' = Held
    BY <1>1 DEF Replied, Taken, Held
  <2>3. Read' = Read /\ Submitted' = Held + 1
    BY <1>1, <2>2 DEF Read, Submitted
  <2>4. /\ Submitted = Held /\ Held \in Nat /\ Read = Held + 1
        /\ Len(toClient) \in Nat /\ Replied = Len(toClient)
        /\ Replied <= Taken /\ Taken <= Held /\ Taken \in Nat
    BY <1>1, <2>1 DEF Lengths
  <2> QED
    BY <2>2, <2>3, <2>4
<1>8. PathInv'
  <2>1. Calling' = Calling
    BY <1>1 DEF Calling, Alive
  <2> QED
    BY <1>1, <1>7, <2>1 DEF IInv, PathInv
<1>9. cpc # "answer"
  BY <1>1 DEF IInv, AskInv
<1>10. AskInv'
  BY <1>1, <1>9 DEF AskInv
<1>11. CASE ~ Alive
  <2>1. cpc' = "gone"
    BY <1>1, <1>11 DEF Alive
  <2> QED
    BY <1>4, <1>6, <2>1, GoneStep
<1>12. CASE Alive
  <2>1. /\ Calling /\ Calling' /\ Alive' /\ Top' = Top /\ Filling' = Filling
        /\ PathInv /\ TicketInv /\ CallInv
    BY <1>1, <1>9, <1>12 DEF Calling, Alive, Top, Filling, IInv
  <2>2. /\ msg.seq = inflight[Held + 1] /\ Held + 1 <= Len(inflight)
    <3>1. Len(inflight) = Read + Len(toBroker) /\ Len(toBroker) \in Nat
      BY <2>1, LengthProps DEF PathInv, IInv, Lengths
    <3> QED
      BY <1>1, <1>7, <2>1, <3>1 DEF PathInv
  <2>3. Past' = Past /\ Past \in Nat /\ Past + Held = Len(calls)
    <3>1. Past = Len(calls) - Held /\ 0 <= Past
      <4>1. Past = Len(calls) - Submitted
        BY <1>9, LengthProps DEF IInv, Lengths
      <4>2. Submitted = Held
        BY <1>7
      <4> QED
        BY <1>12, <2>1, <4>1, <4>2 DEF CallInv
    <3>2. Past' = (Len(calls) + 1) - (Held + 1)
      BY <1>1, <1>2, <1>7, <1>9 DEF Past
    <3> QED
      BY <1>2, <1>7, <3>1, <3>2
  <2>4. /\ Aligned(calls, Past, inflight, Held) /\ Older(calls, Past, inflight)
        /\ Finished(status, Past) /\ Answered(toClient, status, Past)
        /\ Grows(calls, Top) /\ Grows(inflight, Top)
        /\ Filling => want = seq - 1 /\ want \in Tickets
    <3>1. Submitted = Held
      BY <1>7
    <3>2. /\ Aligned(calls, Past, inflight, Submitted)
          /\ Older(calls, Past, inflight) /\ Finished(status, Past)
          /\ Answered(toClient, status, Past)
      BY <1>12, <2>1 DEF CallInv
    <3>3. /\ Grows(calls, Top) /\ Grows(inflight, Top)
          /\ Filling => want = seq - 1 /\ want \in Tickets
      BY <1>12, <2>1 DEF TicketInv
    <3> QED
      BY <3>1, <3>2, <3>3
  <2>5. /\ calls \in Seq(Int) /\ inflight \in Seq(Tickets)
        /\ Tickets \subseteq Int /\ Top \in Int
    <3>1. Top \in Int
      BY LinkAssumption DEF IInv, TypeOK, Top, LinkAssumption
    <3> QED
      BY <3>1, SeqTypes DEF IInv
  <2>6. /\ Aligned(calls', Past, inflight, Held + 1)
        /\ Older(calls', Past, inflight) /\ Grows(calls', Top)
    BY <1>1, <1>7, <2>2, <2>3, <2>4, <2>5, AlignedAppend
  <2>7. Finished(status', Past)
    <3>1. ASSUME NEW n \in Numbers, n <= Past
          PROVE  n # Len(calls) + 1
      BY <1>2, <1>5, <1>7, <2>3, <3>1
    <3> QED
      BY <1>3, <2>4, <3>1 DEF Finished
  <2>8. Answered(toClient, status', Past)
    <3>1. ASSUME NEW i \in 1 .. Len(toClient)
          PROVE  Past + i \in Numbers /\ Past + i # Len(calls) + 1
      <4>1. /\ Past \in Nat /\ Past + Held = Len(calls) /\ Held \in Nat
            /\ i \in Nat /\ 1 <= i /\ i <= Held
        BY <1>7, <2>3
      <4>2. Past + i \in Nat /\ 1 <= Past + i /\ Past + i <= Len(calls)
        BY <4>1
      <4>3. MaxCalls \in Nat
        BY LinkAssumption DEF LinkAssumption
      <4> QED
        BY <1>2, <4>2, <4>3 DEF Numbers
    <3> QED
      BY <1>3, <2>4, <3>1 DEF Answered
  <2>9. TicketInv'
    <3>1. want' = want /\ seq' = seq /\ inflight' = inflight
      BY <1>1
    <3>2. Grows(inflight, Top) /\ Grows(calls', Top)
          /\ (Filling => want = seq - 1 /\ want \in Tickets)
      BY <2>4, <2>6
    <3>3. Top' = Top /\ Filling' = Filling
      BY <2>1
    <3> QED
      BY <3>1, <3>2, <3>3 DEF TicketInv
  <2>10. CallInv'
    BY <1>1, <1>7, <2>1, <2>3, <2>6, <2>7, <2>8 DEF CallInv
  <2> QED
    BY <1>4, <1>6, <1>8, <1>10, <2>9, <2>10 DEF IInv
<1> QED
  BY <1>11, <1>12

\* The call's place passes from the reader to the sender's queue.
LEMMA PutStep == ASSUME IInv, Put PROVE IInv'
<1>1. /\ rpc = "put" /\ rpc' = "recv" /\ msg' = Stop
      /\ replies' = Append(replies, msg)
      /\ mine' = {n \in mine \cup {Len(calls)} : Waiting(n)}
      /\ UNCHANGED <<cpc, seq, want, ask, inflight, results, toBroker,
                     toClient, arena, mapped, calls, spc, item, status, sent,
                     healthy, loaded>>
  BY DEF Put, client, sender, device
<1>2. /\ inflight \in Seq(Tickets) /\ calls \in Seq(Int)
      /\ replies \in Seq(Messages(Commands))
      /\ msg \in Messages(Commands)
  BY SeqTypes DEF IInv
<1>3. /\ Len(Append(replies, msg)) = Len(replies) + 1
      /\ Append(replies, msg) \in Seq(Messages(Commands))
      /\ Len(replies) \in Nat
  BY <1>2, AppendProps
<1>4. Stop \in Messages(Commands)
  BY DEF Stop, Messages, Commands
<1>5. Len(calls) \in Numbers
  <2>1. Len(calls) # 0 /\ Len(calls) <= MaxCalls
    BY <1>1 DEF IInv, ServiceInv
  <2> QED
    BY <1>2, <2>1, LinkAssumption DEF Numbers, LinkAssumption
<1>6. TypeOK'
  <2>1. mine' \subseteq Numbers
    BY <1>1, <1>5 DEF IInv, TypeOK
  <2> QED
    BY <1>1, <1>3, <1>4, <2>1 DEF IInv, TypeOK
<1>7. ServiceInv'
  <2>1. ASSUME NEW n \in Numbers, Waiting(n)
        PROVE  n \in mine'
    BY <1>1, <2>1 DEF IInv, ServiceInv
  <2> QED
    BY <1>1, <2>1 DEF IInv, ServiceInv, Waiting
<1>8. /\ Replied' = Replied /\ Taken' = Taken /\ Held' = Held + 1
      /\ Read' = Read /\ Submitted' = Submitted /\ Past' = Past
      /\ Taken \in Nat /\ Held \in Nat /\ Read = Held + 1
      /\ Held = Taken + Len(replies)
  <2>1. Lengths
    BY LengthProps DEF IInv
  <2>2. /\ Submitted = Held + 1 /\ Held \in Nat /\ Read = Held + 1
        /\ Taken \in Nat /\ Held = Taken + Len(replies)
    BY <1>1, <2>1 DEF Lengths
  <2>3. Replied' = Replied /\ Taken' = Taken
    BY <1>1 DEF Replied, Taken
  <2>4. Held' = Held + 1
    <3>1. Held' = Taken + (Len(replies) + 1)
      BY <1>1, <1>3, <2>3 DEF Held
    <3> QED
      BY <1>3, <2>2, <3>1
  <2>5. Read' = Read /\ Submitted' = Submitted
    <3>1. Read' = Held' + 0 /\ Submitted' = Held' + 0
      BY <1>1 DEF Read, Submitted
    <3> QED
      BY <2>2, <2>4, <3>1
  <2>6. Past' = Past
    BY <1>1, <2>5 DEF Past
  <2> QED
    BY <2>2, <2>3, <2>4, <2>5, <2>6
<1>9. cpc # "answer"
  BY <1>1 DEF IInv, AskInv
<1>10. PathInv'
  <2>1. SUFFICES ASSUME Calling
                 PROVE  PathInv'
    BY <1>1 DEF PathInv, Calling, Alive
  <2>2. /\ msg.op = "run" /\ msg.seq = inflight[Held + 1]
        /\ Ops(replies, {"run"}) /\ Matches(replies, inflight, Taken)
        /\ Len(inflight) = Read + Len(toBroker)
    BY <1>1, <2>1 DEF IInv, PathInv
  <2>3. Len(toBroker) \in Nat /\ Len(inflight) \in Nat
    BY LengthProps DEF IInv, Lengths
  <2>4. /\ Taken + Len(replies) + 1 <= Len(inflight)
        /\ Taken + Len(replies) + 1 = Held + 1
    BY <1>3, <1>8, <2>2, <2>3
  <2>5. Matches(Append(replies, msg), inflight, Taken)
    BY <1>2, <1>8, <2>2, <2>3, <2>4, MatchesAppend
  <2>6. Ops(Append(replies, msg), {"run"})
    <3>1. msg.op \in {"run"}
      BY <2>2
    <3> QED
      BY <1>2, <2>2, <3>1, KindsAppend
  <2>7. /\ spc \in {"get", "send"} /\ Matches(toClient, inflight, 0)
        /\ spc = "send" =>
             item.op = "run" /\ item.seq = inflight[Replied + 1]
        /\ Ops(toBroker, {"run"}) /\ Matches(toBroker, inflight, Read)
    BY <2>1 DEF IInv, PathInv
  <2> QED
    BY <1>1, <1>8, <2>2, <2>5, <2>6, <2>7 DEF PathInv
<1>11. AskInv'
  BY <1>1, <1>9 DEF AskInv
<1>12. TicketInv'
  BY <1>1 DEF IInv, TicketInv, Top, Filling, Alive
<1>13. CallInv'
  BY <1>1, <1>8 DEF IInv, CallInv, Calling, Alive
<1> QED
  BY <1>6, <1>7, <1>10, <1>11, <1>12, <1>13 DEF IInv

\* The answer to stats or bye is queued, behind every reply.
LEMMA PutControlStep == ASSUME IInv, PutControl PROVE IInv'
<1>1. /\ rpc \in {"stats", "bye"} /\ msg' = Stop
      /\ rpc' = (IF rpc = "bye" THEN "finally" ELSE "recv")
      /\ replies' = Append(replies, msg)
      /\ UNCHANGED <<cpc, seq, want, ask, inflight, results, toBroker,
                     toClient, arena, mine, mapped, calls, spc, item, status,
                     sent, healthy, loaded>>
  BY DEF PutControl, client, sender, device
<1>2. /\ calls \in Seq(Int)
      /\ replies \in Seq(Messages(Commands))
      /\ msg \in Messages(Commands)
  BY SeqTypes DEF IInv
<1>3. /\ Len(Append(replies, msg)) = Len(replies) + 1
      /\ Append(replies, msg) \in Seq(Messages(Commands))
      /\ Len(replies) \in Nat
  BY <1>2, AppendProps
<1>4. Stop \in Messages(Commands)
  BY DEF Stop, Messages, Commands
<1>5. rpc' \in {"finally", "recv"} /\ (rpc = "stats" => rpc' = "recv")
      /\ (rpc = "bye" => rpc' = "finally")
  BY <1>1
<1>6. TypeOK'
  BY <1>1, <1>3, <1>4, <1>5 DEF IInv, TypeOK
<1>7. ServiceInv'
  BY <1>1, <1>5 DEF IInv, ServiceInv, Waiting
<1>8. ~ Calling
  BY <1>1 DEF IInv, PathInv
<1>9. CASE cpc = "gone"
  BY <1>1, <1>6, <1>7, <1>9, GoneStep
<1>10. CASE cpc = "answer"
  <2>1. AskInv /\ TicketInv /\ CallInv /\ Alive /\ Alive' /\ ~ Calling'
    BY <1>1, <1>10 DEF IInv, Calling, Alive
  <2>2. /\ inflight = <<>> /\ Unnumbered(toClient)
        /\ spc = "send" => item.seq = -1 /\ item.op # "run"
        /\ Unnumbered(replies) /\ Ops(replies, {"stats", "bye", "stop"})
        /\ msg.seq = -1 /\ msg.op = ask /\ rpc = ask
        /\ Unnumbered(toBroker) /\ Ops(toBroker, {ask})
        /\ ask = "stats" => /\ Ops(replies, {"stats"})
                            /\ spc \in {"get", "send"}
                            /\ Held + Len(toBroker) = 0
    BY <1>1, <1>10, <2>1 DEF AskInv
  <2>3. Unnumbered(replies')
    BY <1>1, <1>2, <2>2, KindsAppend
  <2>4. Ops(replies', {"stats", "bye", "stop"})
    <3>1. msg.op \in {"stats", "bye", "stop"}
      BY <1>1, <2>2
    <3> QED
      BY <1>1, <1>2, <2>2, <3>1, KindsAppend
  <2>5. ask = "stats" => Ops(replies', {"stats"})
    <3>1. ask = "stats" => msg.op \in {"stats"}
      BY <2>2
    <3> QED
      BY <1>1, <1>2, <2>2, <3>1, KindsAppend
  <2>6. Held' = Held + 1 /\ Held \in Nat /\ Len(toBroker) \in Nat
    <3>1. /\ Held \in Nat /\ Len(toBroker) \in Nat /\ Taken \in Nat
          /\ Held = Taken + Len(replies)
      BY LengthProps DEF IInv, Lengths
    <3>2. Held' = Taken + (Len(replies) + 1)
      BY <1>1, <1>3 DEF Held, Taken, Replied
    <3> QED
      BY <1>3, <3>1, <3>2
  <2>7. ask = "stats" => Held' + Len(toBroker) = 1 /\ rpc' = "recv"
    BY <1>5, <2>2, <2>6
  <2>8. AskInv'
    BY <1>1, <1>5, <2>2, <2>3, <2>4, <2>5, <2>7 DEF AskInv
  <2>9. TicketInv'
    BY <1>1, <2>1 DEF TicketInv, Top, Filling
  <2>10. CallInv'
    <3>1. Past' = Past
      BY <1>1, <1>10 DEF Past
    <3> QED
      BY <1>1, <2>1, <3>1 DEF CallInv
  <2>11. PathInv'
    BY <2>1 DEF PathInv
  <2> QED
    BY <1>6, <1>7, <2>8, <2>9, <2>10, <2>11 DEF IInv
<1> QED
  BY <1>8, <1>9, <1>10 DEF Calling, Alive

\* finally: the sender's queue gets the word to stop, and the arena goes.
LEMMA StopSenderStep == ASSUME IInv, StopSender PROVE IInv'
<1>1. /\ rpc = "finally" /\ rpc' = "join" /\ replies' = Append(replies, Stop)
      /\ \A n \in mine : ~ Waiting(n)
      /\ UNCHANGED <<cpc, seq, want, ask, inflight, results, toBroker,
                     toClient, arena, msg, mine, mapped, calls, spc, item,
                     status, sent, healthy, loaded>>
  BY DEF StopSender, client, sender, device
<1>2. replies \in Seq(Messages(Commands))
  BY SeqTypes DEF IInv
<1>3. /\ Stop \in Messages(Commands) /\ Stop.seq = -1
      /\ Stop.op \in {"stats", "bye", "stop"}
  BY DEF Stop, Messages, Commands
<1>4. Append(replies, Stop) \in Seq(Messages(Commands))
  BY <1>2, <1>3, AppendProps
<1>5. TypeOK'
  BY <1>1, <1>4 DEF IInv, TypeOK
<1>6. ServiceInv'
  BY <1>1 DEF IInv, ServiceInv, Waiting
<1>7. ~ Calling /\ ~ Calling'
  BY <1>1 DEF IInv, PathInv, Calling, Alive
<1>8. PathInv'
  BY <1>7 DEF PathInv
<1>9. AskInv'
  <2>1. SUFFICES ASSUME cpc = "answer"
                 PROVE  AskInv'
    BY <1>1 DEF AskInv
  <2>2. /\ inflight = <<>> /\ Unnumbered(toClient) /\ ask # "stats"
        /\ spc = "send" => item.seq = -1 /\ item.op # "run"
        /\ Unnumbered(replies) /\ Ops(replies, {"stats", "bye", "stop"})
        /\ Unnumbered(toBroker) /\ Ops(toBroker, {ask})
    BY <1>1, <2>1 DEF IInv, AskInv
  <2>3. Unnumbered(replies') /\ Ops(replies', {"stats", "bye", "stop"})
    <3>1. Unnumbered(replies')
      BY <1>1, <1>2, <1>3, <2>2, KindsAppend
    <3>2. Ops(replies', {"stats", "bye", "stop"})
      BY <1>1, <1>2, <1>3, <2>2, KindsAppend
    <3> QED
      BY <3>1, <3>2
  <2> QED
    BY <1>1, <2>2, <2>3 DEF AskInv
<1>10. TicketInv'
  BY <1>1 DEF IInv, TicketInv, Top, Filling, Alive
<1>11. CallInv'
  <2>1. SUFFICES ASSUME Alive
                 PROVE  CallInv'
    BY <1>1 DEF CallInv, Alive
  <2>2. cpc = "answer"
    BY <1>7, <2>1 DEF Calling
  <2>3. Past' = Past
    BY <1>1, <2>2 DEF Past
  <2> QED
    BY <1>1, <1>7, <2>1, <2>3 DEF IInv, CallInv
<1> QED
  BY <1>5, <1>6, <1>8, <1>9, <1>10, <1>11 DEF IInv

LEMMA UnmapStep == ASSUME IInv, Unmap PROVE IInv'
<1>1. /\ rpc = "join" /\ rpc' = "ended" /\ mapped' = FALSE
      /\ UNCHANGED <<cpc, seq, want, ask, inflight, results, toBroker,
                     toClient, arena, msg, mine, calls, spc, item, replies,
                     status, sent, healthy, loaded>>
  BY DEF Unmap, client, sender, device
<1>2. TypeOK'
  BY <1>1 DEF IInv, TypeOK
<1>3. ServiceInv'
  BY <1>1 DEF IInv, ServiceInv, Waiting
<1>4. ~ Calling /\ ~ Calling'
  BY <1>1 DEF IInv, PathInv, Calling, Alive
<1>5. PathInv'
  BY <1>4 DEF PathInv
<1>6. AskInv'
  <2>1. cpc = "answer" => ask # "stats"
    BY <1>1 DEF IInv, AskInv
  <2> QED
    BY <1>1, <2>1 DEF IInv, AskInv
<1>7. TicketInv'
  BY <1>1 DEF IInv, TicketInv, Top, Filling, Alive
<1>8. CallInv'
  <2>1. SUFFICES ASSUME Alive
                 PROVE  CallInv'
    BY <1>1 DEF CallInv, Alive
  <2>2. cpc = "answer"
    BY <1>4, <2>1 DEF Calling
  <2>3. Past' = Past
    BY <1>1, <2>2 DEF Past
  <2> QED
    BY <1>1, <1>4, <2>1, <2>3 DEF IInv, CallInv
<1> QED
  BY <1>2, <1>3, <1>5, <1>6, <1>7, <1>8 DEF IInv

-----------------------------------------------------------------------------
(* The sender.                                                             *)

LEMMA GetStep == ASSUME IInv, Get PROVE IInv'
<1>1. /\ spc = "get" /\ replies # <<>> /\ item' = Head(replies)
      /\ replies' = Tail(replies)
      /\ spc' = (IF Head(replies) = Stop THEN "ended" ELSE "send")
      /\ UNCHANGED <<cpc, seq, want, ask, inflight, results, toBroker,
                     toClient, arena, rpc, msg, mine, mapped, calls, status,
                     sent, healthy, loaded>>
  BY DEF Get, client, reader, device
<1>2. replies \in Seq(Messages(Commands))
  BY SeqTypes DEF IInv
<1>3. /\ Len(Tail(replies)) = Len(replies) - 1
      /\ Tail(replies) \in Seq(Messages(Commands))
      /\ Len(replies) \in Nat \ {0} /\ Head(replies) \in Messages(Commands)
  BY <1>1, <1>2, TailProps
<1>4. /\ Head(replies).op # "stop" => spc' = "send"
      /\ spc' \in {"send", "ended"}
  BY <1>1 DEF Stop
<1>5. TypeOK'
  BY <1>1, <1>3, <1>4 DEF IInv, TypeOK
<1>6. ServiceInv'
  BY <1>1 DEF IInv, ServiceInv, Waiting
<1>7. /\ Replied' = Replied /\ Taken = Replied /\ Replied \in Nat
      /\ Taken \in Nat /\ Held \in Nat /\ Held = Taken + Len(replies)
  <2>1. Lengths
    BY LengthProps DEF IInv
  <2>2. Replied' = Replied
    BY <1>1 DEF Replied
  <2> QED
    BY <1>1, <2>1, <2>2 DEF Lengths
<1>8. ASSUME spc' = "send"
      PROVE  /\ Taken' = Taken + 1 /\ Held' = Held /\ Read' = Read
             /\ Submitted' = Submitted /\ Past' = Past
  <2>1. Taken' = Taken + 1
    BY <1>7, <1>8 DEF Taken
  <2>2. Held' = Held
    <3>1. Held' = (Taken + 1) + (Len(replies) - 1)
      BY <1>1, <1>3, <2>1 DEF Held
    <3> QED
      BY <1>3, <1>7, <3>1
  <2> QED
    BY <1>1, <2>1, <2>2 DEF Read, Submitted, Past
<1>9. TicketInv'
  BY <1>1 DEF IInv, TicketInv, Top, Filling, Alive
<1>10. CASE cpc = "gone"
  BY <1>1, <1>5, <1>6, <1>10, GoneStep
<1>11. CASE Calling
  <2>1. PathInv /\ cpc # "answer" /\ Alive /\ Alive' /\ Calling'
    BY <1>1, <1>11 DEF IInv, Calling, Alive
  <2>2. Ops(replies, {"run"}) /\ Matches(replies, inflight, Taken)
    BY <1>11, <2>1 DEF PathInv
  <2>3. Head(replies).op = "run" /\ Ops(Tail(replies), {"run"})
    BY <1>1, <1>2, <2>2, KindsTail
  <2>4. spc' = "send"
    BY <1>4, <2>3
  <2>5. /\ Head(replies).seq = inflight[Taken + 1]
        /\ Matches(Tail(replies), inflight, Taken + 1)
    <3>1. Len(inflight) \in Nat
      BY LengthProps DEF IInv, Lengths
    <3> QED
      BY <1>1, <1>2, <1>7, <2>2, <3>1, MatchesTail
  <2>6. /\ Taken' = Taken + 1 /\ Held' = Held /\ Read' = Read
        /\ Submitted' = Submitted /\ Past' = Past
    BY <1>8, <2>4
  <2>7. item'.op = "run" /\ item'.seq = inflight'[Replied' + 1]
    BY <1>1, <1>7, <2>3, <2>5
  <2>8. PathInv'
    <3>1. /\ rpc \in {"recv", "run", "put"}
          /\ Len(inflight) = Read + Len(toBroker)
          /\ Matches(toClient, inflight, 0)
          /\ rpc \in {"run", "put"} =>
               msg.op = "run" /\ msg.seq = inflight[Held + 1]
          /\ Ops(toBroker, {"run"}) /\ Matches(toBroker, inflight, Read)
      BY <1>11, <2>1 DEF PathInv
    <3> QED
      BY <1>1, <2>3, <2>4, <2>5, <2>6, <2>7, <3>1 DEF PathInv
  <2>9. AskInv'
    BY <1>1, <2>1 DEF AskInv
  <2>10. CallInv'
    BY <1>1, <1>11, <2>1, <2>6 DEF IInv, CallInv
  <2> QED
    BY <1>5, <1>6, <1>9, <2>8, <2>9, <2>10 DEF IInv
<1>12. CASE cpc = "answer"
  <2>1. AskInv /\ ~ Calling' /\ Alive /\ ~ Calling
    BY <1>1, <1>12 DEF IInv, Calling, Alive
  <2>2. /\ inflight = <<>> /\ Unnumbered(toClient)
        /\ rpc \notin {"run", "put"}
        /\ Unnumbered(replies) /\ Ops(replies, {"stats", "bye", "stop"})
        /\ rpc \in {"stats", "bye"} => msg.seq = -1 /\ msg.op = ask
                                       /\ rpc = ask
        /\ Unnumbered(toBroker) /\ Ops(toBroker, {ask})
        /\ ask = "stats" =>
             /\ rpc \in {"recv", "stats"} /\ Ops(replies, {"stats"})
             /\ rpc = "stats" => Held + Len(toBroker) = 0
             /\ rpc = "recv" => Held + Len(toBroker) = 1
    BY <1>12, <2>1 DEF AskInv
  <2>3. Head(replies).seq = -1 /\ Unnumbered(Tail(replies))
    BY <1>1, <1>2, <2>2, KindsTail
  <2>4. /\ Head(replies).op # "run"
        /\ Ops(Tail(replies), {"stats", "bye", "stop"})
    <3>1. /\ Head(replies).op \in {"stats", "bye", "stop"}
          /\ Ops(Tail(replies), {"stats", "bye", "stop"})
      BY <1>1, <1>2, <2>2, KindsTail
    <3> QED
      BY <3>1
  <2>5. ask = "stats" => spc' = "send" /\ Ops(Tail(replies), {"stats"})
    <3>1. ask = "stats" =>
            Head(replies).op \in {"stats"} /\ Ops(Tail(replies), {"stats"})
      BY <1>1, <1>2, <2>2, KindsTail
    <3> QED
      BY <1>4, <3>1
  <2>6. ask = "stats" => Held' = Held
    BY <1>8, <2>5
  <2>7. AskInv'
    <3>1. ask = "stats" =>
            /\ rpc' = "stats" => Held' + Len(toBroker') = 0
            /\ rpc' = "recv" => Held' + Len(toBroker') = 1
      BY <1>1, <2>2, <2>6
    <3> QED
      BY <1>1, <2>2, <2>3, <2>4, <2>5, <3>1 DEF AskInv
  <2>8. Past' = Past
    BY <1>1, <1>12 DEF Past
  <2>9. CallInv'
    BY <1>1, <2>1, <2>8 DEF IInv, CallInv, Alive
  <2>10. PathInv'
    BY <2>1 DEF PathInv
  <2> QED
    BY <1>5, <1>6, <1>9, <2>7, <2>9, <2>10 DEF IInv
<1> QED
  BY <1>10, <1>11, <1>12 DEF Calling, Alive

\* The sender's call is the one the service has next after those replied to.
LEMMA NumberProps ==
  ASSUME IInv, Calling, spc = "send"
  PROVE  /\ item.op = "run" /\ item.seq = inflight[Replied + 1]
         /\ NumberOf(item.seq) = Past + Replied + 1
         /\ Past + Replied + 1 \in Numbers /\ Replied + 1 <= Len(inflight)
<1>1. /\ PathInv /\ CallInv /\ TicketInv /\ TypeOK /\ Lengths /\ Alive
      /\ cpc # "answer"
  BY LengthProps DEF IInv, Calling
<1>2. item.op = "run" /\ item.seq = inflight[Replied + 1]
  BY <1>1 DEF PathInv
<1>3. /\ 0 <= Past /\ Aligned(calls, Past, inflight, Submitted)
      /\ Grows(calls, Top)
  BY <1>1 DEF CallInv, TicketInv
<1>4. /\ Replied \in Nat /\ Taken = Replied + 1 /\ Taken \in Nat
      /\ Held \in Nat /\ Submitted \in Nat /\ Past \in Nat
      /\ Replied + 1 <= Submitted /\ Len(calls) \in Nat
      /\ Len(inflight) \in Nat
  <2>1. /\ Replied \in Nat /\ Taken = Replied + 1 /\ Taken \in Nat
        /\ Held \in Nat /\ Submitted \in Nat /\ Past \in Int
        /\ Taken <= Held /\ Held <= Submitted /\ Len(calls) \in Nat
        /\ Len(inflight) \in Nat
    BY <1>1 DEF Lengths
  <2> QED
    BY <1>3, <2>1
<1>5. Past + Submitted = Len(calls) /\ Submitted <= Len(inflight)
  BY <1>3 DEF Aligned
<1>6. /\ Replied + 1 \in 1 .. Submitted
      /\ Past + (Replied + 1) \in 1 .. Len(calls)
      /\ Past + (Replied + 1) = Past + Replied + 1
      /\ Replied + 1 <= Len(inflight)
  BY <1>4, <1>5
<1>7. calls[Past + Replied + 1] = item.seq
  BY <1>2, <1>3, <1>6 DEF Aligned
<1>8. Past + Replied + 1 \in Numbers
  <2>1. Len(calls) <= MaxCalls /\ MaxCalls \in Nat
    BY LinkAssumption DEF IInv, ServiceInv, LinkAssumption
  <2> QED
    BY <1>4, <1>6, <2>1 DEF Numbers
<1>9. ASSUME NEW m \in 1 .. Len(calls), calls[m] = item.seq
      PROVE  m = Past + Replied + 1
  <2>1. \A k, n \in 1 .. Len(calls) : k < n => calls[k] < calls[n]
    BY <1>3 DEF Grows
  <2>2. \A k \in 1 .. Len(calls) : calls[k] \in Int
    BY <1>1 DEF TypeOK
  <2>3. ~ (m < Past + Replied + 1) /\ ~ (Past + Replied + 1 < m)
    <3>1. item.seq \in Int /\ ~ (item.seq < item.seq)
      BY <1>9, <2>2
    <3> QED
      BY <1>6, <1>7, <1>9, <2>1, <3>1
  <2> QED
    BY <1>4, <2>3
<1>10. NumberOf(item.seq) = Past + Replied + 1
  <2>1. Past + Replied + 1 \in 1 .. Len(calls)
    BY <1>6
  <2>2. /\ NumberOf(item.seq) \in 1 .. Len(calls)
        /\ calls[NumberOf(item.seq)] = item.seq
    BY <1>7, <2>1 DEF NumberOf
  <2> QED
    BY <1>9, <2>2
<1> QED
  BY <1>2, <1>6, <1>8, <1>10

LEMMA ReplyStep == ASSUME IInv, Reply PROVE IInv'
<1> DEFINE reply == IF item.op = "run"
                    THEN [op |-> status[<<Me, NumberOf(item.seq)>>],
                          seq |-> item.seq]
                    ELSE item
<1>1. /\ spc = "send" /\ Alive /\ spc' = "get" /\ item' = Stop
      /\ item.op = "run" => ~ Waiting(NumberOf(item.seq))
      /\ toClient' = Append(toClient, reply)
      /\ UNCHANGED <<cpc, seq, want, ask, inflight, results, toBroker, arena,
                     rpc, msg, mine, mapped, calls, replies, status, sent,
                     healthy, loaded>>
  BY DEF Reply, client, reader, device, Alive
<1> HIDE DEF reply
<1>2. /\ toClient \in Seq(Messages(Statuses \cup Commands))
      /\ inflight \in Seq(Tickets) /\ item \in Messages(Commands)
  BY SeqTypes DEF IInv
<1>3. /\ Calling => /\ reply.seq = item.seq /\ item.op = "run"
                    /\ reply.op = status[<<Me, Past + Replied + 1>>]
                    /\ status[<<Me, Past + Replied + 1>>] \notin Pending
                    /\ status[<<Me, Past + Replied + 1>>] \in Statuses
                    /\ item.seq = inflight[Replied + 1]
                    /\ Replied + 1 <= Len(inflight)
      /\ cpc = "answer" => reply = item /\ item.seq = -1
  <2>1. ASSUME Calling
        PROVE  /\ reply.seq = item.seq /\ item.op = "run"
               /\ reply.op = status[<<Me, Past + Replied + 1>>]
               /\ status[<<Me, Past + Replied + 1>>] \notin Pending
               /\ status[<<Me, Past + Replied + 1>>] \in Statuses
               /\ item.seq = inflight[Replied + 1]
               /\ Replied + 1 <= Len(inflight)
    <3>1. /\ item.op = "run" /\ item.seq = inflight[Replied + 1]
          /\ NumberOf(item.seq) = Past + Replied + 1
          /\ Past + Replied + 1 \in Numbers
          /\ Replied + 1 <= Len(inflight)
      BY <1>1, <2>1, NumberProps
    <3>2. /\ reply.seq = item.seq
          /\ reply.op = status[<<Me, Past + Replied + 1>>]
      BY <3>1 DEF reply
    <3>3. status[<<Me, Past + Replied + 1>>] \notin Pending
      BY <1>1, <3>1 DEF Waiting
    <3>4. status[<<Me, Past + Replied + 1>>] \in Statuses
      <4>1. status \in [{Me} \X Numbers -> Statuses]
        BY DEF IInv, TypeOK
      <4>2. <<Me, Past + Replied + 1>> \in {Me} \X Numbers
        BY <3>1
      <4> QED
        BY <4>1, <4>2
    <3> QED
      BY <3>1, <3>2, <3>3, <3>4
  <2>2. cpc = "answer" => reply = item /\ item.seq = -1
    BY <1>1 DEF IInv, AskInv, reply
  <2> QED
    BY <2>1, <2>2
<1>4. reply \in Messages(Statuses \cup Commands)
  <2>1. CASE Calling
    <3>1. reply = [op |-> status[<<Me, NumberOf(item.seq)>>],
                   seq |-> item.seq]
      BY <1>3, <2>1 DEF reply
    <3>2. reply.op \in Statuses \cup Commands /\ reply.seq \in Int
      BY <1>2, <1>3, <2>1 DEF Messages
    <3> QED
      BY <3>1, <3>2 DEF Messages
  <2>2. CASE cpc = "answer"
    BY <1>2, <1>3, <2>2 DEF Messages
  <2> QED
    BY <1>1, <2>1, <2>2 DEF Calling
<1>5. /\ Len(toClient') = Len(toClient) + 1 /\ Len(toClient) \in Nat
      /\ toClient' \in Seq(Messages(Statuses \cup Commands))
  BY <1>1, <1>2, <1>4, AppendProps
<1>6. TypeOK'
  <2>1. Stop \in Messages(Commands)
    BY DEF Stop, Messages, Commands
  <2> QED
    BY <1>1, <1>5, <2>1 DEF IInv, TypeOK
<1>7. ServiceInv'
  BY <1>1 DEF IInv, ServiceInv, Waiting
<1>8. /\ Replied' = Replied + 1 /\ Taken' = Taken /\ Held' = Held
      /\ Read' = Read /\ Submitted' = Submitted /\ Past' = Past
      /\ Replied = Len(toClient) /\ Len(inflight) \in Nat
      /\ Past \in Nat
  <2>1. Lengths
    BY LengthProps DEF IInv
  <2>2. /\ Replied = Len(toClient) /\ Taken = Replied + 1
        /\ Replied \in Nat /\ Len(inflight) \in Nat /\ Past \in Int
    BY <1>1, <2>1 DEF Lengths
  <2>3. Replied' = Replied + 1
    BY <1>5, <2>2 DEF Replied
  <2>4. Taken' = Taken
    <3>1. Taken' = Replied' + 0
      BY <1>1 DEF Taken
    <3> QED
      BY <2>2, <2>3, <3>1
  <2>5. /\ Held' = Held /\ Read' = Read /\ Submitted' = Submitted
        /\ Past' = Past
    BY <1>1, <2>4 DEF Held, Read, Submitted, Past
  <2>6. 0 <= Past
    BY <1>1 DEF IInv, CallInv
  <2> QED
    BY <2>2, <2>3, <2>4, <2>5, <2>6
<1>9. Calling' = Calling /\ Alive'
  BY <1>1 DEF Calling, Alive
<1>10. PathInv'
  <2>1. SUFFICES ASSUME Calling
                 PROVE  PathInv'
    BY <1>9 DEF PathInv
  <2>2. /\ rpc \in {"recv", "run", "put"}
        /\ Len(inflight) = Read + Len(toBroker)
        /\ Matches(toClient, inflight, 0)
        /\ Ops(replies, {"run"}) /\ Matches(replies, inflight, Taken)
        /\ rpc \in {"run", "put"} =>
             msg.op = "run" /\ msg.seq = inflight[Held + 1]
        /\ Ops(toBroker, {"run"}) /\ Matches(toBroker, inflight, Read)
    BY <2>1 DEF IInv, PathInv
  <2>3. /\ reply.seq = inflight[Len(toClient) + 1]
        /\ Len(toClient) + 1 <= Len(inflight)
    BY <1>3, <1>8, <2>1
  <2>4. Matches(Append(toClient, reply), inflight, 0)
    <3>1. /\ 0 \in Nat /\ 0 + Len(toClient) + 1 = Len(toClient) + 1
      BY <1>5
    <3>2. /\ 0 + Len(toClient) + 1 <= Len(inflight)
          /\ reply.seq = inflight[0 + Len(toClient) + 1]
      BY <2>3, <3>1
    <3> QED
      BY <1>2, <1>4, <1>8, <2>2, <3>1, <3>2, MatchesAppend
  <2> QED
    BY <1>1, <1>8, <2>2, <2>4 DEF PathInv
<1>11. AskInv'
  <2>1. SUFFICES ASSUME cpc = "answer"
                 PROVE  AskInv'
    BY <1>1 DEF AskInv
  <2>2. AskInv /\ Unnumbered(toClient)
    BY <2>1 DEF IInv, AskInv
  <2>3. Unnumbered(Append(toClient, reply))
    <3>1. reply.seq = -1
      BY <1>3, <2>1
    <3> QED
      BY <1>2, <1>4, <2>2, <3>1, KindsAppend
  <2> QED
    BY <1>1, <1>8, <2>1, <2>2, <2>3 DEF AskInv
<1>12. TicketInv'
  BY <1>1 DEF IInv, TicketInv, Top, Filling, Alive
<1>13. CallInv'
  <2>1. CallInv
    BY DEF IInv
  <2>2. Calling => Answered(toClient', status, Past)
    <3>1. SUFFICES ASSUME Calling
                   PROVE  Answered(toClient', status, Past)
      OBVIOUS
    <3>2. Answered(toClient, status, Past)
      BY <1>1, <2>1, <3>1 DEF CallInv
    <3>3. /\ status[<<Me, Past + Len(toClient) + 1>>] \notin Pending
          /\ reply.op = status[<<Me, Past + Len(toClient) + 1>>]
      BY <1>3, <1>8, <3>1
    <3> QED
      BY <1>1, <1>2, <1>4, <1>8, <3>2, <3>3, AnsweredAppend
  <2> QED
    BY <1>1, <1>8, <1>9, <2>1, <2>2 DEF CallInv
<1> QED
  BY <1>6, <1>7, <1>10, <1>11, <1>12, <1>13 DEF IInv

LEMMA ReplyFailsStep == ASSUME IInv, ReplyFails PROVE IInv'
<1>1. /\ cpc = "gone" /\ spc' = "ended"
      /\ UNCHANGED <<cpc, seq, want, ask, inflight, results, toBroker,
                     toClient, arena, rpc, msg, mine, mapped, calls, item,
                     replies, status, sent, healthy, loaded>>
  BY DEF ReplyFails, client, reader, device
<1>2. TypeOK'
  BY <1>1 DEF IInv, TypeOK
<1>3. ServiceInv'
  BY <1>1 DEF IInv, ServiceInv, Waiting
<1> QED
  BY <1>1, <1>2, <1>3, GoneStep

-----------------------------------------------------------------------------
(* The device thread.                                                      *)

\* It finishes calls, and starts none that is finished or was never made.
LEMMA DeviceProps ==
  ASSUME IInv, Device
  PROVE  /\ UNCHANGED <<cpc, seq, want, ask, inflight, results, toBroker,
                        toClient, rpc, msg, mine, mapped, calls, spc, item,
                        replies, sent>>
         /\ status' \in [{Me} \X Numbers -> Statuses]
         /\ \A n \in Numbers : status'[<<Me, n>>] # status[<<Me, n>>] =>
              Waiting(n) /\ status'[<<Me, n>>] # "none"
         /\ healthy' \in BOOLEAN
         /\ loaded' \in [Numbers -> Contents]
         /\ arena' \in [0 .. Depth - 1 -> Contents]
<1> DEFINE P ==
             /\ UNCHANGED <<cpc, seq, want, ask, inflight, results, toBroker,
                            toClient, rpc, msg, mine, mapped, calls, spc,
                            item, replies, sent>>
             /\ status' \in [{Me} \X Numbers -> Statuses]
             /\ \A n \in Numbers : status'[<<Me, n>>] # status[<<Me, n>>] =>
                  Waiting(n) /\ status'[<<Me, n>>] # "none"
             /\ healthy' \in BOOLEAN
             /\ loaded' \in [Numbers -> Contents]
             /\ arena' \in [0 .. Depth - 1 -> Contents]
<1>1. /\ status \in [{Me} \X Numbers -> Statuses] /\ healthy \in BOOLEAN
      /\ loaded \in [Numbers -> Contents]
      /\ arena \in [0 .. Depth - 1 -> Contents] /\ calls \in Seq(Int)
  BY DEF IInv, TypeOK
<1>2. \A n \in Numbers : Waiting(n) => n \in 1 .. Len(calls)
  <2>1. ASSUME NEW n \in Numbers, Waiting(n)
        PROVE  n \in 1 .. Len(calls)
    <3>1. status[<<Me, n>>] # "none"
      BY <2>1 DEF Waiting, Pending
    <3>2. ~ (n > Len(calls))
      BY <3>1 DEF IInv, ServiceInv
    <3> QED
      BY <1>1, <3>2 DEF Numbers
  <2> QED
    BY <2>1
<1>3. ASSUME NEW n \in Numbers, Waiting(n)
      PROVE  Slot(calls[n]) \in 0 .. Depth - 1
  <2>1. calls[n] \in Int
    BY <1>1, <1>2, <1>3
  <2> QED
    BY <2>1, LinkAssumption DEF Slot, LinkAssumption
<1>4. ASSUME NEW n \in Numbers, NEW s \in Statuses \ {"none"}, Waiting(n),
             status' = [status EXCEPT ![<<Me, n>>] = s]
      PROVE  /\ status' \in [{Me} \X Numbers -> Statuses]
             /\ \A m \in Numbers : status'[<<Me, m>>] # status[<<Me, m>>] =>
                  Waiting(m) /\ status'[<<Me, m>>] # "none"
  <2>1. status' \in [{Me} \X Numbers -> Statuses]
    BY <1>1, <1>4
  <2>2. ASSUME NEW m \in Numbers, status'[<<Me, m>>] # status[<<Me, m>>]
        PROVE  Waiting(m) /\ status'[<<Me, m>>] # "none"
    <3>1. <<Me, m>> \in {Me} \X Numbers /\ <<Me, n>> \in {Me} \X Numbers
      OBVIOUS
    <3>2. m = n
      <4>1. CASE m # n
        <5>1. <<Me, m>> # <<Me, n>>
          BY <4>1
        <5> QED
          BY <1>1, <1>4, <2>2, <3>1, <5>1
      <4> QED
        BY <4>1
    <3>3. status'[<<Me, n>>] = s
      BY <1>1, <1>4, <3>1
    <3> QED
      BY <1>4, <3>2, <3>3
  <2> QED
    BY <2>1, <2>2
<1>5. ASSUME NEW n \in Numbers, CopyIn(n)
      PROVE  P
  <2>1. /\ Is(n, "queued")
        /\ loaded' = [loaded EXCEPT ![n] = arena[Slot(calls[n])]]
        /\ UNCHANGED <<cpc, seq, want, ask, inflight, results, toBroker,
                       toClient, arena, rpc, msg, mine, mapped, calls, spc,
                       item, replies, status, sent, healthy>>
    BY <1>5 DEF CopyIn, client, reader, sender
  <2>2. Waiting(n)
    BY <2>1 DEF Is, Waiting, Pending
  <2>3. arena[Slot(calls[n])] \in Contents
    BY <1>1, <1>3, <2>2
  <2>4. loaded' \in [Numbers -> Contents]
    BY <1>1, <2>1, <2>3
  <2> QED
    BY <1>1, <2>1, <2>4
<1>6. ASSUME NEW n \in Numbers, Start(n)
      PROVE  P
  <2>1. /\ Is(n, "queued")
        /\ status' = [status EXCEPT ![<<Me, n>>] = "running"]
        /\ UNCHANGED <<cpc, seq, want, ask, inflight, results, toBroker,
                       toClient, arena, rpc, msg, mine, mapped, calls, spc,
                       item, replies, sent, healthy, loaded>>
    BY <1>6 DEF Start, service!Start, service!Is, service!Become, Is,
       client, reader, sender
  <2>2. Waiting(n) /\ "running" \in Statuses \ {"none"}
    BY <2>1 DEF Is, Waiting, Pending, Statuses
  <2>3. /\ status' \in [{Me} \X Numbers -> Statuses]
        /\ \A m \in Numbers : status'[<<Me, m>>] # status[<<Me, m>>] =>
             Waiting(m) /\ status'[<<Me, m>>] # "none"
    BY <1>4, <2>1, <2>2
  <2> QED
    BY <1>1, <2>1, <2>3
<1>7. ASSUME NEW n \in Numbers, Return(n)
      PROVE  P
  <2>1. /\ Is(n, "running")
        /\ \E s \in {"executed", "hung"} :
             status' = [status EXCEPT ![<<Me, n>>] = s]
        /\ healthy' \in {healthy, FALSE}
        /\ UNCHANGED <<cpc, seq, want, ask, inflight, results, toBroker,
                       toClient, arena, rpc, msg, mine, mapped, calls, spc,
                       item, replies, sent, loaded>>
    BY <1>7 DEF Return, service!Return, service!Is, service!Become, Is,
       client, reader, sender
  <2>2. Waiting(n) /\ {"executed", "hung"} \subseteq Statuses \ {"none"}
    BY <2>1 DEF Is, Waiting, Pending, Statuses
  <2>3. /\ status' \in [{Me} \X Numbers -> Statuses]
        /\ \A m \in Numbers : status'[<<Me, m>>] # status[<<Me, m>>] =>
             Waiting(m) /\ status'[<<Me, m>>] # "none"
    <3>1. PICK s \in {"executed", "hung"} :
            status' = [status EXCEPT ![<<Me, n>>] = s]
      BY <2>1
    <3>2. s \in Statuses \ {"none"}
      BY <2>2
    <3> QED
      BY <1>4, <2>2, <3>1, <3>2
  <2>4. healthy' \in BOOLEAN
    BY <1>1, <2>1
  <2> QED
    BY <1>1, <2>1, <2>3, <2>4
<1>8. ASSUME NEW n \in Numbers, Answer(n)
      PROVE  P
  <2>1. /\ Is(n, "executed") \/ Is(n, "hung")
        /\ \E s \in {"ok", "failed"} :
             status' = [status EXCEPT ![<<Me, n>>] = s]
        /\ arena' \in {arena, [arena EXCEPT ![Slot(calls[n])] =
                                 Output(loaded[n])]}
        /\ UNCHANGED <<cpc, seq, want, ask, inflight, results, toBroker,
                       toClient, rpc, msg, mine, mapped, calls, spc, item,
                       replies, sent, healthy, loaded>>
    BY <1>8 DEF Answer, service!Answer, service!Is, service!Become, Is,
       client, reader, sender
  <2>2. Waiting(n) /\ {"ok", "failed"} \subseteq Statuses \ {"none"}
    BY <2>1 DEF Is, Waiting, Pending, Statuses
  <2>3. /\ status' \in [{Me} \X Numbers -> Statuses]
        /\ \A m \in Numbers : status'[<<Me, m>>] # status[<<Me, m>>] =>
             Waiting(m) /\ status'[<<Me, m>>] # "none"
    <3>1. PICK s \in {"ok", "failed"} :
            status' = [status EXCEPT ![<<Me, n>>] = s]
      BY <2>1
    <3>2. s \in Statuses \ {"none"}
      BY <2>2
    <3> QED
      BY <1>4, <2>2, <3>1, <3>2
  <2>4. arena' \in [0 .. Depth - 1 -> Contents]
    <3>1. Output(loaded[n]) \in Contents
      <4>1. loaded[n] \in [of : Int, runs : Nat]
        BY <1>1 DEF Contents
      <4>2. loaded[n].of \in Int /\ loaded[n].runs + 1 \in Nat
        BY <4>1
      <4> QED
        BY <4>2 DEF Output, Contents
    <3> QED
      BY <1>1, <2>1, <3>1
  <2> QED
    BY <1>1, <2>1, <2>3, <2>4
<1>9. ASSUME NEW K \in SUBSET ({Me} \X Numbers), Drop(K)
      PROVE  P
  <2>1. /\ \A k \in K : status[k] = "queued"
        /\ status' = [k \in {Me} \X Numbers |->
                        IF k \in K THEN "failed" ELSE status[k]]
        /\ UNCHANGED <<cpc, seq, want, ask, inflight, results, toBroker,
                       toClient, arena, rpc, msg, mine, mapped, calls, spc,
                       item, replies, sent, healthy, loaded>>
    BY <1>9 DEF Drop, service!Drop, service!Is, service!Calls, Numbers,
       client, reader, sender
  <2>2. "failed" \in Statuses /\ "queued" \in Pending
    BY DEF Statuses, Pending
  <2>3. status' \in [{Me} \X Numbers -> Statuses]
    BY <1>1, <2>1, <2>2
  <2>4. ASSUME NEW m \in Numbers, status'[<<Me, m>>] # status[<<Me, m>>]
        PROVE  Waiting(m) /\ status'[<<Me, m>>] # "none"
    <3>1. <<Me, m>> \in {Me} \X Numbers
      OBVIOUS
    <3>2. <<Me, m>> \in K /\ status'[<<Me, m>>] = "failed"
      BY <2>1, <2>4, <3>1
    <3> QED
      BY <2>1, <2>2, <3>2 DEF Waiting
  <2> QED
    BY <1>1, <2>1, <2>3, <2>4
<1> HIDE DEF P
<1>10. P
  BY <1>5, <1>6, <1>7, <1>8, <1>9 DEF Device
<1> QED
  BY <1>10 DEF P

LEMMA DeviceStep == ASSUME IInv, Device PROVE IInv'
<1>1. /\ UNCHANGED <<cpc, seq, want, ask, inflight, results, toBroker,
                     toClient, rpc, msg, mine, mapped, calls, spc, item,
                     replies, sent>>
      /\ \A n \in Numbers : status'[<<Me, n>>] # status[<<Me, n>>] =>
           Waiting(n) /\ status'[<<Me, n>>] # "none"
  BY DeviceProps
<1>2. TypeOK'
  BY <1>1, DeviceProps DEF IInv, TypeOK
<1>3. \A n \in Numbers : ~ Waiting(n) =>
        status'[<<Me, n>>] = status[<<Me, n>>]
  BY <1>1
<1>4. \A n \in Numbers : status'[<<Me, n>>] \in Pending => Waiting(n)
  BY <1>3 DEF Waiting
<1>5. ServiceInv'
  <2>1. ASSUME NEW n \in Numbers, n > Len(calls)
        PROVE  status'[<<Me, n>>] = "none"
    <3>1. status[<<Me, n>>] = "none"
      BY <2>1 DEF IInv, ServiceInv
    <3>2. ~ Waiting(n)
      BY <3>1 DEF Waiting, Pending
    <3> QED
      BY <1>3, <3>1, <3>2
  <2>2. ASSUME NEW n \in Numbers, status'[<<Me, n>>] \in Pending
        PROVE  n \in mine \/ (rpc = "put" /\ n = Len(calls))
    BY <1>4, <2>2 DEF IInv, ServiceInv
  <2>3. rpc \in {"join", "ended"} =>
          \A n \in Numbers : status'[<<Me, n>>] \notin Pending
    BY <1>4 DEF IInv, ServiceInv
  <2>4. /\ sent[Me] = Len(calls) /\ Len(calls) <= MaxCalls
        /\ rpc = "put" => Len(calls) # 0
        /\ Len(calls) # 0 /\ rpc # "ended" => mapped
    BY DEF IInv, ServiceInv
  <2> QED
    BY <1>1, <2>1, <2>2, <2>3, <2>4 DEF ServiceInv, Waiting
<1>6. /\ Calling' = Calling /\ Alive' = Alive /\ Replied' = Replied
      /\ Taken' = Taken /\ Held' = Held /\ Read' = Read
      /\ Submitted' = Submitted /\ Past' = Past /\ Top' = Top
      /\ Filling' = Filling
  BY <1>1 DEF Calling, Alive, Replied, Taken, Held, Read, Submitted, Past,
     Top, Filling
<1>7. PathInv' /\ AskInv' /\ TicketInv'
  <2>1. PathInv /\ AskInv /\ TicketInv
    BY DEF IInv
  <2>2. PathInv'
    BY <1>1, <1>6, <2>1 DEF PathInv
  <2>3. AskInv'
    BY <1>1, <1>6, <2>1 DEF AskInv
  <2>4. TicketInv'
    BY <1>1, <1>6, <2>1 DEF TicketInv
  <2> QED
    BY <2>2, <2>3, <2>4
<1>8. CallInv'
  <2>1. SUFFICES ASSUME Alive
                 PROVE  CallInv'
    BY <1>6 DEF CallInv
  <2>2. /\ 0 <= Past /\ Older(calls, Past, inflight)
        /\ Finished(status, Past)
        /\ Calling => /\ Aligned(calls, Past, inflight, Submitted)
                      /\ Answered(toClient, status, Past)
    BY <2>1 DEF IInv, CallInv
  <2>3. Finished(status', Past)
    BY <1>4, <2>2 DEF Finished, Waiting
  <2>4. ASSUME Calling
        PROVE  Answered(toClient, status', Past)
    <3>1. /\ Past + Submitted = Len(calls) /\ Len(calls) <= MaxCalls
      BY <2>2, <2>4 DEF Aligned, IInv, ServiceInv
    <3>2. /\ Past \in Int /\ Submitted \in Nat /\ Replied = Len(toClient)
          /\ Replied \in Nat /\ Replied <= Submitted /\ MaxCalls \in Nat
      <4>1. Lengths
        BY LengthProps DEF IInv
      <4>2. /\ Past \in Int /\ Submitted \in Nat /\ Replied = Len(toClient)
            /\ Replied \in Nat /\ Taken \in Nat /\ Held \in Nat
            /\ Replied <= Taken /\ Taken <= Held /\ Held <= Submitted
            /\ MaxCalls \in Nat
        BY <4>1 DEF Lengths
      <4> QED
        BY <4>2
    <3>3. ASSUME NEW i \in 1 .. Len(toClient)
          PROVE  /\ status'[<<Me, Past + i>>] \notin Pending
                 /\ toClient[i].op = status'[<<Me, Past + i>>]
      <4>1. Past + i \in Numbers
        <5>1. 1 <= Past + i /\ Past + i <= MaxCalls /\ Past + i \in Int
          BY <2>2, <3>1, <3>2
        <5> QED
          BY <3>2, <5>1 DEF Numbers
      <4>2. /\ status[<<Me, Past + i>>] \notin Pending
            /\ toClient[i].op = status[<<Me, Past + i>>]
        BY <2>2, <2>4 DEF Answered
      <4>3. status'[<<Me, Past + i>>] = status[<<Me, Past + i>>]
        BY <1>3, <4>1, <4>2 DEF Waiting
      <4> QED
        BY <4>2, <4>3
    <3> QED
      BY <3>3 DEF Answered
  <2> QED
    BY <1>1, <1>6, <2>2, <2>3, <2>4 DEF CallInv
<1> QED
  BY <1>2, <1>5, <1>7, <1>8 DEF IInv

-----------------------------------------------------------------------------
(* The theorems that hold whatever the program submits.                    *)

LEMMA InitIInv == Init => IInv
<1> SUFFICES ASSUME Init
             PROVE  IInv
  OBVIOUS
<1>1. /\ cpc = "idle" /\ seq = 0 /\ want = -1 /\ ask = "bye"
      /\ inflight = <<>> /\ results = [t \in Tickets |-> Nothing]
      /\ toBroker = <<>> /\ toClient = <<>>
      /\ arena = [s \in 0 .. Depth - 1 |-> Nothing]
      /\ rpc = "recv" /\ msg = Stop /\ mine = {} /\ mapped = FALSE
      /\ calls = <<>> /\ spc = "get" /\ item = Stop /\ replies = <<>>
      /\ status = [k \in {Me} \X Numbers |-> "none"]
      /\ sent = [c \in {Me} |-> 0] /\ healthy = TRUE
      /\ loaded = [n \in Numbers |-> Nothing]
  BY DEF Init, service!Init, service!Calls, Numbers
<1>2. MaxCalls \in Nat
  BY LinkAssumption DEF LinkAssumption
<1>3. TypeOK
  <2>1. /\ Stop \in Messages(Commands) /\ Nothing \in Contents
        /\ "none" \in Statuses /\ seq \in 0 .. MaxCalls
    BY <1>1, <1>2 DEF Stop, Messages, Commands, Nothing, Contents, Statuses
  <2>2. /\ inflight \in Seq(Tickets) /\ calls \in Seq(Int)
        /\ toBroker \in Seq(Messages({"run", "stats", "bye"}))
        /\ toClient \in Seq(Messages(Statuses \cup Commands))
        /\ replies \in Seq(Messages(Commands))
    BY <1>1
  <2>3. /\ results \in [Tickets -> Contents]
        /\ arena \in [0 .. Depth - 1 -> Contents]
        /\ status \in [{Me} \X Numbers -> Statuses]
        /\ sent \in [{Me} -> Nat] /\ loaded \in [Numbers -> Contents]
    BY <1>1, <2>1
  <2>4. /\ cpc \in {"idle", "room", "send", "wait", "drain", "answer",
                    "gone"}
        /\ want \in Int /\ ask \in {"stats", "bye"}
        /\ rpc \in {"recv", "run", "put", "stats", "bye", "finally",
                    "join", "ended"}
        /\ mine \subseteq Numbers /\ mapped \in BOOLEAN
        /\ spc \in {"get", "send", "ended"} /\ healthy \in BOOLEAN
    <3>1. /\ cpc \in {"idle", "room", "send", "wait", "drain", "answer",
                      "gone"}
          /\ ask \in {"stats", "bye"}
          /\ rpc \in {"recv", "run", "put", "stats", "bye", "finally",
                      "join", "ended"}
          /\ spc \in {"get", "send", "ended"}
      BY <1>1
    <3>2. want \in Int /\ mine \subseteq Numbers
      BY <1>1
    <3>3. mapped \in BOOLEAN /\ healthy \in BOOLEAN
      BY <1>1
    <3> QED
      BY <3>1, <3>2, <3>3
  <2>5. msg \in Messages(Commands) /\ item \in Messages(Commands)
    BY <1>1, <2>1
  <2> QED
    BY <2>1, <2>2, <2>3, <2>4, <2>5 DEF TypeOK
<1>4. ServiceInv
  <2>1. ASSUME NEW n \in Numbers
        PROVE  status[<<Me, n>>] = "none" /\ ~ Waiting(n)
    <3>1. status[<<Me, n>>] = "none"
      BY <1>1
    <3> QED
      BY <3>1 DEF Waiting, Pending
  <2>2. sent[Me] = Len(calls) /\ Len(calls) = 0 /\ 0 <= MaxCalls
    BY <1>1, <1>2
  <2>3. rpc = "recv"
    BY <1>1
  <2> QED
    BY <2>1, <2>2, <2>3 DEF ServiceInv
<1>5. /\ Replied = 0 /\ Taken = 0 /\ Held = 0 /\ Read = 0 /\ Submitted = 0
      /\ Past = 0
  <2>1. /\ Len(toClient) = 0 /\ Len(replies) = 0 /\ Len(calls) = 0
        /\ spc # "send" /\ rpc \notin {"run", "put"} /\ cpc # "answer"
    BY <1>1
  <2>2. Lengths
    BY <1>3, LengthProps
  <2>3. Replied = 0 /\ Taken = 0
    BY <2>1, <2>2 DEF Lengths
  <2>4. Held = 0
    BY <2>1, <2>2, <2>3 DEF Lengths
  <2>5. Read = 0 /\ Submitted = 0
    BY <2>1, <2>2, <2>4 DEF Lengths
  <2> QED
    BY <2>1, <2>2, <2>3, <2>4, <2>5 DEF Lengths
<1>6. /\ Matches(<<>>, <<>>, 0) /\ Ops(<<>>, {"run"})
      /\ Answered(<<>>, status, 0) /\ Aligned(<<>>, 0, <<>>, 0)
      /\ Older(<<>>, 0, <<>>) /\ Grows(<<>>, 0)
  BY DEF Matches, Ops, Answered, Aligned, Older, Grows
<1>7. PathInv
  <2>1. Len(inflight) = Read + Len(toBroker)
    BY <1>1, <1>5
  <2> QED
    BY <1>1, <1>5, <1>6, <2>1 DEF PathInv
<1>8. AskInv
  BY <1>1 DEF AskInv
<1>9. TicketInv
  <2>1. ~ Filling /\ Top = 0
    BY <1>1 DEF Filling, Top
  <2> QED
    BY <1>1, <1>6, <2>1 DEF TicketInv
<1>10. CallInv
  <2>1. Finished(status, 0)
    BY DEF Finished, Numbers
  <2> QED
    BY <1>1, <1>5, <1>6, <2>1 DEF CallInv
<1> QED
  BY <1>3, <1>4, <1>7, <1>8, <1>9, <1>10 DEF IInv

LEMMA StepIInv == IInv /\ [Next]_vars => IInv'
<1> SUFFICES ASSUME IInv, [Next]_vars
             PROVE  IInv'
  OBVIOUS
<1>1. CASE Program \/ Collected \/ Fill
  BY <1>1, InsideStep DEF Program, Inside
<1>2. CASE ReceiveOne
  BY <1>2, ReceiveStep
<1>3. CASE Send
  BY <1>3, SendStep
<1>4. CASE Ask
  BY <1>4, AskStep
<1>5. CASE GetAnswer
  BY <1>5, GetAnswerStep
<1>6. CASE Die
  BY <1>6, DieStep
<1>7. CASE Reader
  BY <1>7, RecvStep, UnwindStep, SubmitCallStep, PutStep, PutControlStep,
     StopSenderStep, UnmapStep DEF Reader
<1>8. CASE Sender
  BY <1>8, GetStep, ReplyStep, ReplyFailsStep DEF Sender
<1>9. CASE Device
  BY <1>9, DeviceStep
<1>10. CASE UNCHANGED vars
  <2>1. UNCHANGED <<cpc, seq, want, ask, inflight, results, toBroker,
                    toClient, arena, rpc, msg, mine, mapped, calls, spc,
                    item, replies, status, sent, healthy, loaded>>
    BY <1>10 DEF vars, client, reader, sender, device
  <2>2. TypeOK' /\ ServiceInv'
    BY <2>1 DEF IInv, TypeOK, ServiceInv, Waiting
  <2>3. PathInv' /\ AskInv'
    BY <2>1 DEF IInv, PathInv, AskInv, Calling, Alive, Read, Held, Taken,
       Replied
  <2>4. TicketInv' /\ CallInv'
    BY <2>1 DEF IInv, TicketInv, CallInv, Calling, Alive, Top, Filling,
       Past, Submitted, Held, Taken, Replied
  <2> QED
    BY <2>2, <2>3, <2>4 DEF IInv
<1> QED
  BY <1>1, <1>2, <1>3, <1>4, <1>5, <1>6, <1>7, <1>8, <1>9, <1>10
  DEF Next, ClientStep, Done

\* The inductive invariant.
THEOREM LinkInvariant == Spec => []IInv
BY InitIInv, StepIInv, PTL DEF Spec

\* The types, for arenas, pipes and programs of any size.
THEOREM LinkTypes == Spec => []TypeOK
<1>1. IInv => TypeOK
  BY DEF IInv
<1> QED
  BY <1>1, LinkInvariant, PTL

\* "The arena stays mapped in the broker until the client's last call has
\* finished" (_serve_client's finally): the device thread never copies from or
\* to an arena that is gone, whenever the client is killed.
THEOREM ArenaSafe == Spec => []ArenaOutlivesCalls
<1>1. IInv => ArenaOutlivesCalls
  <2> SUFFICES ASSUME IInv, NEW n \in Numbers, Waiting(n)
               PROVE  mapped
    BY DEF ArenaOutlivesCalls
  <2>1. /\ n > Len(calls) => status[<<Me, n>>] = "none"
        /\ rpc # "ended" /\ Len(calls) \in Nat
        /\ Len(calls) # 0 /\ rpc # "ended" => mapped
    BY LengthProps DEF IInv, ServiceInv, Lengths
  <2>2. ~ (n > Len(calls))
    BY <2>1 DEF Waiting, Pending
  <2>3. n \in Nat /\ n >= 1
    BY LinkAssumption DEF Numbers, LinkAssumption
  <2> QED
    BY <2>1, <2>2, <2>3
<1> QED
  BY <1>1, LinkInvariant, PTL

-----------------------------------------------------------------------------
(* What is on its way, laid end to end.                                    *)

LEMMA Wider ==
  ASSUME NEW S, NEW T, S \subseteq T, NEW q \in Seq(S)
  PROVE  q \in Seq(T)
<1>1. Len(q) \in Nat /\ \A i \in 1 .. Len(q) : q[i] \in T
  OBVIOUS
<1>2. q \in [1 .. Len(q) -> T]
  BY <1>1
<1> QED
  BY <1>1, <1>2

LEMMA MatchesConcat ==
  ASSUME NEW S, NEW q \in Seq(S), NEW r \in Seq(S), NEW f, NEW k \in Nat,
         Len(f) \in Nat, Matches(q, f, k), Matches(r, f, k + Len(q))
  PROVE  /\ q \o r \in Seq(S) /\ Len(q \o r) = Len(q) + Len(r)
         /\ Matches(q \o r, f, k)
<1>1. /\ q \o r \in Seq(S) /\ Len(q \o r) = Len(q) + Len(r)
      /\ \A i \in 1 .. Len(q) + Len(r) :
           (q \o r)[i] = IF i <= Len(q) THEN q[i] ELSE r[i - Len(q)]
      /\ Len(q) \in Nat /\ Len(r) \in Nat
  BY ConcatProperties
<1>2. /\ (k + Len(q)) + Len(r) <= Len(f)
      /\ \A i \in 1 .. Len(q) : q[i].seq = f[k + i]
      /\ \A i \in 1 .. Len(r) : r[i].seq = f[(k + Len(q)) + i]
  BY DEF Matches
<1>3. ASSUME NEW i \in 1 .. Len(q) + Len(r)
      PROVE  (q \o r)[i].seq = f[k + i]
  <2>1. CASE i <= Len(q)
    <3>1. i \in 1 .. Len(q)
      BY <1>1, <2>1
    <3> QED
      BY <1>1, <1>2, <2>1, <3>1
  <2>2. CASE i > Len(q)
    <3>1. /\ i - Len(q) \in 1 .. Len(r) /\ ~ (i <= Len(q))
          /\ (k + Len(q)) + (i - Len(q)) = k + i
      BY <1>1, <2>2
    <3> QED
      BY <1>1, <1>2, <3>1
  <2> QED
    BY <1>1, <2>1, <2>2
<1>4. k + Len(q \o r) <= Len(f)
  BY <1>1, <1>2
<1> QED
  BY <1>1, <1>3, <1>4 DEF Matches

LEMMA UnnumberedConcat ==
  ASSUME NEW S, NEW q \in Seq(S), NEW r \in Seq(S),
         Unnumbered(q), Unnumbered(r)
  PROVE  q \o r \in Seq(S) /\ Unnumbered(q \o r)
<1>1. /\ q \o r \in Seq(S) /\ Len(q \o r) = Len(q) + Len(r)
      /\ \A i \in 1 .. Len(q) + Len(r) :
           (q \o r)[i] = IF i <= Len(q) THEN q[i] ELSE r[i - Len(q)]
      /\ Len(q) \in Nat /\ Len(r) \in Nat
  BY ConcatProperties
<1>2. ASSUME NEW i \in 1 .. Len(q) + Len(r)
      PROVE  (q \o r)[i].seq = -1
  <2>1. CASE i <= Len(q)
    <3>1. i \in 1 .. Len(q)
      BY <1>1, <2>1
    <3> QED
      BY <1>1, <2>1, <3>1 DEF Unnumbered
  <2>2. CASE i > Len(q)
    <3>1. i - Len(q) \in 1 .. Len(r) /\ ~ (i <= Len(q))
      BY <1>1, <2>2
    <3> QED
      BY <1>1, <3>1 DEF Unnumbered
  <2> QED
    BY <1>1, <2>1, <2>2
<1> QED
  BY <1>1, <1>2 DEF Unnumbered

LEMMA OrderHolds == IInv => RepliesInOrder
<1> SUFFICES ASSUME IInv
             PROVE  RepliesInOrder
  OBVIOUS
<1> DEFINE M == Messages(Statuses \cup Commands)
           a == IF spc = "send" THEN <<item>> ELSE <<>>
           b == IF rpc \in {"run", "put", "stats", "bye"} THEN <<msg>>
                ELSE <<>>
<1>1. OnTheWay = (((toClient \o a) \o replies) \o b) \o toBroker
  BY DEF OnTheWay
<1>2. Lengths /\ TypeOK
  BY LengthProps DEF IInv
<1>3. /\ Messages(Commands) \subseteq M
      /\ Messages({"run", "stats", "bye"}) \subseteq M
  BY DEF Messages, Commands
<1>4. /\ toClient \in Seq(M) /\ item \in M /\ msg \in M
      /\ replies \in Seq(Messages(Commands))
      /\ toBroker \in Seq(Messages({"run", "stats", "bye"}))
  BY <1>2, <1>3, SeqTypes
<1> HIDE DEF M
<1>5. replies \in Seq(M) /\ toBroker \in Seq(M)
  BY <1>3, <1>4, Wider
<1>6. /\ a \in Seq(M) /\ Len(a) \in Nat
      /\ spc = "send" => Len(a) = 1 /\ a[1] = item
      /\ spc # "send" => Len(a) = 0
  BY <1>4
<1>7. /\ b \in Seq(M) /\ Len(b) \in Nat
      /\ rpc \in {"run", "put", "stats", "bye"} => Len(b) = 1 /\ b[1] = msg
      /\ rpc \notin {"run", "put", "stats", "bye"} => Len(b) = 0
  BY <1>4
<1> HIDE DEF a, b
<1>8. ASSUME NEW i \in 1 .. Len(a)
      PROVE  spc = "send" /\ i = 1
  <2>1. Len(a) \in {0, 1} /\ (spc # "send" => Len(a) = 0)
    BY <1>6
  <2>2. CASE Len(a) = 0
    BY <2>2
  <2>3. CASE Len(a) = 1
    BY <2>1, <2>3
  <2> QED
    BY <2>1, <2>2, <2>3
<1>9. ASSUME NEW i \in 1 .. Len(b)
      PROVE  rpc \in {"run", "put", "stats", "bye"} /\ i = 1
  <2>1. /\ Len(b) \in {0, 1}
        /\ rpc \notin {"run", "put", "stats", "bye"} => Len(b) = 0
    BY <1>7
  <2>2. CASE Len(b) = 0
    BY <2>2
  <2>3. CASE Len(b) = 1
    BY <2>1, <2>3
  <2> QED
    BY <2>1, <2>2, <2>3
<1>10. ASSUME Calling
      PROVE  /\ Len(OnTheWay) = Len(inflight)
             /\ \A i \in 1 .. Len(inflight) : OnTheWay[i].seq = inflight[i]
  <2>1. PathInv
    BY DEF IInv
  <2>2. /\ rpc \in {"recv", "run", "put"}
        /\ Len(inflight) = Read + Len(toBroker)
        /\ Matches(toClient, inflight, 0)
        /\ spc = "send" => item.seq = inflight[Replied + 1]
        /\ Matches(replies, inflight, Taken)
        /\ rpc \in {"run", "put"} => msg.seq = inflight[Held + 1]
        /\ Matches(toBroker, inflight, Read)
    BY <1>10, <2>1 DEF PathInv
  <2>3. /\ Replied \in Nat /\ Taken \in Nat /\ Held \in Nat /\ Read \in Nat
        /\ Len(inflight) \in Nat /\ Len(toBroker) \in Nat
        /\ Replied = Len(toClient) /\ Held = Taken + Len(replies)
        /\ Taken <= Held /\ Replied <= Taken
        /\ Len(replies) \in Nat
    BY <1>2 DEF Lengths
  <2>4. Taken = Replied + Len(a) /\ Read = Held + Len(b)
    <3>1. Taken = Replied + Len(a)
      <4>1. /\ spc = "send" => Taken = Replied + 1
            /\ spc # "send" => Taken = Replied
        BY <1>2 DEF Lengths
      <4>2. /\ spc = "send" => Len(a) = 1
            /\ spc # "send" => Len(a) = 0
        BY <1>6
      <4>3. Replied + 0 = Replied
        BY <2>3
      <4> QED
        BY <4>1, <4>2, <4>3
    <3>2. Read = Held + Len(b)
      <4>1. /\ rpc \in {"run", "put"} => Read = Held + 1
            /\ rpc \notin {"run", "put"} => Read = Held
        BY <1>2 DEF Lengths
      <4>2. /\ rpc \in {"run", "put"} => Len(b) = 1
            /\ rpc = "recv" => Len(b) = 0
        BY <1>7
      <4>3. rpc \in {"recv", "run", "put"} /\ Held + 0 = Held
        BY <2>2, <2>3
      <4> QED
        BY <4>1, <4>2, <4>3
    <3> QED
      BY <3>1, <3>2
  <2>5. Matches(a, inflight, Replied)
    <3>1. /\ Replied + Len(a) <= Len(inflight)
      BY <1>6, <1>7, <2>2, <2>3, <2>4
    <3>2. ASSUME NEW i \in 1 .. Len(a)
          PROVE  a[i].seq = inflight[Replied + i]
      <4>1. spc = "send" /\ i = 1
        BY <1>8
      <4> QED
        BY <1>6, <2>2, <4>1
    <3> QED
      BY <3>1, <3>2 DEF Matches
  <2>6. Matches(b, inflight, Held)
    <3>1. Held + Len(b) <= Len(inflight)
      BY <1>7, <2>2, <2>3, <2>4
    <3>2. ASSUME NEW i \in 1 .. Len(b)
          PROVE  b[i].seq = inflight[Held + i]
      <4>1. rpc \in {"run", "put", "stats", "bye"} /\ i = 1
        BY <1>9
      <4> QED
        BY <1>7, <2>2, <4>1
    <3> QED
      BY <3>1, <3>2 DEF Matches
  <2>7. /\ toClient \o a \in Seq(M) /\ Len(toClient \o a) = Taken
        /\ Matches(toClient \o a, inflight, 0)
    <3>1. 0 \in Nat /\ 0 + Len(toClient) = Replied
      BY <2>3
    <3> QED
      BY <1>4, <1>6, <2>2, <2>3, <2>4, <2>5, <3>1, MatchesConcat
  <2> DEFINE c == toClient \o a
             d == c \o replies
             e == d \o b
  <2>8. d \in Seq(M) /\ Len(d) = Held /\ Matches(d, inflight, 0)
    <3> HIDE DEF c
    <3>1. c \in Seq(M) /\ Len(c) = Taken /\ Matches(c, inflight, 0)
      BY <2>7 DEF c
    <3>2. 0 \in Nat /\ 0 + Len(c) = Taken
      BY <2>3, <3>1
    <3> QED
      BY <1>5, <2>2, <2>3, <3>1, <3>2, MatchesConcat
  <2>9. e \in Seq(M) /\ Len(e) = Read /\ Matches(e, inflight, 0)
    <3> HIDE DEF d
    <3>1. 0 \in Nat /\ 0 + Len(d) = Held
      BY <2>3, <2>8
    <3> QED
      BY <1>7, <2>3, <2>4, <2>6, <2>8, <3>1, MatchesConcat
  <2>10. /\ Len(e \o toBroker) = Len(inflight)
         /\ Matches(e \o toBroker, inflight, 0)
    <3> HIDE DEF e
    <3>1. 0 \in Nat /\ 0 + Len(e) = Read
      BY <2>3, <2>9
    <3> QED
      BY <1>5, <2>2, <2>3, <2>9, <3>1, MatchesConcat
  <2>11. OnTheWay = e \o toBroker
    BY <1>1
  <2> HIDE DEF e
  <2>12. Len(OnTheWay) = Len(inflight) /\ Matches(OnTheWay, inflight, 0)
    BY <2>10, <2>11
  <2>13. ASSUME NEW i \in 1 .. Len(inflight)
         PROVE  OnTheWay[i].seq = inflight[i]
    <3>1. i \in 1 .. Len(OnTheWay) /\ 0 + i = i
      BY <2>3, <2>12
    <3> QED
      BY <2>12, <3>1 DEF Matches
  <2> QED
    BY <2>12, <2>13
<1>11. ASSUME cpc = "answer"
      PROVE  /\ inflight = <<>>
             /\ \A i \in 1 .. Len(OnTheWay) : OnTheWay[i].seq = -1
  <2>1. /\ inflight = <<>> /\ rpc \notin {"run", "put"}
        /\ Unnumbered(toClient) /\ Unnumbered(replies)
        /\ Unnumbered(toBroker)
        /\ spc = "send" => item.seq = -1
        /\ rpc \in {"stats", "bye"} => msg.seq = -1
    BY <1>11 DEF IInv, AskInv
  <2>2. Unnumbered(a)
    <3>1. ASSUME NEW i \in 1 .. Len(a)
          PROVE  a[i].seq = -1
      <4>1. spc = "send" /\ i = 1
        BY <1>8
      <4> QED
        BY <1>6, <2>1, <4>1
    <3> QED
      BY <3>1 DEF Unnumbered
  <2>3. Unnumbered(b)
    <3>1. ASSUME NEW i \in 1 .. Len(b)
          PROVE  b[i].seq = -1
      <4>1. rpc \in {"run", "put", "stats", "bye"} /\ i = 1
        BY <1>9
      <4> QED
        BY <1>7, <2>1, <4>1
    <3> QED
      BY <3>1 DEF Unnumbered
  <2>4. toClient \o a \in Seq(M) /\ Unnumbered(toClient \o a)
    BY <1>4, <1>6, <2>1, <2>2, UnnumberedConcat
  <2>5. /\ (toClient \o a) \o replies \in Seq(M)
        /\ Unnumbered((toClient \o a) \o replies)
    BY <1>5, <2>1, <2>4, UnnumberedConcat
  <2>6. /\ ((toClient \o a) \o replies) \o b \in Seq(M)
        /\ Unnumbered(((toClient \o a) \o replies) \o b)
    BY <1>7, <2>3, <2>5, UnnumberedConcat
  <2>7. Unnumbered((((toClient \o a) \o replies) \o b) \o toBroker)
    BY <1>5, <2>1, <2>6, UnnumberedConcat
  <2> QED
    BY <1>1, <2>1, <2>7 DEF Unnumbered
<1> QED
  BY <1>10, <1>11 DEF RepliesInOrder, Calling, Alive

\* Pipelining's "replies come back in submission order": _receive_one may pop
\* the oldest ticket without looking, for any depth, pipe and program.
THEOREM RepliesOrdered == Spec => []RepliesInOrder
BY OrderHolds, LinkInvariant, PTL

-----------------------------------------------------------------------------
(* The slots of the arena, when no ticket is lost with calls in flight.    *)

LEMMA SlotsApart ==
  ASSUME NEW a \in Int, NEW b \in Int, a < b, b < a + Depth
  PROVE  Slot(a) # Slot(b)
<1> DEFINE k == (b \div Depth) - (a \div Depth)
<1>0. Depth \in Nat \ {0}
  BY LinkAssumption DEF LinkAssumption
<1>1. /\ a \div Depth \in Int /\ b \div Depth \in Int
      /\ a = (Depth * (a \div Depth)) + (a % Depth)
      /\ b = (Depth * (b \div Depth)) + (b % Depth)
      /\ a % Depth \in Int /\ b % Depth \in Int
  BY <1>0
<1>2. SUFFICES ASSUME a % Depth = b % Depth
               PROVE  FALSE
  BY DEF Slot
<1>3. /\ k \in Int /\ Depth * k \in Int
      /\ Depth * k = Depth * (b \div Depth) - Depth * (a \div Depth)
  BY <1>0, <1>1
<1>4. b - a = Depth * k
  <2> HIDE DEF k
  <2>1. /\ Depth * (a \div Depth) \in Int /\ Depth * (b \div Depth) \in Int
    BY <1>0, <1>1
  <2> QED
    BY <1>1, <1>2, <1>3, <2>1
<1>5. k >= 1 => Depth * k >= Depth
  BY <1>0, <1>3
<1>6. k <= 0 => Depth * k <= 0
  BY <1>0, <1>3
<1> HIDE DEF k
<1> QED
  BY <1>0, <1>3, <1>4, <1>5, <1>6

LEMMA SlotRange == ASSUME NEW t \in Int PROVE Slot(t) \in 0 .. Depth - 1
BY LinkAssumption DEF LinkAssumption, Slot

\* The last Depth tickets, and the next if there are fewer, have slots of
\* their own.
LEMMA WindowApart ==
  ASSUME NEW T \in SUBSET Int, NEW f \in Seq(T), NEW top \in Int,
         Len(f) <= Depth, Window(f, top)
  PROVE  /\ \A i, j \in 1 .. Len(f) : i # j => Slot(f[i]) # Slot(f[j])
         /\ Len(f) < Depth =>
              \A i \in 1 .. Len(f) : Slot(f[i]) # Slot(top)
<1>0. Depth \in Nat \ {0} /\ Len(f) \in Nat
  BY LinkAssumption DEF LinkAssumption
<1>1. \A i \in 1 .. Len(f) : f[i] = top - Len(f) + i - 1
  BY DEF Window
<1>2. ASSUME NEW i \in 1 .. Len(f), NEW j \in 1 .. Len(f), i < j
      PROVE  Slot(f[i]) # Slot(f[j])
  <2>1. /\ top - Len(f) + i - 1 \in Int /\ top - Len(f) + j - 1 \in Int
        /\ top - Len(f) + i - 1 < top - Len(f) + j - 1
        /\ top - Len(f) + j - 1 < (top - Len(f) + i - 1) + Depth
    BY <1>0, <1>2
  <2>2. Slot(top - Len(f) + i - 1) # Slot(top - Len(f) + j - 1)
    BY <2>1, SlotsApart
  <2> QED
    BY <1>1, <2>2
<1>3. ASSUME NEW i \in 1 .. Len(f), NEW j \in 1 .. Len(f), i # j
      PROVE  Slot(f[i]) # Slot(f[j])
  <2>1. i < j \/ j < i
    BY <1>0, <1>3
  <2> QED
    BY <1>2, <2>1
<1>4. ASSUME Len(f) < Depth, NEW i \in 1 .. Len(f)
      PROVE  Slot(f[i]) # Slot(top)
  <2>1. /\ top - Len(f) + i - 1 \in Int /\ top - Len(f) + i - 1 < top
        /\ top < (top - Len(f) + i - 1) + Depth
    BY <1>0, <1>4
  <2>2. Slot(top - Len(f) + i - 1) # Slot(top)
    BY <2>1, SlotsApart
  <2> QED
    BY <1>1, <2>2
<1> QED
  BY <1>3, <1>4

LEMMA WindowTail ==
  ASSUME NEW T, NEW f \in Seq(T), f # <<>>, NEW top \in Int, Window(f, top)
  PROVE  Window(Tail(f), top)
<1>1. /\ Len(f) \in Nat \ {0} /\ Len(Tail(f)) = Len(f) - 1
      /\ \A i \in 1 .. Len(f) - 1 : Tail(f)[i] = f[i + 1]
  BY TailProps
<1>2. \A i \in 1 .. Len(f) : f[i] = top - Len(f) + i - 1
  BY DEF Window
<1>3. ASSUME NEW i \in 1 .. Len(f) - 1
      PROVE  Tail(f)[i] = top - (Len(f) - 1) + i - 1
  <2>1. /\ i + 1 \in 1 .. Len(f)
        /\ top - Len(f) + (i + 1) - 1 = top - (Len(f) - 1) + i - 1
    BY <1>1
  <2>2. Tail(f)[i] = f[i + 1] /\ f[i + 1] = top - Len(f) + (i + 1) - 1
    BY <1>1, <1>2, <2>1
  <2> QED
    BY <2>1, <2>2
<1> QED
  BY <1>1, <1>3 DEF Window

LEMMA WindowAppend ==
  ASSUME NEW T, NEW f \in Seq(T), NEW t \in T, t \in Int, Window(f, t)
  PROVE  Window(Append(f, t), t + 1)
<1>1. /\ Len(f) \in Nat /\ Len(Append(f, t)) = Len(f) + 1
      /\ \A i \in 1 .. Len(f) : Append(f, t)[i] = f[i]
      /\ Append(f, t)[Len(f) + 1] = t
  BY AppendProps
<1>2. \A i \in 1 .. Len(f) : f[i] = t - Len(f) + i - 1
  BY DEF Window
<1>3. ASSUME NEW i \in 1 .. Len(f) + 1
      PROVE  Append(f, t)[i] = (t + 1) - (Len(f) + 1) + i - 1
  <2>1. CASE i \in 1 .. Len(f)
    <3>1. t - Len(f) + i - 1 = (t + 1) - (Len(f) + 1) + i - 1
      BY <1>1
    <3>2. Append(f, t)[i] = t - Len(f) + i - 1
      BY <1>1, <1>2, <2>1
    <3> QED
      BY <3>1, <3>2
  <2>2. CASE i = Len(f) + 1
    <3>1. (t + 1) - (Len(f) + 1) + i - 1 = t
      BY <1>1, <2>2
    <3> QED
      BY <1>1, <2>2, <3>1
  <2> QED
    BY <1>1, <2>1, <2>2
<1> QED
  BY <1>1, <1>3 DEF Window

\* The oldest ticket leaves the slots; a ticket joins those not submitted; the
\* reader submits one.
LEMMA SlotsTail ==
  ASSUME NEW T, NEW f \in Seq(T), f # <<>>, NEW k \in Nat \ {0},
         NEW p \in Nat, NEW ar, NEW ld, NEW st, k <= Len(f),
         SlotsHold(ar, ld, st, p, f, k), Filled(ar, f, k)
  PROVE  /\ SlotsHold(ar, ld, st, p + 1, Tail(f), k - 1)
         /\ Filled(ar, Tail(f), k - 1)
<1>1. /\ Len(f) \in Nat \ {0} /\ Len(Tail(f)) = Len(f) - 1
      /\ \A i \in 1 .. Len(f) - 1 : Tail(f)[i] = f[i + 1]
  BY TailProps
<1>2. ASSUME NEW i \in 1 .. k - 1
      PROVE  Holds(ar[Slot(Tail(f)[i])], ld[(p + 1) + i],
                   st[<<Me, (p + 1) + i>>], Tail(f)[i])
  <2>1. /\ i + 1 \in 1 .. k /\ p + (i + 1) = (p + 1) + i
        /\ i \in 1 .. Len(f) - 1
    BY <1>1
  <2>2. Holds(ar[Slot(f[i + 1])], ld[p + (i + 1)], st[<<Me, p + (i + 1)>>],
              f[i + 1])
    BY <2>1 DEF SlotsHold
  <2> QED
    BY <1>1, <2>1, <2>2
<1>3. ASSUME NEW i \in k - 1 + 1 .. Len(f) - 1
      PROVE  ar[Slot(Tail(f)[i])] = Input(Tail(f)[i])
  <2>1. i + 1 \in k + 1 .. Len(f) /\ i \in 1 .. Len(f) - 1
    BY <1>1
  <2>2. ar[Slot(f[i + 1])] = Input(f[i + 1])
    BY <2>1 DEF Filled
  <2> QED
    BY <1>1, <2>1, <2>2
<1> QED
  BY <1>1, <1>2, <1>3 DEF SlotsHold, Filled

LEMMA SlotsAppend ==
  ASSUME NEW T, NEW f \in Seq(T), NEW t \in T, NEW k \in Nat,
         NEW p \in Nat, NEW ar, NEW ld, NEW st, k <= Len(f),
         SlotsHold(ar, ld, st, p, f, k), Filled(ar, f, k),
         ar[Slot(t)] = Input(t)
  PROVE  /\ SlotsHold(ar, ld, st, p, Append(f, t), k)
         /\ Filled(ar, Append(f, t), k)
<1>1. /\ Len(f) \in Nat /\ Len(Append(f, t)) = Len(f) + 1
      /\ \A i \in 1 .. Len(f) : Append(f, t)[i] = f[i]
      /\ Append(f, t)[Len(f) + 1] = t
  BY AppendProps
<1>2. ASSUME NEW i \in 1 .. k
      PROVE  Holds(ar[Slot(Append(f, t)[i])], ld[p + i],
                   st[<<Me, p + i>>], Append(f, t)[i])
  <2>1. i \in 1 .. Len(f)
    BY <1>1
  <2>2. Holds(ar[Slot(f[i])], ld[p + i], st[<<Me, p + i>>], f[i])
    BY DEF SlotsHold
  <2> QED
    BY <1>1, <2>1, <2>2
<1>3. ASSUME NEW i \in k + 1 .. Len(f) + 1
      PROVE  ar[Slot(Append(f, t)[i])] = Input(Append(f, t)[i])
  <2>1. CASE i = Len(f) + 1
    BY <1>1, <2>1
  <2>2. CASE i # Len(f) + 1
    <3>1. i \in k + 1 .. Len(f) /\ i \in 1 .. Len(f)
      BY <1>1, <2>2
    <3> QED
      BY <1>1, <3>1 DEF Filled
  <2> QED
    BY <2>1, <2>2
<1> QED
  BY <1>1, <1>2, <1>3 DEF SlotsHold, Filled

LEMMA SlotsSubmit ==
  ASSUME NEW f, Len(f) \in Nat, NEW k \in Nat, NEW p \in Nat, NEW ar, NEW ld,
         NEW st, NEW tt, k + 1 <= Len(f),
         SlotsHold(ar, ld, st, p, f, k), Filled(ar, f, k),
         ld[p + k + 1] = Nothing,
         tt[<<Me, p + k + 1>>] \in {"queued", "refused"},
         \A i \in 1 .. k : tt[<<Me, p + i>>] = st[<<Me, p + i>>]
  PROVE  SlotsHold(ar, ld, tt, p, f, k + 1) /\ Filled(ar, f, k + 1)
<1>1. ASSUME NEW i \in 1 .. k + 1
      PROVE  Holds(ar[Slot(f[i])], ld[p + i], tt[<<Me, p + i>>], f[i])
  <2>1. CASE i = k + 1
    <3>1. p + i = p + k + 1 /\ k + 1 \in k + 1 .. Len(f)
      BY <2>1
    <3>2. ar[Slot(f[k + 1])] = Input(f[k + 1])
      BY <3>1 DEF Filled
    <3> QED
      BY <2>1, <3>1, <3>2 DEF Holds
  <2>2. CASE i # k + 1
    <3>1. i \in 1 .. k
      BY <2>2
    <3> QED
      BY <3>1 DEF SlotsHold
  <2> QED
    BY <2>1, <2>2
<1>2. \A i \in k + 1 + 1 .. Len(f) : i \in k + 1 .. Len(f)
  OBVIOUS
<1> QED
  BY <1>1, <1>2 DEF SlotsHold, Filled

\* How many calls in flight have been submitted, from what has not.
Counted ==
  Calling =>
    /\ rpc = "run" => Submitted = Len(inflight) - Len(toBroker) - 1
    /\ rpc # "run" => Submitted = Len(inflight) - Len(toBroker)
    /\ Submitted \in Nat /\ Past \in Nat /\ Past + Submitted = Len(calls)
    /\ Submitted <= Len(inflight) /\ Len(inflight) \in Nat
    /\ Len(toBroker) \in Nat /\ Len(calls) \in Nat

LEMMA CountedProps == IInv => Counted
<1> SUFFICES ASSUME IInv, Calling
             PROVE  Counted
  BY DEF Counted
<1>1. Lengths /\ PathInv /\ CallInv /\ Alive
  BY LengthProps DEF IInv, Calling
<1>2. /\ Held \in Nat /\ Submitted \in Nat /\ Past \in Int /\ Read \in Nat
      /\ Len(inflight) \in Nat /\ Len(toBroker) \in Nat
      /\ Len(calls) \in Nat
  BY <1>1 DEF Lengths
<1>3. /\ rpc = "run" => Read = Held + 1 /\ Submitted = Held
      /\ rpc = "put" => Read = Held + 1 /\ Submitted = Held + 1
      /\ rpc = "recv" => Read = Held /\ Submitted = Held
  BY <1>1 DEF Lengths
<1>4. rpc \in {"recv", "run", "put"} /\ Len(inflight) = Read + Len(toBroker)
  BY <1>1 DEF PathInv
<1>5. 0 <= Past /\ Aligned(calls, Past, inflight, Submitted)
  BY <1>1 DEF CallInv
<1>6. Past + Submitted = Len(calls) /\ Submitted <= Len(inflight)
  BY <1>5 DEF Aligned
<1>7. /\ rpc = "run" => Submitted = Len(inflight) - Len(toBroker) - 1
      /\ rpc # "run" => Submitted = Len(inflight) - Len(toBroker)
  BY <1>2, <1>3, <1>4
<1> QED
  BY <1>2, <1>5, <1>6, <1>7 DEF Counted

LEMMA CountedNext == IInv' => Counted'
BY CountedProps, PTL

\* What the steps of the client's caller, of the threads and of the device
\* have in common.
Others ==
  \/ Collected \/ (\E t \in Tickets : Wait(t))
  \/ (\E op \in {"stats", "bye"} : Drain(op)) \/ Ask \/ GetAnswer \/ Die
  \/ Reader \/ Sender \/ Device \/ UNCHANGED vars

LEMMA OthersProps ==
  ASSUME Others
  PROVE  /\ inflight' = inflight /\ (Alive' => Alive)
         /\ (Alive' => Top' = Top)
         /\ (cpc' = "send" => cpc = "send" /\ want' = want)
<1>1. CASE Collected \/ Ask \/ GetAnswer \/ Die
  BY <1>1 DEF Collected, Ask, GetAnswer, Die, Alive, Top, Filling
<1>2. CASE (\E t \in Tickets : Wait(t))
           \/ \E op \in {"stats", "bye"} : Drain(op)
  BY <1>2 DEF Wait, Drain, Alive, Top, Filling
<1>3. ASSUME UNCHANGED <<cpc, seq, want, inflight>>
      PROVE  /\ inflight' = inflight /\ (Alive' => Alive)
             /\ (Alive' => Top' = Top)
             /\ (cpc' = "send" => cpc = "send" /\ want' = want)
  BY <1>3 DEF Alive, Top, Filling
<1>4. CASE Reader
  <2>1. UNCHANGED client
    BY <1>4 DEF Reader, Recv, EndOfFile, NoArena, SubmitCall, Put,
       PutControl, StopSender, Unmap
  <2> QED
    BY <1>3, <2>1 DEF client
<1>5. CASE Sender \/ UNCHANGED vars
  <2>1. UNCHANGED client
    BY <1>5 DEF Sender, Get, Reply, ReplyFails, vars
  <2> QED
    BY <1>3, <2>1 DEF client
<1>6. CASE Device
  <2>1. UNCHANGED client
    BY <1>6 DEF Device, CopyIn, Start, Return, Answer, Drop
  <2> QED
    BY <1>3, <2>1 DEF client
<1> QED
  BY <1>1, <1>2, <1>4, <1>5, <1>6 DEF Others

LEMMA WindowStep ==
  ASSUME OversizedAssumption, IInv, WindowInv, [Next]_vars
  PROVE  WindowInv'
<1>1. /\ inflight \in Seq(Tickets) /\ Len(inflight) \in Nat
      /\ seq \in Int /\ want \in Int /\ Top \in Int
      /\ Depth \in Nat \ {0} /\ Tickets \subseteq Int
  <2>1. inflight \in Seq(Tickets) /\ Tickets \subseteq Int
    BY SeqTypes DEF IInv
  <2>2. seq \in Int /\ want \in Int
    BY LinkAssumption DEF IInv, TypeOK, LinkAssumption
  <2> QED
    BY <2>1, <2>2, LinkAssumption DEF Top, LinkAssumption
<1>2. Window(<<>>, seq') /\ Len(<<>>) = 0
  BY DEF Window
<1>3. CASE Submit
  <2>1. /\ cpc = "idle" /\ cpc' = "room" /\ want' = seq
        /\ inflight' = inflight
    BY <1>3 DEF Submit
  <2>2. Alive /\ Top = seq /\ Top' = seq
    BY <2>1 DEF Alive, Top, Filling
  <2> QED
    BY <2>1, <2>2 DEF WindowInv
<1>4. CASE TooLarge
  <2>1. /\ cpc = "idle" /\ cpc' = cpc /\ inflight = <<>>
        /\ inflight' = inflight
    BY <1>4 DEF TooLarge, OversizedAssumption
  <2>2. Top' = seq'
    BY <2>1 DEF Top, Filling
  <2>3. Len(inflight') <= Depth /\ Window(inflight', seq')
    BY <1>1, <1>2, <2>1
  <2> QED
    BY <2>1, <2>2, <2>3 DEF WindowInv
<1>5. CASE Fill
  <2>1. /\ cpc = "room" /\ ~ (Len(inflight) >= Depth)
        /\ UNCHANGED <<want, seq, inflight>> /\ cpc' = "send"
    BY <1>5 DEF Fill, MustReceive
  <2>2. Alive /\ Top' = Top
    BY <2>1 DEF Alive, Top, Filling
  <2>3. Len(inflight) < Depth
    BY <1>1, <2>1
  <2> QED
    BY <1>1, <2>1, <2>2, <2>3 DEF WindowInv
<1>6. CASE ReceiveOne
  <2>1. /\ inflight # <<>> /\ inflight' = Tail(inflight) /\ Calling
        /\ UNCHANGED <<cpc, seq, want>>
    BY <1>6, ReplyProps
  <2>2. Alive /\ Top' = Top
    BY <2>1 DEF Calling, Alive, Top, Filling
  <2>3. Window(inflight', Top)
    BY <1>1, <2>1, <2>2, WindowTail DEF WindowInv
  <2>4. Len(inflight') = Len(inflight) - 1
    BY <1>1, <2>1, TailProps
  <2>5. Len(inflight) <= Depth /\ (cpc = "send" => Len(inflight) < Depth)
    BY <2>2 DEF WindowInv
  <2>6. /\ Len(inflight') <= Depth
        /\ cpc = "send" => Len(inflight') < Depth
    BY <1>1, <2>4, <2>5
  <2> QED
    BY <2>1, <2>2, <2>3, <2>6 DEF WindowInv
<1>7. CASE Send
  <2>1. /\ cpc = "send" /\ cpc' = "idle" /\ seq' = seq
        /\ inflight' = Append(inflight, want)
    BY <1>7 DEF Send
  <2>2. Alive /\ Filling /\ Top = want /\ Top' = seq
    BY <2>1 DEF Alive, Filling, Top
  <2>3. seq = want + 1 /\ want \in Tickets
    <3>1. want = seq - 1 /\ want \in Tickets
      BY <2>2 DEF IInv, TicketInv
    <3> QED
      BY <1>1, <3>1
  <2>4. Window(inflight, want) /\ Len(inflight) < Depth
    BY <2>1, <2>2 DEF WindowInv
  <2>5. Window(inflight', seq)
    BY <1>1, <2>1, <2>3, <2>4, WindowAppend
  <2>6. Len(inflight') <= Depth
    <3>1. Len(inflight') = Len(inflight) + 1
      BY <1>1, <2>1, <2>3, AppendProps
    <3> QED
      BY <1>1, <2>4, <3>1
  <2> QED
    BY <2>1, <2>2, <2>5, <2>6 DEF WindowInv
<1>8. CASE Others
  <2>1. /\ inflight' = inflight /\ (Alive' => Alive)
        /\ (Alive' => Top' = Top)
        /\ (cpc' = "send" => cpc = "send" /\ want' = want)
    BY <1>8, OthersProps
  <2> QED
    BY <2>1 DEF WindowInv
<1> QED
  BY <1>3, <1>4, <1>5, <1>6, <1>7, <1>8
  DEF Next, Program, ClientStep, Done, Others

\* The steps that touch no slot, no copy of one and no call.
Quiet ==
  \/ Submit \/ TooLarge \/ Collected \/ (\E t \in Tickets : Wait(t))
  \/ (\E op \in {"stats", "bye"} : Drain(op)) \/ Die
  \/ Recv \/ EndOfFile \/ NoArena \/ Put \/ PutControl \/ StopSender
  \/ Unmap \/ Sender \/ UNCHANGED vars

LEMMA QuietProps ==
  ASSUME IInv, IInv', Quiet
  PROVE  /\ UNCHANGED <<inflight, calls, results, arena, loaded, status>>
         /\ (Alive' => Alive) /\ (Calling' => Calling)
         /\ (cpc' = "send" => cpc = "send" /\ want' = want)
         /\ (Calling' => Submitted' = Submitted /\ Past' = Past)
<1>1. /\ UNCHANGED <<inflight, calls, results, arena, loaded, status>>
      /\ (Alive' => Alive) /\ (Calling' => Calling)
      /\ (cpc' = "send" => cpc = "send" /\ want' = want)
  <2>1. CASE Submit \/ TooLarge \/ Collected \/ Die
    BY <2>1 DEF Submit, TooLarge, Collected, Die, reader, sender, device,
       Alive, Calling
  <2>2. CASE (\E t \in Tickets : Wait(t))
             \/ \E op \in {"stats", "bye"} : Drain(op)
    BY <2>2 DEF Wait, Drain, reader, sender, device, Alive, Calling
  <2>3. ASSUME UNCHANGED <<client, arena, calls, loaded, status>>
        PROVE  /\ UNCHANGED <<inflight, calls, results, arena, loaded, status>>
               /\ (Alive' => Alive) /\ (Calling' => Calling)
               /\ (cpc' = "send" => cpc = "send" /\ want' = want)
    BY <2>3 DEF client, Alive, Calling
  <2>4. CASE Recv \/ EndOfFile \/ NoArena \/ Put \/ PutControl
             \/ StopSender \/ Unmap
    <3>1. UNCHANGED <<client, arena, calls, loaded, status>>
      BY <2>4 DEF Recv, EndOfFile, NoArena, Put, PutControl, StopSender,
         Unmap, device
    <3> QED
      BY <2>3, <3>1
  <2>5. CASE Sender \/ UNCHANGED vars
    <3>1. UNCHANGED <<client, arena, calls, loaded, status>>
      BY <2>5 DEF Sender, Get, Reply, ReplyFails, vars, reader, device
    <3> QED
      BY <2>3, <3>1
  <2> QED
    BY <2>1, <2>2, <2>4, <2>5 DEF Quiet
<1>2. ASSUME Calling'
      PROVE  Submitted' = Submitted /\ Past' = Past
  <2>1. Calling /\ Counted /\ Counted'
    BY <1>1, <1>2, CountedProps, CountedNext
  <2>2. /\ rpc = "run" => Submitted = Len(inflight) - Len(toBroker) - 1
        /\ rpc # "run" => Submitted = Len(inflight) - Len(toBroker)
        /\ Past + Submitted = Len(calls) /\ Past \in Nat /\ Submitted \in Nat
        /\ Len(inflight) \in Nat /\ Len(toBroker) \in Nat
    BY <2>1 DEF Counted
  <2>3. /\ rpc' = "run" => Submitted' = Len(inflight) - Len(toBroker') - 1
        /\ rpc' # "run" => Submitted' = Len(inflight) - Len(toBroker')
        /\ Past' + Submitted' = Len(calls)
        /\ Past' \in Nat /\ Submitted' \in Nat
    BY <1>1, <1>2, <2>1 DEF Counted
  <2>4. /\ rpc \in {"recv", "run", "put"} /\ rpc' \in {"recv", "run", "put"}
    BY <1>2, <2>1 DEF IInv, PathInv
  <2>5. CASE Recv
    <3>1. /\ rpc = "recv" /\ toBroker # <<>> /\ toBroker' = Tail(toBroker)
          /\ rpc' = Head(toBroker).op
      BY <2>5 DEF Recv
    <3>2. toBroker \in Seq(Messages({"run", "stats", "bye"}))
      BY SeqTypes DEF IInv
    <3>3. /\ Len(toBroker') = Len(toBroker) - 1
          /\ Head(toBroker) \in Messages({"run", "stats", "bye"})
      BY <3>1, <3>2, TailProps
    <3>4. rpc' = "run"
      BY <2>4, <3>1, <3>3 DEF Messages
    <3> QED
      BY <2>2, <2>3, <3>1, <3>3, <3>4
  <2>6. CASE Put
    <3>1. rpc = "put" /\ rpc' = "recv" /\ toBroker' = toBroker
      BY <2>6 DEF Put
    <3> QED
      BY <2>2, <2>3, <3>1
  <2>7. ASSUME rpc' = rpc, toBroker' = toBroker
        PROVE  Submitted' = Submitted /\ Past' = Past
    BY <2>2, <2>3, <2>7
  <2>8. CASE EndOfFile \/ NoArena \/ PutControl \/ StopSender \/ Unmap
    <3>1. rpc' \notin {"run", "put"} /\ (rpc' = "recv" => rpc = "stats")
      BY <2>8 DEF EndOfFile, NoArena, PutControl, StopSender, Unmap
    <3> QED
      BY <2>4, <3>1
  <2>9. CASE Submit \/ TooLarge \/ Collected \/ Die \/ Sender
             \/ UNCHANGED vars
    <3>1. rpc' = rpc /\ toBroker' = toBroker
      BY <2>9 DEF Submit, TooLarge, Collected, Die, Sender, Get, Reply,
         ReplyFails, vars, reader
    <3> QED
      BY <2>7, <3>1
  <2>10. CASE (\E t \in Tickets : Wait(t))
              \/ \E op \in {"stats", "bye"} : Drain(op)
    <3>1. rpc' = rpc /\ toBroker' = toBroker
      BY <2>10 DEF Wait, Drain, reader
    <3> QED
      BY <2>7, <3>1
  <2> QED
    BY <2>5, <2>6, <2>8, <2>9, <2>10 DEF Quiet
<1> QED
  BY <1>1, <1>2

\* What a step shows of SlotInv once the calls and slots are accounted for.
LEMMA QuietSlots ==
  ASSUME IInv, IInv', Quiet, SlotInv, ResultsAreOwn
  PROVE  SlotInv' /\ ResultsAreOwn'
<1>1. /\ UNCHANGED <<inflight, calls, results, arena, loaded, status>>
      /\ (Alive' => Alive) /\ (Calling' => Calling)
      /\ (cpc' = "send" => cpc = "send" /\ want' = want)
      /\ (Calling' => Submitted' = Submitted /\ Past' = Past)
  BY QuietProps
<1>2. SlotInv'
  <2>1. SUFFICES ASSUME Alive'
                 PROVE  SlotInv'
    BY DEF SlotInv
  <2>2. /\ \A n \in Numbers : n > Len(calls) => loaded[n] = Nothing
        /\ Calling => /\ SlotsHold(arena, loaded, status, Past, inflight,
                                   Submitted)
                      /\ Filled(arena, inflight, Submitted)
        /\ cpc = "send" => arena[Slot(want)] = Input(want)
    BY <1>1, <2>1 DEF SlotInv
  <2> QED
    BY <1>1, <2>2 DEF SlotInv
<1>3. ResultsAreOwn'
  BY <1>1 DEF ResultsAreOwn
<1> QED
  BY <1>2, <1>3

\* The arena's types, for writing slots.
LEMMA SlotTypes ==
  ASSUME IInv
  PROVE  /\ arena \in [0 .. Depth - 1 -> Contents]
         /\ loaded \in [Numbers -> Contents]
         /\ inflight \in Seq(Tickets) /\ Tickets \subseteq Int
         /\ Tickets \in SUBSET Int /\ want \in Int /\ Top \in Int
         /\ \A i \in 1 .. Len(inflight) :
              inflight[i] \in Int /\ Slot(inflight[i]) \in 0 .. Depth - 1
<1>1. /\ inflight \in Seq(Tickets) /\ Tickets \subseteq Int
      /\ Tickets \in SUBSET Int
  BY SeqTypes DEF IInv
<1>2. want \in Int /\ Top \in Int
  BY LinkAssumption DEF IInv, TypeOK, Top, LinkAssumption
<1>3. ASSUME NEW i \in 1 .. Len(inflight)
      PROVE  inflight[i] \in Int /\ Slot(inflight[i]) \in 0 .. Depth - 1
  <2>1. inflight[i] \in Tickets
    BY <1>1
  <2>2. inflight[i] \in Int
    BY <1>1, <2>1
  <2> QED
    BY <2>2, SlotRange
<1> QED
  BY <1>1, <1>2, <1>3 DEF IInv, TypeOK

LEMMA FillSlots ==
  ASSUME IInv, WindowInv, WindowInv', Fill, SlotInv, ResultsAreOwn
  PROVE  SlotInv' /\ ResultsAreOwn'
<1>1. /\ cpc = "room" /\ cpc' = "send" /\ ~ (Len(inflight) >= Depth)
      /\ arena' = [arena EXCEPT ![Slot(want)] = Input(want)]
      /\ UNCHANGED <<want, inflight, results, calls, loaded, status, toClient,
                     spc, rpc, replies>>
  BY DEF Fill, MustReceive, reader, sender, device
<1>2. /\ Alive /\ Calling /\ Calling' /\ Top = want
      /\ Past' = Past /\ Submitted' = Submitted
  BY <1>1 DEF Alive, Calling, Top, Filling, Past, Submitted, Held, Taken,
     Replied
<1>3. /\ arena \in [0 .. Depth - 1 -> Contents] /\ want \in Int
      /\ inflight \in Seq(Tickets) /\ Tickets \in SUBSET Int
      /\ \A i \in 1 .. Len(inflight) :
           inflight[i] \in Int /\ Slot(inflight[i]) \in 0 .. Depth - 1
  BY SlotTypes
<1>4. Slot(want) \in 0 .. Depth - 1
  BY <1>3, SlotRange
<1>5. \A i \in 1 .. Len(inflight) : Slot(inflight[i]) # Slot(want)
  <2>1. /\ Len(inflight) <= Depth /\ Window(inflight, want)
        /\ Len(inflight) < Depth
    BY <1>1, <1>2 DEF WindowInv, Alive
  <2> QED
    BY <1>3, <2>1, WindowApart
<1>6. /\ arena'[Slot(want)] = Input(want)
      /\ \A i \in 1 .. Len(inflight) :
           arena'[Slot(inflight[i])] = arena[Slot(inflight[i])]
  BY <1>1, <1>3, <1>4, <1>5
<1>7. Counted
  BY CountedProps
<1>8. Submitted \in Nat /\ Submitted <= Len(inflight) /\ Len(inflight) \in Nat
  BY <1>2, <1>7 DEF Counted
<1>9. /\ SlotsHold(arena, loaded, status, Past, inflight, Submitted)
      /\ Filled(arena, inflight, Submitted)
      /\ \A n \in Numbers : n > Len(calls) => loaded[n] = Nothing
  BY <1>2 DEF SlotInv
<1>10. SlotsHold(arena', loaded, status, Past, inflight, Submitted)
  <2>1. \A i \in 1 .. Submitted : i \in 1 .. Len(inflight)
    BY <1>8
  <2> QED
    BY <1>6, <1>9, <2>1 DEF SlotsHold
<1>11. Filled(arena', inflight, Submitted)
  <2>1. \A i \in Submitted + 1 .. Len(inflight) : i \in 1 .. Len(inflight)
    BY <1>8
  <2> QED
    BY <1>6, <1>9, <2>1 DEF Filled
<1>12. SlotInv'
  BY <1>1, <1>2, <1>6, <1>9, <1>10, <1>11 DEF SlotInv
<1>13. ResultsAreOwn'
  BY <1>1 DEF ResultsAreOwn
<1> QED
  BY <1>12, <1>13

LEMMA SendSlots ==
  ASSUME IInv, Send, SlotInv, ResultsAreOwn
  PROVE  SlotInv' /\ ResultsAreOwn'
<1>1. /\ cpc = "send" /\ cpc' = "idle" /\ inflight' = Append(inflight, want)
      /\ UNCHANGED <<results, calls, arena, loaded, status, toClient, spc,
                     rpc, replies>>
  BY DEF Send, reader, sender, device
<1>2. /\ Alive /\ Calling /\ Past' = Past /\ Submitted' = Submitted /\ Filling
  BY <1>1 DEF Alive, Calling, Past, Submitted, Held, Taken, Replied, Filling
<1>3. inflight \in Seq(Tickets) /\ want \in Tickets
  BY <1>2, SlotTypes DEF IInv, TicketInv
<1>4. /\ SlotsHold(arena, loaded, status, Past, inflight, Submitted)
      /\ Filled(arena, inflight, Submitted)
      /\ arena[Slot(want)] = Input(want)
      /\ \A n \in Numbers : n > Len(calls) => loaded[n] = Nothing
  BY <1>1, <1>2 DEF SlotInv
<1>5. Submitted \in Nat /\ Past \in Nat /\ Submitted <= Len(inflight)
  BY <1>2, CountedProps DEF Counted
<1>6. /\ SlotsHold(arena, loaded, status, Past, inflight', Submitted)
      /\ Filled(arena, inflight', Submitted)
  BY <1>1, <1>3, <1>4, <1>5, SlotsAppend
<1>7. SlotInv'
  BY <1>1, <1>2, <1>4, <1>6 DEF SlotInv
<1>8. ResultsAreOwn'
  BY <1>1 DEF ResultsAreOwn
<1> QED
  BY <1>7, <1>8

\* The reply that is read is ok only if the slot holds the call's own outputs.
LEMMA ReceiveSlots ==
  ASSUME IInv, IInv', ReceiveOne, SlotInv, ResultsAreOwn
  PROVE  SlotInv' /\ ResultsAreOwn'
<1>1. /\ Calling /\ toClient # <<>> /\ inflight # <<>>
      /\ inflight' = Tail(inflight) /\ inflight[1] \in Tickets
      /\ results' = [results EXCEPT ![inflight[1]] =
           IF toClient[1].op = "ok" THEN arena[Slot(inflight[1])]
           ELSE Error]
      /\ UNCHANGED <<cpc, want, rpc, toBroker, arena, calls, loaded, status>>
  BY ReplyProps
<1>2. Calling' /\ Alive /\ Alive'
  BY <1>1 DEF Calling, Alive
<1>3. Counted /\ Counted'
  BY CountedProps, CountedNext
<1>4. inflight \in Seq(Tickets) /\ toClient \in Seq(Messages(Statuses \cup
                                                             Commands))
  BY SeqTypes DEF IInv
<1>5. Len(inflight') = Len(inflight) - 1 /\ Len(inflight) \in Nat \ {0}
  BY <1>1, <1>4, TailProps
<1>6. /\ Submitted' = Submitted - 1 /\ Past' = Past + 1
      /\ Submitted \in Nat /\ Past \in Nat /\ Submitted <= Len(inflight)
  <2>1. /\ rpc = "run" => Submitted = Len(inflight) - Len(toBroker) - 1
        /\ rpc # "run" => Submitted = Len(inflight) - Len(toBroker)
        /\ Past + Submitted = Len(calls) /\ Past \in Nat /\ Submitted \in Nat
        /\ Len(toBroker) \in Nat /\ Submitted <= Len(inflight)
    BY <1>1, <1>3 DEF Counted
  <2>2. /\ rpc = "run" => Submitted' = Len(inflight') - Len(toBroker) - 1
        /\ rpc # "run" => Submitted' = Len(inflight') - Len(toBroker)
        /\ Past' + Submitted' = Len(calls)
        /\ Past' \in Nat /\ Submitted' \in Nat
    BY <1>1, <1>2, <1>3 DEF Counted
  <2>3. Submitted' = Submitted - 1
    BY <1>5, <2>1, <2>2
  <2> QED
    BY <2>1, <2>2, <2>3
<1>7. Submitted \in Nat \ {0}
  <2>1. Submitted' \in Nat
    BY <1>2, <1>3 DEF Counted
  <2> QED
    BY <1>6, <2>1
<1>8. /\ SlotsHold(arena, loaded, status, Past, inflight, Submitted)
      /\ Filled(arena, inflight, Submitted)
      /\ \A n \in Numbers : n > Len(calls) => loaded[n] = Nothing
      /\ cpc = "send" => arena[Slot(want)] = Input(want)
  BY <1>1, <1>2 DEF SlotInv
<1>9. /\ SlotsHold(arena, loaded, status, Past + 1, Tail(inflight),
                   Submitted - 1)
      /\ Filled(arena, Tail(inflight), Submitted - 1)
  BY <1>1, <1>4, <1>6, <1>7, <1>8, SlotsTail
<1>10. SlotInv'
  BY <1>1, <1>2, <1>6, <1>8, <1>9 DEF SlotInv
<1>11. toClient[1].op = status[<<Me, Past + 1>>]
  <2>1. Answered(toClient, status, Past)
    BY <1>1, <1>2 DEF IInv, CallInv
  <2>2. 1 \in 1 .. Len(toClient)
    BY <1>1, <1>4, TailProps
  <2> QED
    BY <2>1, <2>2 DEF Answered
<1>12. toClient[1].op = "ok" =>
         arena[Slot(inflight[1])] = Output(Input(inflight[1]))
  <2>1. 1 \in 1 .. Submitted
    BY <1>7
  <2>2. Holds(arena[Slot(inflight[1])], loaded[Past + 1],
              status[<<Me, Past + 1>>], inflight[1])
    BY <1>8, <2>1 DEF SlotsHold
  <2> QED
    BY <1>11, <2>2 DEF Holds
<1>13. ResultsAreOwn'
  <2>1. ASSUME NEW t \in Tickets
        PROVE  results'[t] \in {Nothing, Error, Output(Input(t))}
    <3>1. results \in [Tickets -> Contents]
      BY DEF IInv, TypeOK
    <3>2. CASE t = inflight[1]
      <4>1. results'[t] = IF toClient[1].op = "ok"
                          THEN arena[Slot(inflight[1])] ELSE Error
        BY <1>1, <3>1, <3>2
      <4> QED
        BY <1>12, <3>2, <4>1
    <3>3. CASE t # inflight[1]
      <4>1. results'[t] = results[t]
        BY <1>1, <3>1, <3>3
      <4> QED
        BY <4>1 DEF ResultsAreOwn
    <3> QED
      BY <3>2, <3>3
  <2> QED
    BY <2>1 DEF ResultsAreOwn
<1> QED
  BY <1>10, <1>13

\* Asking and being answered happen with no call in flight.
LEMMA AskSlots ==
  ASSUME IInv, IInv', Ask \/ GetAnswer, SlotInv, ResultsAreOwn
  PROVE  SlotInv' /\ ResultsAreOwn'
<1>1. /\ UNCHANGED <<inflight, results, calls, arena, loaded, status>>
      /\ cpc \in {"drain", "answer"} /\ cpc' \in {"answer", "gone", "idle"}
      /\ cpc' = "answer" \/ cpc = "answer"
  BY DEF Ask, GetAnswer, reader, sender, device
<1>2. Alive /\ (Calling' => inflight = <<>>)
  BY <1>1 DEF Alive, Calling, IInv, AskInv
<1>3. \A n \in Numbers : n > Len(calls) => loaded[n] = Nothing
  BY <1>2 DEF SlotInv
<1>4. ASSUME Calling'
      PROVE  /\ SlotsHold(arena, loaded, status, Past', inflight', Submitted')
             /\ Filled(arena, inflight', Submitted')
  <2>1. Submitted' \in Nat /\ Submitted' <= Len(inflight')
    BY <1>4, CountedNext DEF Counted
  <2>2. Len(inflight') = 0
    BY <1>1, <1>2, <1>4
  <2>3. Submitted' = 0
    BY <2>1, <2>2
  <2> QED
    BY <2>2, <2>3 DEF SlotsHold, Filled
<1>5. SlotInv'
  BY <1>1, <1>3, <1>4 DEF SlotInv
<1>6. ResultsAreOwn'
  BY <1>1 DEF ResultsAreOwn
<1> QED
  BY <1>5, <1>6

LEMMA SubmitSlots ==
  ASSUME IInv, IInv', SubmitCall, SlotInv, ResultsAreOwn
  PROVE  SlotInv' /\ ResultsAreOwn'
<1>1. /\ rpc = "run" /\ rpc' = "put" /\ Len(calls') = Len(calls) + 1
      /\ Len(calls) + 1 \in Numbers /\ Len(calls) \in Nat
      /\ Len(calls) + 1 <= MaxCalls
      /\ UNCHANGED <<cpc, want, inflight, results, toBroker, arena, loaded>>
  BY SubmitProps
<1>2. \A n \in Numbers : n # Len(calls) + 1 =>
        status'[<<Me, n>>] = status[<<Me, n>>]
  BY SubmitProps
<1>3. status'[<<Me, Len(calls) + 1>>] \in {"queued", "refused"}
  <2>1. \E s \in {"queued", "refused"} :
          status' = [status EXCEPT ![<<Me, sent[Me] + 1>>] = s]
    BY DEF SubmitCall, service!Request, service!Become
  <2>2. /\ sent[Me] = Len(calls)
        /\ status \in [{Me} \X Numbers -> Statuses]
    BY DEF IInv, ServiceInv, TypeOK
  <2>3. <<Me, Len(calls) + 1>> \in {Me} \X Numbers
    BY <1>1
  <2> QED
    BY <2>1, <2>2, <2>3
<1>4. ResultsAreOwn'
  BY <1>1 DEF ResultsAreOwn
<1>5. CASE ~ Alive
  BY <1>1, <1>4, <1>5 DEF SlotInv, Alive
<1>6. CASE Alive
  <2>1. Calling /\ Calling' /\ Counted /\ Counted' /\ Alive'
    BY <1>1, <1>6, CountedProps, CountedNext
    DEF Calling, Alive, IInv, AskInv
  <2>2. /\ Submitted = Len(inflight) - Len(toBroker) - 1
        /\ Past + Submitted = Len(calls) /\ Past \in Nat /\ Submitted \in Nat
        /\ Len(inflight) \in Nat /\ Len(toBroker) \in Nat
    BY <1>1, <2>1 DEF Counted
  <2>3. /\ Submitted' = Len(inflight) - Len(toBroker)
        /\ Past' + Submitted' = Len(calls) + 1
        /\ Past' \in Nat /\ Submitted' \in Nat
        /\ Submitted' <= Len(inflight)
    BY <1>1, <2>1 DEF Counted
  <2>4. /\ Submitted' = Submitted + 1 /\ Past' = Past
        /\ Submitted + 1 <= Len(inflight)
        /\ Past + Submitted + 1 = Len(calls) + 1
    BY <1>1, <2>2, <2>3
  <2>5. /\ SlotsHold(arena, loaded, status, Past, inflight, Submitted)
        /\ Filled(arena, inflight, Submitted)
        /\ \A n \in Numbers : n > Len(calls) => loaded[n] = Nothing
        /\ cpc = "send" => arena[Slot(want)] = Input(want)
    BY <1>6, <2>1 DEF SlotInv
  <2>6. loaded[Past + Submitted + 1] = Nothing
    <3>1. Len(calls) + 1 > Len(calls)
      BY <1>1
    <3> QED
      BY <1>1, <2>4, <2>5, <3>1
  <2>7. ASSUME NEW i \in 1 .. Submitted
        PROVE  status'[<<Me, Past + i>>] = status[<<Me, Past + i>>]
    <3>1. Past + i \in Nat /\ 1 <= Past + i /\ Past + i <= Len(calls)
      BY <2>2
    <3>2. Past + i \in Numbers /\ Past + i # Len(calls) + 1
      BY <1>1, <3>1, LinkAssumption DEF Numbers, LinkAssumption
    <3> QED
      BY <1>2, <3>2
  <2>8. status'[<<Me, Past + Submitted + 1>>] \in {"queued", "refused"}
    BY <1>3, <2>4
  <2>9. /\ SlotsHold(arena, loaded, status', Past, inflight, Submitted + 1)
        /\ Filled(arena, inflight, Submitted + 1)
    BY <2>2, <2>4, <2>5, <2>6, <2>7, <2>8, SlotsSubmit
  <2>10. \A n \in Numbers : n > Len(calls') => loaded[n] = Nothing
    <3>1. \A n \in Numbers : n > Len(calls') => n > Len(calls)
      BY <1>1 DEF Numbers
    <3> QED
      BY <2>5, <3>1
  <2>11. SlotInv'
    BY <1>1, <2>4, <2>5, <2>9, <2>10 DEF SlotInv
  <2> QED
    BY <1>4, <2>11
<1> QED
  BY <1>5, <1>6


\* A call the device has work to do for is in flight, and the reader has
\* submitted it.
LEMMA WaitingPlace ==
  ASSUME IInv, Alive, NEW n \in Numbers, Waiting(n)
  PROVE  /\ Calling /\ n <= Len(calls)
         /\ \E o \in 1 .. Submitted : n = Past + o /\ calls[n] = inflight[o]
<1>1. n \in Nat /\ Len(calls) \in Nat
  BY LinkAssumption, LengthProps DEF Numbers, LinkAssumption, IInv, Lengths
<1>2. n <= Len(calls)
  <2>1. status[<<Me, n>>] # "none"
    BY DEF Waiting, Pending
  <2>2. ~ (n > Len(calls))
    BY <2>1 DEF IInv, ServiceInv
  <2> QED
    BY <1>1, <2>2
<1>3. ~ (n <= Past)
  BY DEF IInv, CallInv, Finished, Waiting
<1>4. Calling
  <2>1. CASE cpc = "answer"
    <3>1. Past = Len(calls)
      BY <2>1, LengthProps DEF IInv, Lengths
    <3> QED
      BY <1>2, <1>3, <3>1
  <2> QED
    BY <2>1 DEF Calling
<1>5. /\ Past \in Nat /\ Submitted \in Nat /\ Past + Submitted = Len(calls)
  BY <1>4, CountedProps DEF Counted
<1>6. n - Past \in 1 .. Submitted /\ n = Past + (n - Past)
  BY <1>1, <1>2, <1>3, <1>5
<1>7. \A i \in 1 .. Submitted : calls[Past + i] = inflight[i]
  BY <1>4 DEF IInv, CallInv, Aligned
<1> QED
  BY <1>2, <1>4, <1>6, <1>7

\* What the device does for one call touches that call's slot only.
LEMMA DeviceOne ==
  ASSUME IInv, Calling, WindowInv, SlotInv, NEW o \in 1 .. Submitted,
         UNCHANGED <<cpc, seq, want, inflight, toClient, rpc, calls, spc,
                     replies>>,
         \A s \in 0 .. Depth - 1 :
           s # Slot(inflight[o]) => arena'[s] = arena[s],
         \A m \in Numbers : m # Past + o =>
           /\ loaded'[m] = loaded[m]
           /\ status'[<<Me, m>>] = status[<<Me, m>>],
         Holds(arena'[Slot(inflight[o])], loaded'[Past + o],
               status'[<<Me, Past + o>>], inflight[o])
  PROVE  SlotInv'
<1>1. /\ Submitted \in Nat /\ Past \in Nat /\ Past + Submitted = Len(calls)
      /\ Submitted <= Len(inflight) /\ Len(inflight) \in Nat
      /\ Len(calls) \in Nat
  BY CountedProps DEF Counted
<1>2. /\ Alive /\ Alive' /\ Calling' /\ Past' = Past
      /\ Submitted' = Submitted
  BY DEF Alive, Calling, Past, Submitted, Held, Taken, Replied
<1>3. /\ inflight \in Seq(Tickets) /\ Tickets \in SUBSET Int
      /\ want \in Int /\ Top \in Int
      /\ \A i \in 1 .. Len(inflight) :
           inflight[i] \in Int /\ Slot(inflight[i]) \in 0 .. Depth - 1
  BY SlotTypes
<1>4. /\ Len(inflight) <= Depth /\ Window(inflight, Top)
      /\ cpc = "send" => Len(inflight) < Depth /\ Top = want
  BY <1>2 DEF WindowInv, Top, Filling
<1>5. /\ \A i, j \in 1 .. Len(inflight) : i # j =>
           Slot(inflight[i]) # Slot(inflight[j])
      /\ Len(inflight) < Depth => \A i \in 1 .. Len(inflight) :
           Slot(inflight[i]) # Slot(Top)
  BY <1>3, <1>4, WindowApart
<1>6. /\ \A n \in Numbers : n > Len(calls) => loaded[n] = Nothing
      /\ SlotsHold(arena, loaded, status, Past, inflight, Submitted)
      /\ Filled(arena, inflight, Submitted)
      /\ cpc = "send" => arena[Slot(want)] = Input(want)
  BY <1>2 DEF SlotInv
<1>7. o \in 1 .. Len(inflight)
  BY <1>1
<1>8. \A i \in 1 .. Len(inflight) : i # o =>
        arena'[Slot(inflight[i])] = arena[Slot(inflight[i])]
  BY <1>3, <1>5, <1>7
<1>9. \A i \in 1 .. Submitted : i # o =>
        /\ loaded'[Past + i] = loaded[Past + i]
        /\ status'[<<Me, Past + i>>] = status[<<Me, Past + i>>]
  <2>1. ASSUME NEW i \in 1 .. Submitted, i # o
        PROVE  Past + i \in Numbers /\ Past + i # Past + o
    <3>1. Len(calls) <= MaxCalls /\ MaxCalls \in Nat
      BY LinkAssumption DEF IInv, ServiceInv, LinkAssumption
    <3>2. /\ Past + i \in Int /\ 1 <= Past + i /\ Past + i <= MaxCalls
          /\ Past + i # Past + o
      BY <1>1, <2>1, <3>1
    <3> QED
      BY <3>1, <3>2 DEF Numbers
  <2> QED
    BY <2>1
<1>10. SlotsHold(arena', loaded', status', Past, inflight, Submitted)
  <2>1. ASSUME NEW i \in 1 .. Submitted
        PROVE  Holds(arena'[Slot(inflight[i])], loaded'[Past + i],
                     status'[<<Me, Past + i>>], inflight[i])
    <3>1. CASE i = o
      BY <3>1
    <3>2. CASE i # o
      <4>1. i \in 1 .. Len(inflight)
        BY <1>1
      <4>2. Holds(arena[Slot(inflight[i])], loaded[Past + i],
                  status[<<Me, Past + i>>], inflight[i])
        BY <1>6 DEF SlotsHold
      <4>3. /\ arena'[Slot(inflight[i])] = arena[Slot(inflight[i])]
            /\ loaded'[Past + i] = loaded[Past + i]
            /\ status'[<<Me, Past + i>>] = status[<<Me, Past + i>>]
        BY <1>8, <1>9, <3>2, <4>1
      <4> QED
        BY <4>2, <4>3
    <3> QED
      BY <3>1, <3>2
  <2> QED
    BY <2>1 DEF SlotsHold
<1>13. Filled(arena', inflight, Submitted)
  <2>1. ASSUME NEW i \in Submitted + 1 .. Len(inflight)
        PROVE  arena'[Slot(inflight[i])] = Input(inflight[i])
    <3>1. i \in 1 .. Len(inflight) /\ i # o
      BY <1>1
    <3>2. arena[Slot(inflight[i])] = Input(inflight[i])
      BY <1>6 DEF Filled
    <3> QED
      BY <1>8, <3>1, <3>2
  <2> QED
    BY <2>1 DEF Filled
<1>11. \A n \in Numbers : n > Len(calls) => loaded'[n] = Nothing
  <2>1. Past + o <= Len(calls) /\ Past + o \in Int
    BY <1>1
  <2>2. \A n \in Numbers : n > Len(calls) => n # Past + o
    BY <1>1, <2>1 DEF Numbers
  <2> QED
    BY <1>6, <2>2
<1>12. cpc = "send" => arena'[Slot(want)] = Input(want)
  <2>1. SUFFICES ASSUME cpc = "send" PROVE arena'[Slot(want)] = Input(want)
    OBVIOUS
  <2>2. Slot(want) # Slot(inflight[o])
    BY <1>4, <1>5, <1>7, <2>1
  <2>3. Slot(want) \in 0 .. Depth - 1
    BY <1>3, SlotRange
  <2> QED
    BY <1>6, <2>1, <2>2, <2>3
<1> QED
  BY <1>2, <1>10, <1>11, <1>12, <1>13 DEF SlotInv

LEMMA CopyInSlots ==
  ASSUME IInv, Alive, WindowInv, SlotInv, NEW n \in Numbers, CopyIn(n)
  PROVE  SlotInv'
<1>1. /\ status[<<Me, n>>] = "queued" /\ loaded[n] = Nothing
      /\ loaded' = [loaded EXCEPT ![n] = arena[Slot(calls[n])]]
      /\ UNCHANGED <<cpc, seq, want, inflight, toClient, rpc, calls, spc,
                     replies, arena, status>>
  BY DEF CopyIn, Is, client, reader, sender
<1>2. Waiting(n)
  BY <1>1 DEF Waiting, Pending
<1>3. Calling
  BY <1>2, WaitingPlace
<1>4. PICK o \in 1 .. Submitted : n = Past + o /\ calls[n] = inflight[o]
  BY <1>2, WaitingPlace
<1>5. Holds(arena[Slot(inflight[o])], loaded[n], "queued", inflight[o])
  BY <1>1, <1>3, <1>4 DEF SlotInv, SlotsHold, Calling
<1>6. arena[Slot(inflight[o])] = Input(inflight[o])
  BY <1>1, <1>5 DEF Holds
<1>7. /\ loaded'[n] = Input(inflight[o])
      /\ \A m \in Numbers : m # n => loaded'[m] = loaded[m]
  BY <1>1, <1>4, <1>6, SlotTypes
<1>8. Holds(arena'[Slot(inflight[o])], loaded'[Past + o],
            status'[<<Me, Past + o>>], inflight[o])
  BY <1>1, <1>4, <1>6, <1>7 DEF Holds
<1>9. \A m \in Numbers : m # Past + o =>
        loaded'[m] = loaded[m] /\ status'[<<Me, m>>] = status[<<Me, m>>]
  BY <1>1, <1>4, <1>7
<1> QED
  BY <1>1, <1>3, <1>8, <1>9, DeviceOne

\* A call starts with its inputs, runs to the end or never comes back.
LEMMA RunSlots ==
  ASSUME IInv, Alive, WindowInv, SlotInv, NEW n \in Numbers,
         Start(n) \/ Return(n)
  PROVE  SlotInv'
<1>1. /\ \/ Is(n, "queued") /\ loaded[n] # Nothing
         \/ Is(n, "running")
      /\ \E s \in {"running", "executed", "hung"} :
           status' = [status EXCEPT ![<<Me, n>>] = s]
      /\ UNCHANGED <<cpc, seq, want, inflight, toClient, rpc, calls, spc,
                     replies, arena, loaded>>
  BY DEF Start, Return, service!Start, service!Return, service!Is,
     service!Become, Is, client, reader, sender
<1>2. Waiting(n)
  BY <1>1 DEF Is, Waiting, Pending
<1>3. Calling
  BY <1>2, WaitingPlace
<1>4. PICK o \in 1 .. Submitted : n = Past + o /\ calls[n] = inflight[o]
  BY <1>2, WaitingPlace
<1>5. Holds(arena[Slot(inflight[o])], loaded[n], status[<<Me, n>>],
            inflight[o])
  BY <1>3, <1>4 DEF SlotInv, SlotsHold, Calling
<1>6. loaded[n] = Input(inflight[o])
  BY <1>1, <1>5 DEF Holds, Is
<1>7. /\ status'[<<Me, n>>] \in {"running", "executed", "hung"}
      /\ \A m \in Numbers : m # n =>
           status'[<<Me, m>>] = status[<<Me, m>>]
  <2>1. status \in [{Me} \X Numbers -> Statuses]
    BY DEF IInv, TypeOK
  <2>2. PICK s \in {"running", "executed", "hung"} :
          status' = [status EXCEPT ![<<Me, n>>] = s]
    BY <1>1
  <2>3. \A m \in Numbers : <<Me, m>> \in {Me} \X Numbers
    OBVIOUS
  <2>4. \A m \in Numbers : m # n => <<Me, m>> # <<Me, n>>
    OBVIOUS
  <2> QED
    BY <2>1, <2>2, <2>3, <2>4
<1>8. Holds(arena'[Slot(inflight[o])], loaded'[Past + o],
            status'[<<Me, Past + o>>], inflight[o])
  BY <1>1, <1>4, <1>6, <1>7 DEF Holds
<1>9. \A m \in Numbers : m # Past + o =>
        loaded'[m] = loaded[m] /\ status'[<<Me, m>>] = status[<<Me, m>>]
  BY <1>1, <1>4, <1>7
<1> QED
  BY <1>1, <1>3, <1>8, <1>9, DeviceOne

\* Its outputs are in its slot before it is answered "ok"; a slot whose call
\* failed is left as it is.
LEMMA AnswerSlots ==
  ASSUME IInv, Alive, WindowInv, SlotInv, NEW n \in Numbers, Answer(n)
  PROVE  SlotInv'
<1>1. /\ status[<<Me, n>>] \in {"executed", "hung"}
      /\ \E s \in {"ok", "failed"} :
           status' = [status EXCEPT ![<<Me, n>>] = s]
      /\ \/ arena' = [arena EXCEPT ![Slot(calls[n])] = Output(loaded[n])]
         \/ status'[<<Me, n>>] = "failed" /\ arena' = arena
      /\ UNCHANGED <<cpc, seq, want, inflight, toClient, rpc, calls, spc,
                     replies, loaded>>
  BY DEF Answer, service!Answer, service!Is, service!Become, Is, client,
     reader, sender
<1>2. Waiting(n)
  BY <1>1 DEF Waiting, Pending
<1>3. Calling
  BY <1>2, WaitingPlace
<1>4. PICK o \in 1 .. Submitted : n = Past + o /\ calls[n] = inflight[o]
  BY <1>2, WaitingPlace
<1>5. Holds(arena[Slot(inflight[o])], loaded[n], status[<<Me, n>>],
            inflight[o])
  BY <1>3, <1>4 DEF SlotInv, SlotsHold, Calling
<1>6. loaded[n] = Input(inflight[o])
  BY <1>1, <1>5 DEF Holds
<1>7. /\ status'[<<Me, n>>] \in {"ok", "failed"}
      /\ \A m \in Numbers : m # n =>
           status'[<<Me, m>>] = status[<<Me, m>>]
  <2>1. status \in [{Me} \X Numbers -> Statuses]
    BY DEF IInv, TypeOK
  <2>2. PICK s \in {"ok", "failed"} :
          status' = [status EXCEPT ![<<Me, n>>] = s]
    BY <1>1
  <2>3. \A m \in Numbers : <<Me, m>> \in {Me} \X Numbers
    OBVIOUS
  <2>4. \A m \in Numbers : m # n => <<Me, m>> # <<Me, n>>
    OBVIOUS
  <2> QED
    BY <2>1, <2>2, <2>3, <2>4
<1>8. /\ \A s \in 0 .. Depth - 1 :
           s # Slot(inflight[o]) => arena'[s] = arena[s]
      /\ \/ arena'[Slot(inflight[o])] = Output(Input(inflight[o]))
         \/ status'[<<Me, n>>] = "failed"
  <2>1. arena \in [0 .. Depth - 1 -> Contents]
    BY SlotTypes
  <2>2. o \in 1 .. Len(inflight)
    BY <1>3, CountedProps DEF Counted
  <2>3. Slot(inflight[o]) \in 0 .. Depth - 1
    BY <2>2, SlotTypes
  <2>4. CASE arena' = [arena EXCEPT ![Slot(calls[n])] = Output(loaded[n])]
    BY <1>4, <1>6, <2>1, <2>3, <2>4
  <2> QED
    BY <1>1, <2>4
<1>9. Holds(arena'[Slot(inflight[o])], loaded'[Past + o],
            status'[<<Me, Past + o>>], inflight[o])
  BY <1>1, <1>4, <1>6, <1>7, <1>8 DEF Holds
<1>10. \A m \in Numbers : m # Past + o =>
         loaded'[m] = loaded[m] /\ status'[<<Me, m>>] = status[<<Me, m>>]
  BY <1>1, <1>4, <1>7
<1>11. UNCHANGED <<cpc, seq, want, inflight, toClient, rpc, calls, spc,
                   replies>>
  BY <1>1
<1>12. \A s \in 0 .. Depth - 1 :
         s # Slot(inflight[o]) => arena'[s] = arena[s]
  BY <1>8
<1> QED
  BY <1>3, <1>9, <1>10, <1>11, <1>12, DeviceOne

\* A call that is dropped leaves its slot alone.
LEMMA DropSlots ==
  ASSUME IInv, Alive, SlotInv, NEW K \in SUBSET ({Me} \X Numbers), Drop(K)
  PROVE  SlotInv'
<1>1. /\ \A k \in K : status[k] = "queued"
      /\ status' = [k \in {Me} \X Numbers |->
                      IF k \in K THEN "failed" ELSE status[k]]
      /\ UNCHANGED <<cpc, seq, want, inflight, toClient, rpc, calls, spc,
                     replies, arena, loaded>>
  BY DEF Drop, service!Drop, service!Is, service!Calls, Numbers, client,
     reader, sender
<1>2. /\ Alive' /\ Calling' = Calling /\ Past' = Past
      /\ Submitted' = Submitted
  BY <1>1 DEF Alive, Calling, Past, Submitted, Held, Taken, Replied
<1>3. ASSUME Calling, NEW i \in 1 .. Submitted
      PROVE  Holds(arena[Slot(inflight[i])], loaded[Past + i],
                   status'[<<Me, Past + i>>], inflight[i])
  <2>1. Holds(arena[Slot(inflight[i])], loaded[Past + i],
              status[<<Me, Past + i>>], inflight[i])
    BY <1>3 DEF SlotInv, SlotsHold
  <2>2. Past + i \in Numbers
    <3>1. /\ Submitted \in Nat /\ Past \in Nat
          /\ Past + Submitted = Len(calls)
      BY <1>3, CountedProps DEF Counted
    <3>2. Len(calls) <= MaxCalls /\ MaxCalls \in Nat
      BY LinkAssumption DEF IInv, ServiceInv, LinkAssumption
    <3>3. Past + i \in Int /\ 1 <= Past + i /\ Past + i <= MaxCalls
      BY <3>1, <3>2
    <3> QED
      BY <3>2, <3>3 DEF Numbers
  <2>3. <<Me, Past + i>> \in {Me} \X Numbers
    BY <2>2
  <2>4. status'[<<Me, Past + i>>] \in
          {"failed", status[<<Me, Past + i>>]}
    BY <1>1, <2>3
  <2> QED
    BY <2>1, <2>4 DEF Holds
<1>4. Calling =>
        /\ SlotsHold(arena, loaded, status', Past, inflight, Submitted)
        /\ Filled(arena, inflight, Submitted)
  BY <1>3 DEF SlotsHold, SlotInv
<1> QED
  BY <1>1, <1>2, <1>4 DEF SlotInv

LEMMA DeviceSlots ==
  ASSUME IInv, WindowInv, Device, SlotInv, ResultsAreOwn
  PROVE  SlotInv' /\ ResultsAreOwn'
<1>1. cpc' = cpc /\ results' = results
  BY DeviceProps
<1>2. ResultsAreOwn'
  BY <1>1 DEF ResultsAreOwn
<1>3. CASE ~ Alive
  BY <1>1, <1>2, <1>3 DEF SlotInv, Alive
<1>4. CASE Alive
  BY <1>2, <1>4, CopyInSlots, RunSlots, AnswerSlots, DropSlots DEF Device
<1> QED
  BY <1>2, <1>3, <1>4

-----------------------------------------------------------------------------
(* The theorems about the slots.                                           *)

LEMMA InitSInv == Init => SInv
<1> SUFFICES ASSUME Init
             PROVE  SInv
  OBVIOUS
<1>1. /\ cpc = "idle" /\ inflight = <<>> /\ spc = "get" /\ rpc = "recv"
      /\ replies = <<>> /\ toClient = <<>>
      /\ results = [t \in Tickets |-> Nothing]
      /\ loaded = [n \in Numbers |-> Nothing]
  BY DEF Init
<1>2. Len(inflight) = 0 /\ Len(replies) = 0 /\ Len(toClient) = 0
  BY <1>1
<1>3. Submitted = 0
  BY <1>1, <1>2 DEF Submitted, Held, Taken, Replied
<1>4. WindowInv
  BY <1>1, <1>2, LinkAssumption DEF WindowInv, Window, LinkAssumption
<1>5. SlotInv
  BY <1>1, <1>2, <1>3 DEF SlotInv, SlotsHold, Filled
<1>6. ResultsAreOwn
  BY <1>1 DEF ResultsAreOwn
<1> QED
  BY <1>4, <1>5, <1>6 DEF SInv

LEMMA StepSInv ==
  ASSUME OversizedAssumption, IInv, SInv, [Next]_vars
  PROVE  SInv'
<1>1. IInv' /\ WindowInv /\ SlotInv /\ ResultsAreOwn
  BY StepIInv DEF SInv
<1>2. WindowInv'
  BY <1>1, WindowStep
<1>3. SlotInv' /\ ResultsAreOwn'
  <2>1. CASE Quiet
    BY <1>1, <2>1, QuietSlots
  <2>2. CASE Fill
    BY <1>1, <1>2, <2>2, FillSlots
  <2>3. CASE Send
    BY <1>1, <2>3, SendSlots
  <2>4. CASE ReceiveOne
    BY <1>1, <2>4, ReceiveSlots
  <2>5. CASE Ask \/ GetAnswer
    BY <1>1, <2>5, AskSlots
  <2>6. CASE SubmitCall
    BY <1>1, <2>6, SubmitSlots
  <2>7. CASE Device
    BY <1>1, <2>7, DeviceSlots
  <2> QED
    BY <2>1, <2>2, <2>3, <2>4, <2>5, <2>6, <2>7
    DEF Next, Program, ClientStep, Reader, Done, Quiet
<1> QED
  BY <1>2, <1>3 DEF SInv

\* No two calls in flight share a slot of the arena, and each slot holds its
\* call's inputs until the device has copied them and its outputs from before
\* it is answered until the client has read them ("slot = seq % depth").
THEOREM SlotsOwn == OversizedAssumption => (Spec => []SInv)
<1> SUFFICES ASSUME OversizedAssumption
             PROVE  Spec => []SInv
  OBVIOUS
<1>1. IInv /\ SInv /\ [Next]_vars => SInv'
  BY StepSInv
<1> QED
  BY <1>1, InitSInv, LinkInvariant, PTL DEF Spec

\* A client that waits gets the arrays computed once from its own inputs, for
\* every call that did not fail, whatever the depth and the pipe's size; a
\* call too large for a slot must have been tried with no call in flight, for
\* the ticket it takes shifts the later calls onto slots in use.
THEOREM LinkResultsOwn == OversizedAssumption => (Spec => []ResultsAreOwn)
<1> SUFFICES ASSUME OversizedAssumption
             PROVE  Spec => []ResultsAreOwn
  OBVIOUS
<1>1. SInv => ResultsAreOwn
  BY DEF SInv
<1> QED
  BY <1>1, SlotsOwn, PTL
=============================================================================
