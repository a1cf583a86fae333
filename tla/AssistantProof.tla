--------------------------- MODULE AssistantProof ---------------------------
(***************************************************************************)
(* Proofs about Assistant and the TargetWorker it uses: the stream is the  *)
(* greedy one and the drafter and the target hold the same rows, for any   *)
(* tokens, prompts, model and bounds.                                      *)
(***************************************************************************)
EXTENDS AssistantInv, SeqLemmas, FiniteSetTheorems

-----------------------------------------------------------------------------
(* Prefixes, rows and their tokens.                                        *)

Class == {"prefill", "decode"}

\* The first n elements.
LEMMA FirstProps ==
  ASSUME NEW S, NEW s \in Seq(S), NEW n \in 0 .. Len(s)
  PROVE  /\ FirstOf(s, n) \in Seq(S) /\ Len(FirstOf(s, n)) = n
         /\ \A i \in 1 .. n : FirstOf(s, n)[i] = s[i]
BY DEF FirstOf

LEMMA FirstAll ==
  ASSUME NEW S, NEW s \in Seq(S)
  PROVE  FirstOf(s, Len(s)) = s
BY SubSeqFull DEF FirstOf

LEMMA ConcatProps ==
  ASSUME NEW S, NEW s \in Seq(S), NEW t \in Seq(S)
  PROVE  /\ s \o t \in Seq(S) /\ Len(s \o t) = Len(s) + Len(t)
         /\ \A i \in 1 .. Len(s) : (s \o t)[i] = s[i]
         /\ \A i \in 1 .. Len(t) : (s \o t)[Len(s) + i] = t[i]
BY ConcatProperties

LEMMA ConcatTokens ==
  ASSUME NEW s \in Seq(Tokens), NEW t \in Seq(Tokens), NEW u \in Seq(Tokens)
  PROVE  (s \o t) \o u = s \o (t \o u)
BY ConcatAssociative

\* Prefixes of a concatenation.
LEMMA FirstOfConcat ==
  ASSUME NEW S, NEW s \in Seq(S), NEW t \in Seq(S)
  PROVE  /\ \A n \in 0 .. Len(s) : FirstOf(s \o t, n) = FirstOf(s, n)
         /\ \A n \in 0 .. Len(t) :
              FirstOf(s \o t, Len(s) + n) = s \o FirstOf(t, n)
<1>0. /\ s \o t \in Seq(S) /\ Len(s \o t) = Len(s) + Len(t)
      /\ \A i \in 1 .. Len(s) : (s \o t)[i] = s[i]
      /\ \A i \in 1 .. Len(t) : (s \o t)[Len(s) + i] = t[i]
  BY ConcatProps
<1>1. ASSUME NEW n \in 0 .. Len(s)
      PROVE  FirstOf(s \o t, n) = FirstOf(s, n)
  <2>1. n \in 0 .. Len(s \o t)
    BY <1>0
  <2>2. /\ FirstOf(s, n) \in Seq(S) /\ Len(FirstOf(s, n)) = n
        /\ \A i \in 1 .. n : FirstOf(s, n)[i] = s[i]
    BY FirstProps
  <2>3. /\ FirstOf(s \o t, n) \in Seq(S) /\ Len(FirstOf(s \o t, n)) = n
        /\ \A i \in 1 .. n : FirstOf(s \o t, n)[i] = (s \o t)[i]
    BY <1>0, <2>1, FirstProps
  <2> QED
    BY <1>0, <2>2, <2>3, SeqEqual
<1>2. ASSUME NEW n \in 0 .. Len(t)
      PROVE  FirstOf(s \o t, Len(s) + n) = s \o FirstOf(t, n)
  <2> DEFINE l == FirstOf(s \o t, Len(s) + n)
             f == FirstOf(t, n)
             r == s \o f
  <2>1. Len(s) + n \in 0 .. Len(s \o t)
    BY <1>0
  <2>2. /\ f \in Seq(S) /\ Len(f) = n /\ \A i \in 1 .. n : f[i] = t[i]
    BY FirstProps
  <2>3. /\ l \in Seq(S) /\ Len(l) = Len(s) + n
        /\ \A i \in 1 .. Len(s) + n : l[i] = (s \o t)[i]
    BY <1>0, <2>1, FirstProps
  <2> HIDE DEF l, f
  <2>9. /\ r \in Seq(S) /\ Len(r) = Len(s) + Len(f)
        /\ \A i \in 1 .. Len(s) : r[i] = s[i]
        /\ \A i \in 1 .. Len(f) : r[Len(s) + i] = f[i]
    <3>1. f \in Seq(S)
      BY <2>2
    <3> QED
      BY <3>1, ConcatProps
  <2>4. /\ r \in Seq(S) /\ Len(r) = Len(s) + n
        /\ \A i \in 1 .. Len(s) : r[i] = s[i]
        /\ \A i \in 1 .. n : r[Len(s) + i] = f[i]
    BY <2>2, <2>9
  <2> HIDE DEF r
  <2>5. ASSUME NEW i \in 1 .. Len(l)
        PROVE  l[i] = r[i]
    <3>1. CASE i <= Len(s)
      BY <1>0, <2>3, <2>4, <3>1
    <3>2. CASE ~ (i <= Len(s))
      <4>1. i - Len(s) \in 1 .. n /\ i = Len(s) + (i - Len(s))
        BY <2>3, <3>2
      <4>2. l[i] = t[i - Len(s)]
        BY <1>0, <2>3, <4>1
      <4>3. r[i] = t[i - Len(s)]
        BY <2>2, <2>4, <4>1
      <4> QED
        BY <4>2, <4>3
    <3> QED
      BY <3>1, <3>2
  <2>6. l = r
    BY <2>3, <2>4, <2>5, SeqEqual
  <2> QED
    BY <2>6 DEF l, f, r
<1> QED
  BY <1>1, <1>2

LEMMA FirstOfLeft ==
  ASSUME NEW S, NEW s \in Seq(S), NEW t \in Seq(S), NEW n \in 0 .. Len(s)
  PROVE  FirstOf(s \o t, n) = FirstOf(s, n)
BY FirstOfConcat

LEMMA FirstOfRight ==
  ASSUME NEW S, NEW s \in Seq(S), NEW t \in Seq(S), NEW n \in 0 .. Len(t)
  PROVE  FirstOf(s \o t, Len(s) + n) = s \o FirstOf(t, n)
BY FirstOfConcat

\* A sequence is what it begins with and the rest.
LEMMA FirstRest ==
  ASSUME NEW S, NEW s \in Seq(S), NEW n \in 0 .. Len(s)
  PROVE  FirstOf(s, n) \o SubSeq(s, n + 1, Len(s)) = s
<1>1. /\ 1 \in 1 .. Len(s) + 1 /\ n \in 1 - 1 .. Len(s)
      /\ Len(s) \in n .. Len(s)
  OBVIOUS
<1>2. SubSeq(s, 1, n) \o SubSeq(s, n + 1, Len(s)) = SubSeq(s, 1, Len(s))
  BY <1>1, ConcatAdjacentSubSeq
<1> QED
  BY <1>2, SubSeqFull DEF FirstOf

\* A prefix of a prefix.
LEMMA FirstOfFirst ==
  ASSUME NEW S, NEW s \in Seq(S), NEW n \in 0 .. Len(s), NEW m \in 0 .. n
  PROVE  FirstOf(FirstOf(s, n), m) = FirstOf(s, m)
<1>1. /\ FirstOf(s, n) \in Seq(S) /\ Len(FirstOf(s, n)) = n
      /\ \A i \in 1 .. n : FirstOf(s, n)[i] = s[i]
  BY FirstProps
<1>2. /\ m \in 0 .. Len(s)
      /\ FirstOf(s, m) \in Seq(S) /\ Len(FirstOf(s, m)) = m
      /\ \A i \in 1 .. m : FirstOf(s, m)[i] = s[i]
  BY FirstProps
<1>3. /\ FirstOf(FirstOf(s, n), m) \in Seq(S)
      /\ Len(FirstOf(FirstOf(s, n), m)) = m
      /\ \A i \in 1 .. m : FirstOf(FirstOf(s, n), m)[i] = FirstOf(s, n)[i]
  BY <1>1, FirstProps
<1> QED
  BY <1>1, <1>2, <1>3, SeqEqual

\* The tokens of rows, and rows of tokens.
LEMMA IdsProps ==
  ASSUME NEW r \in Seq(Row)
  PROVE  /\ Ids(r) \in Seq(Tokens) /\ Len(Ids(r)) = Len(r)
         /\ \A i \in 1 .. Len(r) : Ids(r)[i] = r[i].id
<1>1. \A i \in 1 .. Len(r) : r[i] \in Row
  BY ElementOfSeq
<1>2. \A i \in 1 .. Len(r) : r[i].id \in Tokens
  BY <1>1 DEF Row
<1> QED
  BY <1>2 DEF Ids

LEMMA RowEqual ==
  ASSUME NEW r \in Row, NEW q \in Row, r.id = q.id, r.by = q.by
  PROVE  r = q
BY DEF Row

LEMMA RowsProps ==
  ASSUME NEW x \in Seq(Tokens), NEW c \in Class
  PROVE  /\ Rows(x, c) \in Seq(Row) /\ Len(Rows(x, c)) = Len(x)
         /\ \A i \in 1 .. Len(x) : Rows(x, c)[i].id = x[i]
         /\ \A i \in 1 .. Len(x) : Rows(x, c)[i].by = c
<1>1. \A i \in 1 .. Len(x) : [id |-> x[i], by |-> c] \in Row
  BY DEF Row, Class
<1>2. Rows(x, c) \in Seq(Row) /\ Len(Rows(x, c)) = Len(x)
  BY <1>1 DEF Rows
<1>3. ASSUME NEW i \in 1 .. Len(x)
      PROVE  Rows(x, c)[i].id = x[i] /\ Rows(x, c)[i].by = c
  <2>1. Rows(x, c)[i] = [id |-> x[i], by |-> c]
    BY DEF Rows
  <2> QED
    BY <2>1
<1> QED
  BY <1>2, <1>3

LEMMA IdsOfRows ==
  ASSUME NEW x \in Seq(Tokens), NEW c \in Class
  PROVE  Ids(Rows(x, c)) = x
<1>1. /\ Rows(x, c) \in Seq(Row) /\ Len(Rows(x, c)) = Len(x)
      /\ \A i \in 1 .. Len(x) : Rows(x, c)[i].id = x[i]
  BY RowsProps
<1>2. /\ Ids(Rows(x, c)) \in Seq(Tokens)
      /\ Len(Ids(Rows(x, c))) = Len(Rows(x, c))
      /\ \A i \in 1 .. Len(Rows(x, c)) :
           Ids(Rows(x, c))[i] = Rows(x, c)[i].id
  BY <1>1, IdsProps
<1>3. \A i \in 1 .. Len(x) : Ids(Rows(x, c))[i] = x[i]
  BY <1>1, <1>2
<1> QED
  BY <1>1, <1>2, <1>3, SeqEqual

LEMMA IdsOfConcat ==
  ASSUME NEW r \in Seq(Row), NEW q \in Seq(Row)
  PROVE  Ids(r \o q) = Ids(r) \o Ids(q)
<1> DEFINE l == Ids(r \o q)
           k == Ids(r) \o Ids(q)
<1>1. /\ r \o q \in Seq(Row) /\ Len(r \o q) = Len(r) + Len(q)
      /\ \A i \in 1 .. Len(r) : (r \o q)[i] = r[i]
      /\ \A i \in 1 .. Len(q) : (r \o q)[Len(r) + i] = q[i]
  BY ConcatProps
<1>2. /\ Ids(r) \in Seq(Tokens) /\ Len(Ids(r)) = Len(r)
      /\ \A i \in 1 .. Len(r) : Ids(r)[i] = r[i].id
  BY IdsProps
<1>3. /\ Ids(q) \in Seq(Tokens) /\ Len(Ids(q)) = Len(q)
      /\ \A i \in 1 .. Len(q) : Ids(q)[i] = q[i].id
  BY IdsProps
<1>4. /\ l \in Seq(Tokens) /\ Len(l) = Len(r) + Len(q)
      /\ \A i \in 1 .. Len(r) + Len(q) : l[i] = (r \o q)[i].id
  BY <1>1, IdsProps
<1>9. /\ k \in Seq(Tokens) /\ Len(k) = Len(Ids(r)) + Len(Ids(q))
      /\ \A i \in 1 .. Len(Ids(r)) : k[i] = Ids(r)[i]
      /\ \A i \in 1 .. Len(Ids(q)) : k[Len(Ids(r)) + i] = Ids(q)[i]
  <2>1. Ids(r) \in Seq(Tokens) /\ Ids(q) \in Seq(Tokens)
    BY <1>2, <1>3
  <2> QED
    BY <2>1, ConcatProps
<1>5. /\ k \in Seq(Tokens) /\ Len(k) = Len(r) + Len(q)
      /\ \A i \in 1 .. Len(r) : k[i] = Ids(r)[i]
      /\ \A i \in 1 .. Len(q) : k[Len(r) + i] = Ids(q)[i]
  BY <1>2, <1>3, <1>9
<1> HIDE DEF l, k
<1>6. ASSUME NEW i \in 1 .. Len(l)
      PROVE  l[i] = k[i]
  <2>1. CASE i <= Len(r)
    <3>1. i \in 1 .. Len(r)
      BY <1>4, <2>1
    <3>2. (r \o q)[i] = r[i] /\ k[i] = Ids(r)[i]
      BY <1>1, <1>5, <3>1
    <3>3. l[i] = r[i].id
      BY <1>4, <3>2
    <3> QED
      BY <1>2, <3>1, <3>2, <3>3
  <2>2. CASE ~ (i <= Len(r))
    <3>1. i - Len(r) \in 1 .. Len(q) /\ i = Len(r) + (i - Len(r))
      BY <1>4, <2>2
    <3>2. (r \o q)[i] = q[i - Len(r)]
      BY <1>1, <3>1
    <3>3. k[i] = Ids(q)[i - Len(r)]
      BY <1>5, <3>1
    <3>4. l[i] = q[i - Len(r)].id
      BY <1>4, <3>2
    <3> QED
      BY <1>3, <3>1, <3>3, <3>4
  <2> QED
    BY <2>1, <2>2
<1>7. l = k
  BY <1>4, <1>5, <1>6, SeqEqual
<1> QED
  BY <1>7 DEF l, k

LEMMA RowsOfFirst ==
  ASSUME NEW x \in Seq(Tokens), NEW c \in Class, NEW n \in 0 .. Len(x)
  PROVE  Rows(FirstOf(x, n), c) = FirstOf(Rows(x, c), n)
<1> DEFINE f == FirstOf(x, n)
           l == Rows(f, c)
           k == FirstOf(Rows(x, c), n)
<1>1. /\ f \in Seq(Tokens) /\ Len(f) = n
      /\ \A i \in 1 .. n : f[i] = x[i]
  BY FirstProps
<1>2. /\ Rows(x, c) \in Seq(Row) /\ Len(Rows(x, c)) = Len(x)
      /\ \A i \in 1 .. Len(x) : Rows(x, c)[i].id = x[i]
      /\ \A i \in 1 .. Len(x) : Rows(x, c)[i].by = c
  BY RowsProps
<1>4. /\ k \in Seq(Row) /\ Len(k) = n
      /\ \A i \in 1 .. n : k[i] = Rows(x, c)[i]
  <2>1. Rows(x, c) \in Seq(Row) /\ n \in 0 .. Len(Rows(x, c))
    BY <1>2
  <2> QED
    BY <2>1, FirstProps
<1> HIDE DEF f, k
<1>3. /\ l \in Seq(Row) /\ Len(l) = n
      /\ \A i \in 1 .. n : l[i].id = f[i]
      /\ \A i \in 1 .. n : l[i].by = c
  BY <1>1, RowsProps
<1> HIDE DEF l
<1>5. ASSUME NEW i \in 1 .. n
      PROVE  l[i] = k[i]
  <2>1. l[i] \in Row /\ k[i] \in Row
    BY <1>3, <1>4
  <2>2. k[i].id = x[i] /\ k[i].by = c
    <3>1. k[i] = Rows(x, c)[i]
      BY <1>4
    <3>2. Rows(x, c)[i].id = x[i] /\ Rows(x, c)[i].by = c
      BY <1>2
    <3> QED
      BY <3>1, <3>2
  <2>3. l[i].id = x[i] /\ l[i].by = c
    BY <1>1, <1>3
  <2> QED
    BY <2>1, <2>2, <2>3, RowEqual
<1>6. l = k
  BY <1>3, <1>4, <1>5, SeqEqual
<1> QED
  BY <1>6 DEF l, k, f

\* A set of positions with all those before each is counted by its last.
LEMMA InitialSegment ==
  ASSUME NEW m \in Nat, NEW N \in SUBSET (1 .. m),
         \A n \in N : \A k \in 1 .. n : k \in N
  PROVE  Cardinality(N) \in 0 .. m /\ N = 1 .. Cardinality(N)
<1>1. IsFiniteSet(N)
  <2>1. IsFiniteSet(1 .. m)
    BY FS_Interval
  <2> QED
    BY <2>1, FS_Subset
<1>2. CASE N = {}
  BY <1>2, FS_EmptySet
<1>3. CASE N # {}
  <2> DEFINE U == {k \in Nat : \A n \in N : n <= k}
  <2>1. U \subseteq Nat /\ m \in U
    OBVIOUS
  <2>2. PICK u \in U : \A y \in U : u <= y
    BY <2>1, MinProps
  <2>3. u \in Nat /\ (\A n \in N : n <= u) /\ u <= m
    BY <2>1, <2>2
  <2>4. u \in N
    <3>1. PICK n \in N : TRUE
      BY <1>3
    <3>2. u # 0
      BY <2>3, <3>1
    <3>3. u - 1 \notin U
      BY <2>2, <2>3
    <3>4. PICK k \in N : ~ (k <= u - 1)
      BY <2>3, <3>2, <3>3
    <3> QED
      BY <2>3, <3>4
  <2>5. N = 1 .. u
    <3>1. ASSUME NEW k \in N
          PROVE  k \in 1 .. u
      BY <2>3
    <3>2. ASSUME NEW k \in 1 .. u
          PROVE  k \in N
      BY <2>4
    <3> QED
      BY <3>1, <3>2
  <2>6. Cardinality(1 .. u) = u
    BY <2>3, <2>4, FS_Interval
  <2> QED
    BY <2>3, <2>5, <2>6
<1> QED
  BY <1>2, <1>3

-----------------------------------------------------------------------------
(* The worker's operations.                                                *)

LEMMA WorkerType ==
  ASSUME NEW w \in Worker
  PROVE  w.mem \in Seq(Row) /\ w.floor \in Nat
BY DEF Worker

\* A worker right after a prompt has the prompt's rows only, all of them.
Ready(v, ids) ==
  v \in Worker /\ v.floor = Len(ids) /\ Ids(v.mem) = ids

LEMMA PrefillProps ==
  ASSUME NEW w \in Worker, NEW ids \in Seq(Tokens)
  PROVE  Ready(Prefill(w, ids), ids)
<1> DEFINE r == Rows(ids, "prefill")
<1>1. r \in Seq(Row) /\ Ids(r) = ids /\ Len(ids) \in Nat
  BY RowsProps, IdsOfRows DEF Class
<1> HIDE DEF r
<1>2. /\ Prefill(w, ids) \in Worker /\ Prefill(w, ids).mem = r
      /\ Prefill(w, ids).floor = Len(ids)
  BY <1>1 DEF Prefill, Worker, r
<1> QED
  BY <1>1, <1>2 DEF Ready

-----------------------------------------------------------------------------
(* The steps of a request.                                                 *)

LEMMA NoneProps == ASSUME NEW w \in Worker PROVE w # None
<1>1. DOMAIN w = {"mem", "floor"}
  BY DEF Worker
<1>2. DOMAIN None = {"none"}
  BY DEF None
<1> QED
  BY <1>1, <1>2

LEMMA PredictType ==
  ASSUME AssistantAssumption, NEW h \in Seq(Tokens), Len(h) <= Context
  PROVE  Predict(h) \in Tokens
<1>1. Len(h) \in 0 .. Context /\ h \in [1 .. Len(h) -> Tokens]
  BY LenProperties DEF AssistantAssumption
<1>2. h \in BoundedSeq(Tokens, Context)
  BY <1>1 DEF BoundedSeq, SeqOf
<1> QED
  BY <1>2 DEF AssistantAssumption

LEMMA PromptType ==
  ASSUME AssistantAssumption, NEW p \in Prompts
  PROVE  p \in Seq(Tokens) /\ p # <<>> /\ Len(p) + MaxTokens <= Context
BY DEF AssistantAssumption

LEMMA InitInv == ASSUME Init PROVE IInv
<1> USE AssistantAssumption DEF Init
<1>1. TypeOK
  <2>1. depth \in 1 .. MaxDepth /\ limit \in 0 .. MaxTokens
    BY DEF AssistantAssumption
  <2>2. /\ emitted \in Seq(Tokens) /\ given \in Seq(Tokens)
        /\ proposals \in Seq(Tokens) /\ verdict \in Seq(Tokens)
        /\ shared \in Seq(Row) /\ prompt \in {<<>>}
    OBVIOUS
  <2> QED
    BY <2>1, <2>2 DEF TypeOK
<1>2. /\ ProcessInv /\ CloseInv /\ RequestInv /\ LeaseInv
      /\ WindowInv /\ LateInv
  BY DEF ProcessInv, CloseInv, RequestInv, LeaseInv, WindowInv,
         LateInv, Decoding, Known, Unknown, Fresh
<1>3. OutputInv
  BY DEF OutputInv, G!IsGreedy, Decoding, Known, Unknown
<1>4. TextInv /\ TargetInv /\ ProposalsInv /\ VerdictInv
  BY DEF TextInv, TargetInv, ProposalsInv, VerdictInv, Decoding, Known,
         Unknown, Fresh
<1> QED
  BY <1>1, <1>2, <1>3, <1>4 DEF IInv

\* Whatever ends a request leaves nothing of it.
LEMMA OverStep ==
  ASSUME IInv, Over, UNCHANGED cancel,
         UNCHANGED <<worker, process>> \/ CloseWorker \/ CloseRaises,
         window' \in {"none", "idle", "lost"}, closed' \in BOOLEAN,
         closed' => process' = "none" /\ window' = "none"
  PROVE  IInv'
<1> USE AssistantAssumption DEF IInv, Over
<1>1. TypeOK'
  <2>1. depth' \in 1 .. MaxDepth /\ limit' \in 0 .. MaxTokens
    BY DEF AssistantAssumption
  <2>2. /\ emitted' \in Seq(Tokens) /\ given' \in Seq(Tokens)
        /\ proposals' \in Seq(Tokens) /\ verdict' \in Seq(Tokens)
        /\ shared' \in Seq(Row) /\ prompt' \in {<<>>}
    OBVIOUS
  <2>3. worker' \in Worker \cup {None}
        /\ process' \in {"none", "runs", "dead", "shut"}
    BY DEF TypeOK, CloseWorker, CloseRaises
  <2> QED
    BY <2>1, <2>2, <2>3 DEF TypeOK
<1>2. ProcessInv'
  BY DEF ProcessInv, CloseWorker, CloseRaises
<1>3. CloseInv' /\ RequestInv' /\ LeaseInv' /\ WindowInv' /\ LateInv'
  BY DEF CloseInv, RequestInv, LeaseInv, WindowInv,
         LateInv, Decoding, Known, Unknown, Fresh
<1>4. OutputInv'
  BY DEF OutputInv, G!IsGreedy, Decoding, Known, Unknown
<1>5. TextInv' /\ TargetInv' /\ ProposalsInv' /\ VerdictInv'
  BY DEF TextInv, TargetInv, ProposalsInv, VerdictInv, Decoding, Known,
         Unknown, Fresh
<1> QED
  BY <1>1, <1>2, <1>3, <1>4, <1>5 DEF IInv

LEMMA CloseStreamStep == ASSUME IInv, CloseStream PROVE IInv'
<1>1. window' \in {"none", "idle", "lost"} /\ closed' \in BOOLEAN
  BY DEF CloseStream, IInv, TypeOK, WindowInv, Suspended
<1>2. ~ closed'
  BY DEF CloseStream, IInv, CloseInv, Suspended
<1> QED
  BY <1>1, <1>2, OverStep DEF CloseStream

LEMMA CloseStep == ASSUME IInv, Close PROVE IInv'
<1>1. CASE CloseWorker /\ closed' = TRUE
  BY <1>1, OverStep DEF Close, CloseWorker
<1>2. CASE CloseRaises /\ UNCHANGED closed
  BY <1>2, OverStep DEF Close, CloseRaises, IInv, TypeOK
<1> QED
  BY <1>1, <1>2 DEF Close

LEMMA RejectStep == ASSUME IInv, Reject PROVE IInv'
<1>1. window' \in {"none", "idle", "lost"} /\ closed' \in BOOLEAN
  BY DEF Reject, IInv, TypeOK, WindowInv
<1>2. ~ closed'
  BY DEF Reject, IInv, CloseInv
<1> QED
  BY <1>1, <1>2, OverStep DEF Reject

LEMMA FailStep == ASSUME IInv, Fail PROVE IInv'
<1>1. window' \in {"none", "idle", "lost"} /\ closed' \in BOOLEAN
  BY DEF Fail, IInv, TypeOK
<1>2. ~ closed'
  BY DEF Fail, Raises, IInv, CloseInv, Running
<1> QED
  BY <1>1, <1>2, OverStep DEF Fail

LEMMA GenerateStep == ASSUME IInv, Generate PROVE IInv'
<1> USE DEF Generate, IInv, life, output, round
<1>1. /\ emitted' = <<>> /\ given' = <<>> /\ late' = 0 /\ proposals' = <<>>
  BY DEF RequestInv, ProposalsInv, Fresh
<1>2. TypeOK'
  <2>1. limit' \in 0 .. MaxTokens
    BY AssistantAssumption DEF AssistantAssumption
  <2> QED
    BY <2>1 DEF TypeOK, Suspended
<1>3. ProcessInv' /\ CloseInv'
  BY DEF ProcessInv, CloseInv
<1>4. RequestInv' /\ LeaseInv' /\ WindowInv' /\ LateInv'
  BY <1>1 DEF RequestInv, LeaseInv, WindowInv, LateInv, Decoding, Known,
              Unknown, Fresh
<1>5. OutputInv'
  BY <1>1 DEF OutputInv, G!IsGreedy, Decoding, Known, Unknown
<1>6. TextInv' /\ TargetInv' /\ ProposalsInv' /\ VerdictInv'
  BY <1>1 DEF TextInv, TargetInv, ProposalsInv, VerdictInv, Decoding, Known,
              Unknown, Fresh
<1> QED
  BY <1>2, <1>3, <1>4, <1>5, <1>6 DEF IInv

\* The parts of the invariant that a step of the loop may disturb in the
\* same way as any other: the control it belongs to.
ControlInv ==
  /\ ProcessInv /\ CloseInv /\ RequestInv
  /\ LeaseInv /\ WindowInv
TextualInv == TextInv /\ TargetInv /\ ProposalsInv /\ VerdictInv

\* There is room for another token while the loop goes on.
LEMMA Below ==
  ASSUME IInv, pc \in Decoding
  PROVE  Len(emitted) < limit /\ Len(emitted) \in Nat /\ limit \in Nat
<1>1. limit \in Nat \ {0} /\ emitted \in Seq(Tokens)
  BY AssistantAssumption
  DEF IInv, RequestInv, TypeOK, AssistantAssumption, Decoding, Known, Unknown
<1>2. ~ Ended(emitted) /\ Len(emitted) <= limit
  BY DEF IInv, OutputInv
<1> QED
  BY <1>1, <1>2 DEF Ended

LEMMA PullStep == ASSUME IInv, Pull PROVE IInv'
<1> USE DEF Pull, IInv, input, output, round
<1>1. /\ pc \in {"primed", "bonus", "chunk"}
      /\ pc = "primed" => pc' = "admit"
      /\ pc = "bonus" => pc' = IF cancel THEN "leave" ELSE "draft"
      /\ pc = "chunk" => pc' = "top"
  BY DEF Resumed, Suspended
<1>2. TypeOK'
  BY <1>1 DEF TypeOK, Suspended, Running
<1>3. ControlInv'
  <2>1. ProcessInv' /\ CloseInv'
    BY <1>1 DEF ProcessInv, CloseInv
  <2> QED
    BY <1>1, <2>1 DEF ControlInv, RequestInv, LeaseInv, WindowInv, Decoding,
                      Known, Unknown, Fresh
<1>4. Ended(emitted)' <=> Ended(emitted)
  BY DEF Ended
<1>5. OutputInv'
  <2>1. G!IsGreedy(prompt, emitted)' <=> G!IsGreedy(prompt, emitted)
    BY DEF G!IsGreedy
  <2> QED
    BY <1>1, <1>4, <2>1 DEF OutputInv, Decoding, Known, Unknown
<1>6. LateInv'
  BY <1>1, <1>4 DEF LateInv
<1>7. TextInv' /\ TargetInv' /\ VerdictInv'
  <2>1. TextInv'
    BY <1>1 DEF TextInv, Decoding, Known, Unknown
  <2>2. TargetInv'
    BY <1>1 DEF TargetInv, Decoding, Known, Unknown
  <2> QED
    BY <1>1, <2>1, <2>2 DEF VerdictInv
<1>8. ProposalsInv'
  <2>1. CASE pc' = "draft"
    <3>1. Len(emitted) < limit /\ Len(emitted) \in Nat /\ limit \in Nat
      BY <1>1, <2>1, Below DEF Decoding, Unknown
    <3>2. proposals = <<>> /\ depth \in Nat \ {0}
      BY <1>1, <2>1, AssistantAssumption
      DEF ProposalsInv, TypeOK, AssistantAssumption
    <3> QED
      BY <2>1, <3>1, <3>2 DEF ProposalsInv, Least, Fresh, Known
  <2>2. CASE pc' # "draft"
    BY <1>1, <2>2 DEF ProposalsInv, Fresh, Known
  <2> QED
    BY <2>1, <2>2
<1> QED
  BY <1>2, <1>3, <1>5, <1>6, <1>7, <1>8 DEF ControlInv

LEMMA CancelStep == ASSUME IInv, Cancel PROVE IInv'
<1> USE DEF Cancel, IInv, life, input, output, round
<1>1. TypeOK'
  BY DEF TypeOK
<1>2. ControlInv'
  BY DEF ControlInv, ProcessInv, CloseInv,
         RequestInv, LeaseInv, WindowInv, Decoding, Known, Unknown, Fresh
<1>3. OutputInv' /\ LateInv'
  BY DEF OutputInv, G!IsGreedy, Ended, LateInv
<1>4. TextualInv'
  BY DEF TextualInv, TextInv, TargetInv, ProposalsInv, VerdictInv, Batch
<1> QED
  BY <1>1, <1>2, <1>3, <1>4 DEF ControlInv, TextualInv

LEMMA DieStep == ASSUME IInv, Die PROVE IInv'
<1> USE DEF Die, IInv, input, output, round
<1>1. TypeOK'
  BY DEF TypeOK
<1>2. ControlInv'
  BY DEF ControlInv, ProcessInv, CloseInv,
         RequestInv, LeaseInv, WindowInv, Decoding, Known, Unknown, Fresh
<1>3. OutputInv' /\ LateInv'
  BY DEF OutputInv, G!IsGreedy, Ended, LateInv
<1>4. TextualInv'
  BY DEF TextualInv, TextInv, TargetInv, ProposalsInv, VerdictInv, Batch
<1> QED
  BY <1>1, <1>2, <1>3, <1>4 DEF ControlInv, TextualInv

LEMMA EnterStep == ASSUME IInv, Enter PROVE IInv'
<1> USE DEF Enter, IInv, input, output, round
<1>1. TypeOK'
  BY DEF TypeOK, Running
<1>2. ControlInv'
  BY DEF ControlInv, ProcessInv, CloseInv,
         RequestInv, LeaseInv, WindowInv, Decoding, Known, Unknown, Fresh
<1>3. OutputInv' /\ LateInv'
  BY DEF OutputInv, G!IsGreedy, Ended, LateInv, Decoding, Known, Unknown
<1>4. TextualInv'
  BY DEF TextualInv, TextInv, TargetInv, ProposalsInv, VerdictInv, Decoding,
         Known, Unknown, Fresh
<1> QED
  BY <1>1, <1>2, <1>3, <1>4 DEF ControlInv, TextualInv

LEMMA JoinStep == ASSUME IInv, Join PROVE IInv'
<1> USE DEF Join, IInv, input, output, round
<1>1. TypeOK'
  BY DEF TypeOK, Running
<1>2. ControlInv'
  BY DEF ControlInv, ProcessInv, CloseInv,
         RequestInv, LeaseInv, WindowInv, Decoding, Known, Unknown, Fresh
<1>3. OutputInv' /\ LateInv'
  BY DEF OutputInv, G!IsGreedy, Ended, LateInv, Decoding, Known, Unknown
<1>4. TextualInv'
  BY DEF TextualInv, TextInv, TargetInv, ProposalsInv, VerdictInv, Decoding,
         Known, Unknown, Fresh
<1> QED
  BY <1>1, <1>2, <1>3, <1>4 DEF ControlInv, TextualInv

\* Another draft is due only where it may still be emitted.
LEMMA DraftStep == ASSUME IInv, Draft PROVE IInv'
<1> USE DEF Draft, IInv, life, input, output
<1>1. PICK t \in Tokens : proposals' = Append(proposals, t)
  OBVIOUS
<1>2. /\ proposals \in Seq(Tokens) /\ proposals' \in Seq(Tokens)
      /\ Len(proposals') = Len(proposals) + 1
  BY <1>1 DEF TypeOK
<1>3. TypeOK'
  BY <1>2 DEF TypeOK, Running
<1>4. ControlInv'
  BY DEF ControlInv, ProcessInv, CloseInv,
         RequestInv, LeaseInv, WindowInv, Decoding, Known, Unknown, Fresh
<1>5. OutputInv' /\ LateInv'
  BY DEF OutputInv, G!IsGreedy, Ended, LateInv, Decoding, Known, Unknown
<1>6. TextInv' /\ TargetInv' /\ VerdictInv'
  BY DEF TextInv, TargetInv, VerdictInv, Decoding, Known, Unknown
<1>7. ProposalsInv'
  <2>1. Len(emitted) < limit /\ Len(emitted) \in Nat /\ limit \in Nat
        /\ depth \in Nat
    BY Below, AssistantAssumption
    DEF Decoding, Unknown, TypeOK, AssistantAssumption
  <2>2. Len(proposals) < Least(depth, limit - Len(emitted))
    BY DEF ProposalsInv
  <2>3. Len(proposals) \in Nat
    BY <1>2
  <2>4. pc' = "draft" =>
          Len(proposals) + 1 < Least(depth, limit - Len(emitted))
    BY DEF More
  <2>5. Len(proposals) + 1 <= limit - Len(emitted)
    BY <2>1, <2>2, <2>3 DEF Least
  <2> QED
    BY <1>2, <2>4, <2>5 DEF ProposalsInv, Fresh, Known
<1> QED
  BY <1>3, <1>4, <1>5, <1>6, <1>7 DEF ControlInv

\* The last chunk completes what the consumer has.
LEMMA WholeStep == ASSUME IInv, Whole PROVE IInv'
<1> USE DEF Whole, IInv, life, input, round
<1>1. /\ emitted \in Seq(Tokens) /\ given \in Seq(Tokens)
      /\ Len(given) \in 0 .. Len(emitted)
      /\ given = FirstOf(emitted, Len(given)) /\ Ended(emitted)
  BY DEF TypeOK, OutputInv
<1>2. given' = emitted
  BY <1>1, FirstRest DEF Give
<1>3. late = 0 /\ late' \in {0, 1} /\ (late' = 1 => cancel)
  BY DEF LateInv, Give
<1>4. Ended(emitted)' <=> Ended(emitted)
  BY DEF Ended
<1>5. TypeOK'
  BY <1>1, <1>2, <1>3 DEF TypeOK, Suspended
<1>6. ControlInv'
  BY DEF ControlInv, ProcessInv, CloseInv,
         RequestInv, LeaseInv, WindowInv, Decoding, Known, Unknown, Fresh
<1>7. OutputInv' /\ LateInv'
  BY <1>1, <1>2, <1>3, <1>4
  DEF OutputInv, G!IsGreedy, LateInv, Decoding, Known, Unknown
<1>8. TextualInv'
  BY DEF TextualInv, TextInv, TargetInv, ProposalsInv, VerdictInv, Decoding,
         Known, Unknown, Fresh
<1> QED
  BY <1>5, <1>6, <1>7, <1>8 DEF ControlInv, TextualInv

LEMMA LeaveStep == ASSUME IInv, Leave PROVE IInv'
<1>1. CASE /\ Ended(emitted) /\ pc' = "whole" /\ leased' = FALSE
           /\ UNCHANGED <<input, output, round>>
  <2> USE <1>1 DEF Leave, IInv, input, output, round
  <2>1. TypeOK'
    BY DEF TypeOK, Running
  <2>2. ControlInv'
    BY DEF ControlInv, ProcessInv, CloseInv,
           RequestInv, LeaseInv, WindowInv, Decoding, Known, Unknown, Fresh
  <2>3. OutputInv' /\ LateInv'
    <3>1. Ended(emitted)' <=> Ended(emitted)
      BY DEF Ended
    <3> QED
      BY <3>1 DEF OutputInv, G!IsGreedy, LateInv, Decoding, Known, Unknown
  <2>4. TextualInv'
    BY DEF TextualInv, TextInv, TargetInv, ProposalsInv, VerdictInv,
           Decoding, Known, Unknown, Fresh
  <2> QED
    BY <2>1, <2>2, <2>3, <2>4 DEF ControlInv, TextualInv
<1>2. CASE Over
  <2>1. window' \in {"none", "idle", "lost"} /\ closed' \in BOOLEAN
    BY DEF Leave, IInv, TypeOK, WindowInv
  <2>2. ~ closed'
    BY DEF Leave, IInv, CloseInv
  <2> QED
    BY <1>2, <2>1, <2>2, OverStep DEF Leave
<1> QED
  BY <1>1, <1>2 DEF Leave

LEMMA ClosedStep == ASSUME IInv, UNCHANGED vars PROVE IInv'
<1> USE DEF vars, life, input, output, round, IInv
<1>1. TypeOK'
  BY DEF TypeOK
<1>2. ControlInv'
  BY DEF ControlInv, ProcessInv, CloseInv,
         RequestInv, LeaseInv, WindowInv
<1>3. OutputInv' /\ LateInv'
  BY DEF OutputInv, G!IsGreedy, Ended, LateInv
<1>4. TextualInv'
  BY DEF TextualInv, TextInv, TargetInv, ProposalsInv, VerdictInv, Batch
<1> QED
  BY <1>1, <1>2, <1>3, <1>4 DEF ControlInv, TextualInv

LEMMA NewWorkerType == ASSUME NEW n \in Nat PROVE NewWorker(n) \in Worker
<1>1. <<>> \in Seq(Row)
  OBVIOUS
<1> QED
  BY <1>1 DEF NewWorker, Worker

\* Whatever the worker held, a preparation leaves it with the prompt alone.
LEMMA PreparedReady ==
  ASSUME IInv, Prepare
  PROVE  Ready(worker', prompt) /\ prompt \in Seq(Tokens) /\ prompt # <<>>
<1>1. prompt \in Seq(Tokens) /\ prompt # <<>>
  BY AssistantAssumption, PromptType DEF Prepare, IInv, RequestInv
<1>2. worker' = Prefill(IF worker = None THEN NewWorker(Len(prompt))
                        ELSE worker, prompt)
  BY DEF Prepare, Prepared
<1>3. NewWorker(Len(prompt)) \in Worker
  BY <1>1, NewWorkerType
<1>4. worker # None => worker \in Worker
  BY DEF IInv, TypeOK
<1> QED
  BY <1>1, <1>2, <1>3, <1>4, PrefillProps

LEMMA PrepareStep == ASSUME IInv, Prepare PROVE IInv'
<1> USE DEF IInv, input, output
<1>1. Ready(worker', prompt) /\ prompt \in Seq(Tokens) /\ prompt # <<>>
  BY PreparedReady
<1>2. /\ worker' \in Worker /\ worker' # None
      /\ worker'.mem \in Seq(Row) /\ Ids(worker'.mem) = prompt
      /\ worker'.floor = Len(prompt)
  BY <1>1, NoneProps, WorkerType DEF Ready
<1>3. /\ pc = "admit" /\ pc' = "enter" /\ process' = "runs"
      /\ shared' = worker'.mem /\ pending' = Predict(prompt)
      /\ UNCHANGED <<closed, leased, window, cancel, prompt, limit, depth,
                     emitted, given, late, proposals, verdict>>
  BY <1>2 DEF Prepare
<1>4. emitted = <<>> /\ given = <<>> /\ late = 0 /\ proposals = <<>>
      /\ prompt \in Prompts /\ limit \in 1 .. MaxTokens
  BY <1>3 DEF RequestInv, ProposalsInv, Fresh
<1>5. pending' \in Tokens
  <2>1. Len(prompt) <= Context
    BY <1>4, AssistantAssumption, PromptType DEF AssistantAssumption
  <2> QED
    BY <1>1, <1>3, <2>1, PredictType, AssistantAssumption
<1>6. TypeOK'
  BY <1>2, <1>3, <1>5 DEF TypeOK, Running
<1>7. ControlInv'
  <2>1. ProcessInv'
    BY <1>2, <1>3 DEF ProcessInv
  <2> QED
    BY <1>3, <1>4, <2>1 DEF ControlInv, CloseInv, RequestInv, LeaseInv,
      WindowInv, Decoding, Known, Unknown, Fresh
<1>8. OutputInv' /\ LateInv'
  BY <1>3, <1>4 DEF OutputInv, G!IsGreedy, Ended, LateInv
<1>9. TextInv'
  <2>1. FirstOf(<<>>, 0) = <<>> /\ prompt \o <<>> = prompt
        /\ Len(<<>>) - 0 = 0
    BY <1>1, ConcatEmptySeq, SubSeqEmpty DEF FirstOf
  <2>2. Ids(shared') = prompt \o FirstOf(emitted', Len(emitted') - 0)
    BY <1>2, <1>3, <1>4, <2>1
  <2>3. pending' = Predict(prompt' \o emitted')
    BY <1>3, <1>4, <2>1
  <2> QED
    BY <1>3, <2>2, <2>3 DEF TextInv, Known, Unknown
<1>10. TargetInv' /\ ProposalsInv' /\ VerdictInv'
  BY <1>2, <1>3, <1>4 DEF TargetInv, ProposalsInv, VerdictInv
<1> QED
  BY <1>6, <1>7, <1>8, <1>9, <1>10 DEF ControlInv

\* Adding choices of the target to choices of the target.
LEMMA GreedyMore ==
  ASSUME NEW p \in Seq(Tokens), NEW o \in Seq(Tokens), NEW q \in Seq(Tokens),
         G!IsGreedy(p, o),
         \A i \in 1 .. Len(q) : q[i] = Predict(p \o o \o FirstOf(q, i - 1))
  PROVE  G!IsGreedy(p, o \o q)
<1> DEFINE r == o \o q
<1>1. /\ r \in Seq(Tokens) /\ Len(r) = Len(o) + Len(q)
      /\ \A i \in 1 .. Len(o) : r[i] = o[i]
      /\ \A i \in 1 .. Len(q) : r[Len(o) + i] = q[i]
  BY ConcatProps
<1> HIDE DEF r
<1>2. ASSUME NEW i \in 1 .. Len(r)
      PROVE  r[i] = Predict(p \o SubSeq(r, 1, i - 1))
  <2>1. CASE i <= Len(o)
    <3>1. i \in 1 .. Len(o) /\ i - 1 \in 0 .. Len(o)
      BY <1>1, <2>1
    <3>2. SubSeq(r, 1, i - 1) = SubSeq(o, 1, i - 1)
      BY <3>1, FirstOfConcat DEF r, FirstOf
    <3>3. o[i] = Predict(p \o SubSeq(o, 1, i - 1))
      BY <3>1 DEF G!IsGreedy
    <3> QED
      BY <1>1, <3>1, <3>2, <3>3
  <2>2. CASE ~ (i <= Len(o))
    <3> DEFINE j == i - Len(o)
    <3>1. j \in 1 .. Len(q) /\ j - 1 \in 0 .. Len(q) /\ i = Len(o) + j
          /\ i - 1 = Len(o) + (j - 1)
      BY <1>1, <2>2
    <3> HIDE DEF j
    <3>2. SubSeq(r, 1, i - 1) = o \o FirstOf(q, j - 1)
      <4>0. \A n \in 0 .. Len(q) :
              FirstOf(o \o q, Len(o) + n) = o \o FirstOf(q, n)
        BY FirstOfConcat
      <4>1. FirstOf(o \o q, Len(o) + (j - 1)) = o \o FirstOf(q, j - 1)
        BY <3>1, <4>0, Zenon
      <4> QED
        BY <3>1, <4>1 DEF r, FirstOf
    <3>3. p \o o \o FirstOf(q, j - 1) = p \o (o \o FirstOf(q, j - 1))
      <4> DEFINE f == FirstOf(q, j - 1)
      <4>1. f \in Seq(Tokens)
        BY <3>1, FirstProps
      <4> HIDE DEF f
      <4>0. p \in Seq(Tokens) /\ o \in Seq(Tokens)
        OBVIOUS
      <4>2. (p \o o) \o f = p \o (o \o f)
        BY <4>0, <4>1, ConcatTokens
      <4> QED
        BY <4>2 DEF f
    <3>4. q[j] = Predict(p \o o \o FirstOf(q, j - 1))
      BY <3>1
    <3> QED
      BY <1>1, <3>1, <3>2, <3>3, <3>4
  <2> QED
    BY <2>1, <2>2
<1> QED
  BY <1>2 DEF G!IsGreedy, r

LEMMA ConcatOne ==
  ASSUME NEW S, NEW s \in Seq(S), NEW e \in S
  PROVE  Append(s, e) = s \o <<e>>
BY AppendIsConcat

\* The next choice is of a history within the context.
LEMMA ChoiceType ==
  ASSUME IInv, pc \in Known
  PROVE  pending \in Tokens /\ prompt \in Seq(Tokens)
<1>1. /\ emitted \in Seq(Tokens) /\ Len(emitted) <= limit
      /\ prompt \in Prompts /\ limit \in 1 .. MaxTokens
      /\ pending = Predict(prompt \o emitted)
  BY DEF IInv, TypeOK, OutputInv, RequestInv, TextInv, Known
<1>2. /\ prompt \in Seq(Tokens) /\ Len(prompt) + MaxTokens <= Context
      /\ MaxTokens \in Nat /\ Context \in Nat
  BY <1>1, AssistantAssumption, PromptType DEF AssistantAssumption
<1>3. prompt \o emitted \in Seq(Tokens)
      /\ Len(prompt \o emitted) = Len(prompt) + Len(emitted)
  BY <1>1, <1>2, ConcatProps
<1>4. Len(prompt \o emitted) <= Context
  BY <1>1, <1>2, <1>3
<1> QED
  BY <1>1, <1>2, <1>3, <1>4, PredictType, AssistantAssumption

\* The target's own token continues the greedy stream.
LEMMA TopStep == ASSUME IInv, Top PROVE IInv'
<1> USE DEF IInv
<1>0. pc = "top" /\ UNCHANGED <<closed, worker, process, leased, window,
        cancel, prompt, limit, depth, pending, proposals, verdict, shared>>
  BY DEF Top, life, input, round
<1>1. /\ emitted \in Seq(Tokens) /\ given = emitted /\ ~ Ended(emitted)
      /\ Len(emitted) < limit /\ Len(emitted) \in Nat /\ limit \in Nat
      /\ pending = Predict(prompt \o emitted) /\ proposals = <<>>
      /\ late \in Nat
  BY <1>0, Below DEF TypeOK, OutputInv, TextInv, ProposalsInv, Decoding, Known
<1>2. CASE ~ Continues
  <2>1. pc' = "leave" /\ UNCHANGED <<emitted, given, late>>
    BY <1>2 DEF Top, output
  <2>2. Ended(emitted)' <=> Ended(emitted)
    BY <1>0, <2>1 DEF Ended
  <2>3. TypeOK'
    BY <1>0, <2>1 DEF TypeOK, Running
  <2>4. ControlInv'
    BY <1>0, <2>1
    DEF ControlInv, ProcessInv, CloseInv,
        RequestInv, LeaseInv, WindowInv, Decoding, Known, Unknown, Fresh
  <2>5. OutputInv' /\ LateInv'
    BY <1>0, <1>1, <2>1, <2>2
    DEF OutputInv, G!IsGreedy, LateInv, Decoding, Known, Unknown
  <2>6. TextualInv'
    BY <1>0, <2>1 DEF TextualInv, TextInv, TargetInv, ProposalsInv,
       VerdictInv, Decoding, Known, Unknown, Fresh
  <2> QED
    BY <2>3, <2>4, <2>5, <2>6 DEF ControlInv, TextualInv
<1>3. CASE Continues
  <2>1. /\ ~ cancel /\ process = "runs" /\ late = 0
        /\ emitted' = Append(emitted, pending)
    BY <1>0, <1>3 DEF Top, Continues, LateInv
  <2>2. pending \in Tokens /\ prompt \in Seq(Tokens)
    BY <1>0, ChoiceType DEF Known
  <2>3. /\ emitted' = emitted \o <<pending>> /\ emitted' \in Seq(Tokens)
        /\ Len(emitted') = Len(emitted) + 1 /\ emitted' # <<>>
        /\ \A i \in 1 .. Len(emitted) : emitted'[i] = emitted[i]
        /\ FirstOf(emitted', Len(emitted)) = emitted
    <3>1. emitted' = emitted \o <<pending>> /\ <<pending>> \in Seq(Tokens)
      BY <1>1, <2>1, <2>2, ConcatOne
    <3>2. /\ emitted' \in Seq(Tokens) /\ Len(emitted') = Len(emitted) + 1
          /\ \A i \in 1 .. Len(emitted) : emitted'[i] = emitted[i]
          /\ emitted' # <<>>
      BY <1>1, <2>1, <2>2, AppendProperties
    <3>3. FirstOf(emitted', Len(emitted)) = FirstOf(emitted, Len(emitted))
      <4>1. \A n \in 0 .. Len(emitted) :
              FirstOf(emitted \o <<pending>>, n) = FirstOf(emitted, n)
        BY <1>1, <3>1, FirstOfConcat
      <4>2. Len(emitted) \in 0 .. Len(emitted)
        BY <1>1
      <4> QED
        BY <3>1, <4>1, <4>2, Zenon
    <3> QED
      BY <1>1, <3>1, <3>2, <3>3, FirstAll
  <2>4. \/ /\ Ended(emitted)' /\ pc' = "leave" /\ UNCHANGED <<given, late>>
        \/ /\ ~ Ended(emitted)' /\ pc' = "bonus" /\ late' = late
           /\ given' = emitted'
    <3>0. Ended(emitted') <=> Ended(emitted)'
      BY <1>0 DEF Ended
    <3>1. CASE Ended(emitted')
      BY <1>3, <3>0, <3>1 DEF Top
    <3>2. CASE ~ Ended(emitted')
      <4>1. pc' = "bonus" /\ Give(<<pending>>)
        BY <1>3, <3>2 DEF Top
      <4> QED
        BY <1>1, <2>1, <2>3, <3>0, <3>2, <4>1 DEF Give
    <3> QED
      BY <3>1, <3>2
  <2>5. TypeOK'
    <3>1. given' \in Seq(Tokens) /\ late' \in Nat
          /\ pc' \in {"leave", "bonus"}
      BY <1>1, <2>1, <2>3, <2>4
    <3> QED
      BY <1>0, <2>3, <3>1 DEF TypeOK, Running, Suspended
  <2>6. ControlInv'
    BY <1>0, <2>4
    DEF ControlInv, ProcessInv, CloseInv,
        RequestInv, LeaseInv, WindowInv, Decoding, Known, Unknown, Fresh
  <2>7. G!IsGreedy(prompt, emitted')
    <3> DEFINE q == <<pending>>
    <3>1. q \in Seq(Tokens) /\ Len(q) = 1 /\ q[1] = pending
          /\ FirstOf(q, 0) = <<>>
      BY <2>2, SubSeqEmpty DEF FirstOf
    <3> HIDE DEF q
    <3>2. prompt \o emitted \o <<>> = prompt \o emitted
      <4>1. prompt \o emitted \in Seq(Tokens)
        BY <1>1, <2>2, ConcatProps
      <4> QED
        BY <4>1, ConcatEmptySeq
    <3>3. ASSUME NEW i \in 1 .. Len(q)
          PROVE  q[i] = Predict(prompt \o emitted \o FirstOf(q, i - 1))
      <4>1. i = 1 /\ i - 1 = 0
        BY <3>1
      <4> QED
        BY <1>1, <3>1, <3>2, <4>1
    <3>4. G!IsGreedy(prompt, emitted)
      BY DEF OutputInv
    <3>5. G!IsGreedy(prompt, emitted \o q)
      BY <1>1, <2>2, <3>1, <3>3, <3>4, GreedyMore
    <3> QED
      BY <2>3, <3>5 DEF q
  <2>8. \A i \in 1 .. Len(emitted') - 1 : emitted'[i] \notin Eog
    BY <1>1, <2>3 DEF OutputInv, Ended
  <2>9. OutputInv'
    <3>1. G!IsGreedy(prompt, emitted)'
      BY <1>0, <2>7 DEF G!IsGreedy
    <3>2. Len(emitted') <= limit'
      BY <1>0, <1>1, <2>3
    <3>3. pc' = "leave" => /\ Len(given') < Len(emitted')
                           /\ given' = FirstOf(emitted', Len(given'))
      BY <1>1, <2>3, <2>4
    <3> QED
      BY <2>4, <2>8, <3>1, <3>2, <3>3 DEF OutputInv, Decoding, Known, Unknown
  <2>10. LateInv'
    BY <2>1, <2>4 DEF LateInv
  <2>11. TextInv'
    <3>1. pc' = "bonus" =>
            Ids(shared') = prompt' \o FirstOf(emitted', Len(emitted') - 1)
      <4>1. Ids(shared) = prompt \o FirstOf(emitted, Len(emitted) - 0)
        BY <1>0 DEF TextInv, Decoding, Known
      <4>2. Len(emitted) - 0 = Len(emitted) /\ Len(emitted') - 1 = Len(emitted)
        BY <1>1, <2>3
      <4> QED
        BY <1>0, <1>1, <2>3, <4>1, <4>2, FirstAll
    <3> QED
      BY <2>3, <2>4, <3>1 DEF TextInv, Decoding, Known, Unknown
  <2>12. TargetInv' /\ ProposalsInv' /\ VerdictInv'
    BY <1>0, <1>1, <2>4 DEF TargetInv, ProposalsInv, VerdictInv, Decoding,
       Known, Unknown, Fresh
  <2> QED
    BY <2>5, <2>6, <2>9, <2>10, <2>11, <2>12 DEF ControlInv
<1> QED
  BY <1>2, <1>3

\* The batch of a verification is the last token and the drafts.
LEMMA BatchProps ==
  ASSUME IInv, pc \in Unknown
  PROVE  /\ Batch \in Seq(Tokens) /\ Len(Batch) = 1 + Len(proposals)
         /\ proposals \in Seq(Tokens) /\ Len(proposals) \in Nat
         /\ \A n \in 0 .. Len(proposals) :
              FirstOf(Batch, 1 + n)
                = <<emitted[Len(emitted)]>> \o FirstOf(proposals, n)
<1> DEFINE e == <<emitted[Len(emitted)]>>
<1>1. /\ emitted \in Seq(Tokens) /\ emitted # <<>>
      /\ proposals \in Seq(Tokens) /\ Len(proposals) \in Nat
  BY DEF IInv, TypeOK, TextInv
<1>2. e \in Seq(Tokens) /\ Len(e) = 1
  <2>1. Len(emitted) \in 1 .. Len(emitted)
    BY <1>1, EmptySeq
  <2>2. emitted[Len(emitted)] \in Tokens
    BY <1>1, <2>1, ElementOfSeq
  <2> QED
    BY <2>2
<1>3. Batch = e \o proposals
  BY DEF Batch
<1> HIDE DEF e
<1>4. /\ e \o proposals \in Seq(Tokens)
      /\ Len(e \o proposals) = Len(e) + Len(proposals)
  BY <1>1, <1>2, ConcatProps
<1>5. ASSUME NEW n \in 0 .. Len(proposals)
      PROVE  FirstOf(e \o proposals, 1 + n) = e \o FirstOf(proposals, n)
  <2>1. FirstOf(e \o proposals, Len(e) + n) = e \o FirstOf(proposals, n)
    BY <1>1, <1>2, FirstOfRight
  <2> QED
    BY <1>2, <2>1
<1> QED
  BY <1>1, <1>2, <1>3, <1>4, <1>5 DEF e

\* What the drafter's rows are when a batch is verified: the prompt and what
\* is emitted, without the last token.
LEMMA SharedProps ==
  ASSUME IInv, pc \in Unknown
  PROVE  /\ shared \in Seq(Row) /\ Ids(shared) \in Seq(Tokens)
         /\ Len(Ids(shared)) = Len(shared)
         /\ Len(shared) = Len(prompt) + Len(emitted) - 1
         /\ Ids(shared) \o <<emitted[Len(emitted)]>> = prompt \o emitted
         /\ prompt \in Seq(Tokens) /\ emitted \in Seq(Tokens)
         /\ Len(prompt) \in Nat \ {0} /\ Len(emitted) \in Nat \ {0}
         /\ Len(prompt) + limit <= Context /\ Context \in Nat
<1> DEFINE e == <<emitted[Len(emitted)]>>
           f == FirstOf(emitted, Len(emitted) - 1)
<1>1. /\ emitted \in Seq(Tokens) /\ emitted # <<>> /\ shared \in Seq(Row)
      /\ prompt \in Prompts /\ limit \in 1 .. MaxTokens
      /\ Ids(shared) = prompt \o f
  BY DEF IInv, TypeOK, TextInv, RequestInv, Unknown, Known, Decoding
<1>2. /\ prompt \in Seq(Tokens) /\ prompt # <<>> /\ Context \in Nat
      /\ Len(prompt) + MaxTokens <= Context /\ MaxTokens \in Nat
  BY <1>1, AssistantAssumption, PromptType DEF AssistantAssumption
<1>3. Len(prompt) \in Nat \ {0} /\ Len(emitted) \in Nat \ {0}
  BY <1>1, <1>2, EmptySeq
<1>4. f \in Seq(Tokens) /\ Len(f) = Len(emitted) - 1
  BY <1>1, <1>3, FirstProps
<1>5. Ids(shared) \in Seq(Tokens) /\ Len(Ids(shared)) = Len(shared)
  BY <1>1, IdsProps
<1>6. e \in Seq(Tokens) /\ f \o e = emitted
  <2>1. Len(emitted) \in 1 .. Len(emitted) /\ 1 \in 1 .. Len(emitted)
    BY <1>3
  <2>2. emitted[Len(emitted)] \in Tokens
    BY <1>1, <2>1, ElementOfSeq
  <2>3. SubSeq(emitted, 1, Len(emitted)) = f \o e
    BY <1>1, <2>1, SubSeqRecursiveSecond DEF FirstOf
  <2> QED
    BY <1>1, <2>2, <2>3, SubSeqFull
<1> HIDE DEF e, f
<1>7. Ids(shared) \o e = prompt \o (f \o e)
  <2>1. prompt \in Seq(Tokens) /\ f \in Seq(Tokens) /\ e \in Seq(Tokens)
    BY <1>2, <1>4, <1>6
  <2>2. (prompt \o f) \o e = prompt \o (f \o e)
    BY <2>1, ConcatTokens
  <2> QED
    BY <1>1, <2>2
<1>8. Len(prompt \o f) = Len(prompt) + Len(f)
  BY <1>2, <1>4, ConcatProps
<1>9. Len(shared) = Len(prompt) + Len(emitted) - 1
  BY <1>1, <1>3, <1>4, <1>5, <1>8
<1>10. Len(prompt) + limit <= Context
  BY <1>1, <1>2, <1>3
<1> QED
  BY <1>1, <1>2, <1>3, <1>5, <1>6, <1>7, <1>9, <1>10 DEF e

\* A verification adds the batch's rows behind the others.
LEMMA DecodeProps ==
  ASSUME NEW w \in Worker, NEW ids \in Seq(Tokens)
  PROVE  /\ Decode(w, ids) \in Worker
         /\ Decode(w, ids).mem = w.mem \o Rows(ids, "decode")
         /\ Decode(w, ids).floor = w.floor
<1> DEFINE r == Rows(ids, "decode")
<1>1. w.mem \in Seq(Row) /\ r \in Seq(Row)
  BY WorkerType, RowsProps DEF Class
<1> HIDE DEF r
<1>2. w.mem \o r \in Seq(Row)
  BY <1>1, ConcatProps
<1> QED
  BY <1>2 DEF Decode, Worker, r

\* A rollback removes the end.
LEMMA RollbackProps ==
  ASSUME NEW w \in Worker, NEW n \in 0 .. Len(w.mem)
  PROVE  /\ Rollback(w, n) \in Worker
         /\ Rollback(w, n).mem = FirstOf(w.mem, n)
         /\ Rollback(w, n).floor = w.floor
<1>1. w.mem \in Seq(Row)
  BY WorkerType
<1>2. FirstOf(w.mem, n) \in Seq(Row)
  BY <1>1, FirstProps
<1> QED
  BY <1>2 DEF Rollback, Worker

LEMMA VerifyStep == ASSUME IInv, Verify PROVE IInv'
<1> USE DEF IInv
<1>1. /\ pc = "verify" /\ pc' = "accept" /\ process = "runs"
      /\ DecodeFits(worker, Batch) /\ verdict' = Predictions(worker, Batch)
      /\ worker' = Decode(worker, Batch)
      /\ UNCHANGED <<closed, process, leased, window, cancel, prompt, limit,
                     depth, emitted, given, late, pending, proposals, shared>>
  BY DEF Verify, input, output
<1>2. /\ worker \in Worker /\ worker.mem = shared
      /\ worker.floor = Len(prompt)
  BY <1>1
  DEF TypeOK, ProcessInv, TargetInv, Decoding, Unknown
<1>3. /\ shared \in Seq(Row) /\ Ids(shared) \in Seq(Tokens)
      /\ Len(Ids(shared)) = Len(shared) /\ Len(shared) \in Nat
      /\ Context \in Nat
  BY <1>1, SharedProps DEF Unknown
<1>4. Batch \in Seq(Tokens) /\ Len(Batch) \in Nat
  BY <1>1, BatchProps DEF Unknown
<1>5. Batch' = Batch
  BY <1>1 DEF Batch
<1> DEFINE b == Batch
<1> HIDE DEF b
<1>6. /\ worker' \in Worker
      /\ worker'.mem = shared \o Rows(Batch, "decode")
      /\ worker'.floor = Len(prompt)
  BY <1>1, <1>2, <1>4, DecodeProps
<1>7. ASSUME NEW i \in 1 .. Len(Batch)
      PROVE  Predict(Ids(shared) \o FirstOf(Batch, i)) \in Tokens
  <2> DEFINE f == FirstOf(Batch, i)
  <2>1. f \in Seq(Tokens) /\ Len(f) = i
    BY <1>4, FirstProps
  <2> HIDE DEF f
  <2>2. /\ Ids(shared) \o f \in Seq(Tokens)
        /\ Len(Ids(shared) \o f) = Len(Ids(shared)) + Len(f)
    BY <1>3, <2>1, ConcatProps
  <2>3. Len(Ids(shared) \o f) <= Context
    BY <1>1, <1>2, <1>3, <1>4, <2>1, <2>2 DEF DecodeFits
  <2>4. Predict(Ids(shared) \o f) \in Tokens
    BY <2>2, <2>3, PredictType, AssistantAssumption
  <2> QED
    BY <2>4 DEF f
<1>8. /\ verdict' \in Seq(Tokens) /\ Len(verdict') = Len(Batch)
      /\ \A i \in 1 .. Len(Batch) :
           verdict'[i] = Predict(Ids(shared) \o FirstOf(Batch, i))
  <2>1. verdict' = [i \in 1 .. Len(Batch) |->
                      Predict(Ids(shared) \o FirstOf(Batch, i))]
    BY <1>1, <1>2 DEF Predictions
  <2> QED
    BY <1>4, <1>7, <2>1
<1>9. TypeOK'
  BY <1>1, <1>6, <1>8 DEF TypeOK, Running
<1>10. ControlInv'
  <2>1. worker' # None
    BY <1>6, NoneProps
  <2>2. ProcessInv'
    BY <1>1, <1>6, <2>1 DEF ProcessInv
  <2> QED
    BY <1>1, <2>2 DEF ControlInv, CloseInv, RequestInv, LeaseInv, WindowInv,
       Decoding, Known, Unknown, Fresh
<1>11. OutputInv' /\ LateInv'
  BY <1>1 DEF OutputInv, G!IsGreedy, Ended, LateInv, Decoding, Known, Unknown
<1>12. TextInv' /\ ProposalsInv'
  BY <1>1 DEF TextInv, ProposalsInv, Decoding, Known, Unknown, Fresh
<1>13. TargetInv' /\ VerdictInv'
  BY <1>1, <1>5, <1>6, <1>8 DEF TargetInv, VerdictInv
<1> QED
  BY <1>9, <1>10, <1>11, <1>12, <1>13 DEF ControlInv

\* How many drafts are accepted: the target's own choices, and none behind
\* one that ends the generation.
LEMMA AcceptedProps ==
  ASSUME IInv, pc = "accept"
  PROVE  /\ Accepted \in 0 .. Len(proposals)
         /\ \A i \in 1 .. Accepted : proposals[i] = verdict[i]
         /\ \A i \in 1 .. Accepted - 1 : proposals[i] \notin Eog
<1> DEFINE N == {n \in 1 .. Len(proposals) :
                   FirstOf(proposals, n) = FirstOf(verdict, n)}
           ends == {n \in 1 .. Agreed : proposals[n] \in Eog}
<1>1. /\ proposals \in Seq(Tokens) /\ verdict \in Seq(Tokens)
      /\ Len(proposals) \in Nat /\ Len(verdict) = 1 + Len(proposals)
  BY BatchProps DEF IInv, TypeOK, VerdictInv, Unknown
<1>2. ASSUME NEW n \in N, NEW k \in 1 .. n
      PROVE  k \in N
  <2>1. n \in 0 .. Len(proposals) /\ n \in 0 .. Len(verdict)
        /\ k \in 0 .. n /\ FirstOf(proposals, n) = FirstOf(verdict, n)
    BY <1>1
  <2>2. FirstOf(proposals, k) = FirstOf(verdict, k)
    BY <1>1, <2>1, FirstOfFirst
  <2> QED
    BY <2>1, <2>2
<1>3. N \in SUBSET (1 .. Len(proposals))
  OBVIOUS
<1> HIDE DEF N
<1>4. Agreed \in 0 .. Len(proposals) /\ N = 1 .. Agreed
  <2>1. Agreed = Cardinality(N)
    BY DEF Agreed, N
  <2> QED
    BY <1>1, <1>2, <1>3, <2>1, InitialSegment
<1>5. ASSUME NEW i \in 1 .. Agreed
      PROVE  proposals[i] = verdict[i]
  <2>1. i \in N
    BY <1>4
  <2>2. FirstOf(proposals, i) = FirstOf(verdict, i) /\ i \in 1 .. i
        /\ i \in 0 .. Len(proposals) /\ i \in 0 .. Len(verdict)
    BY <1>1, <2>1 DEF N
  <2>3. FirstOf(proposals, i)[i] = proposals[i]
    BY <1>1, <2>2, FirstProps
  <2>4. FirstOf(verdict, i)[i] = verdict[i]
    BY <1>1, <2>2, FirstProps
  <2> QED
    BY <2>2, <2>3, <2>4
<1>6. /\ Accepted \in 0 .. Agreed
      /\ \A i \in 1 .. Accepted - 1 : proposals[i] \notin Eog
  <2>1. CASE ends = {}
    <3>1. Accepted = Agreed
      BY <2>1 DEF Accepted
    <3> QED
      BY <1>4, <2>1, <3>1
  <2>2. CASE ends # {}
    <3>1. ends \subseteq Nat
      BY <1>4
    <3>2. Min(ends) \in ends /\ \A y \in ends : Min(ends) <= y
      BY <2>2, <3>1, MinProps
    <3>3. Accepted = CHOOSE n \in ends : \A m \in ends : n <= m
      BY <2>2 DEF Accepted
    <3> HIDE DEF ends
    <3>4. Accepted \in ends /\ \A m \in ends : Accepted <= m
      BY <3>2, <3>3
    <3>5. Accepted \in 1 .. Agreed
      BY <3>4 DEF ends
    <3>6. ASSUME NEW i \in 1 .. Accepted - 1
          PROVE  proposals[i] \notin Eog
      <4>1. i \in 1 .. Agreed /\ ~ (Accepted <= i)
        BY <1>4, <3>5
      <4> QED
        BY <3>4, <4>1 DEF ends
    <3> QED
      BY <3>5, <3>6
  <2> QED
    BY <2>1, <2>2
<1> QED
  BY <1>1, <1>4, <1>5, <1>6

\* The history after the last token and n drafts.
LEMMA HistoryProps ==
  ASSUME IInv, pc \in Unknown, NEW n \in 0 .. Len(proposals)
  PROVE  /\ FirstOf(proposals, n) \in Seq(Tokens)
         /\ Len(FirstOf(proposals, n)) = n
         /\ FirstOf(Batch, 1 + n) \in Seq(Tokens)
         /\ Len(FirstOf(Batch, 1 + n)) = 1 + n
         /\ Ids(shared) \o FirstOf(Batch, 1 + n)
              = (prompt \o emitted) \o FirstOf(proposals, n)
         /\ (prompt \o emitted) \o FirstOf(proposals, n)
              = prompt \o (emitted \o FirstOf(proposals, n))
<1> DEFINE e == <<emitted[Len(emitted)]>>
           q == FirstOf(proposals, n)
           b == FirstOf(Batch, 1 + n)
<1>1. /\ Ids(shared) \in Seq(Tokens) /\ Ids(shared) \o e = prompt \o emitted
      /\ prompt \in Seq(Tokens) /\ emitted \in Seq(Tokens)
      /\ Len(emitted) \in Nat \ {0}
  BY SharedProps
<1>2. /\ proposals \in Seq(Tokens) /\ Batch \in Seq(Tokens)
      /\ Len(Batch) = 1 + Len(proposals) /\ b = e \o q
      /\ Len(proposals) \in Nat
  BY BatchProps
<1>3. q \in Seq(Tokens) /\ Len(q) = n
  BY <1>2, FirstProps
<1>4. b \in Seq(Tokens) /\ Len(b) = 1 + n
  <2>1. 1 + n \in 0 .. Len(Batch)
    BY <1>2
  <2> QED
    BY <1>2, <2>1, FirstProps
<1>5. e \in Seq(Tokens)
  <2>1. Len(emitted) \in 1 .. Len(emitted)
    BY <1>1
  <2>2. emitted[Len(emitted)] \in Tokens
    BY <1>1, <2>1, ElementOfSeq
  <2> QED
    BY <2>2
<1> HIDE DEF e, q, b
<1>6. Ids(shared) \o b = (Ids(shared) \o e) \o q
  <2>1. Ids(shared) \in Seq(Tokens)
    BY <1>1
  <2>2. (Ids(shared) \o e) \o q = Ids(shared) \o (e \o q)
    BY <1>3, <1>5, <2>1, ConcatTokens
  <2> QED
    BY <1>2, <2>2
<1>7. (prompt \o emitted) \o q = prompt \o (emitted \o q)
  <2>1. prompt \in Seq(Tokens) /\ emitted \in Seq(Tokens)
    BY <1>1
  <2> QED
    BY <1>3, <2>1, ConcatTokens
<1> QED
  BY <1>1, <1>3, <1>4, <1>6, <1>7 DEF q, b, e

\* What the target and the host keep of a verified batch.
LEMMA KeptRowsProps ==
  ASSUME IInv, pc = "accept", process = "runs"
  PROVE  LET q == FirstOf(proposals, Accepted)
             s == shared \o FirstOf(Rows(Batch, "decode"), Keep)
         IN  /\ RollbackAllowed(worker, Len(shared) + Keep)
             /\ KeptRows \in Worker
             /\ KeptRows.mem = s /\ KeptRows.floor = Len(prompt)
             /\ s \in Seq(Row) /\ Ids(s) = prompt \o (emitted \o q)
             /\ Len(s) = Len(shared) + Keep
             /\ Len(s) = Len(prompt) + Len(emitted) + Accepted
<1> DEFINE q == FirstOf(proposals, Accepted)
           r == Rows(Batch, "decode")
           s == shared \o FirstOf(r, Keep)
           b == FirstOf(Batch, Keep)
<1>0. "decode" \in Class
  BY DEF Class
<1>1. /\ Accepted \in 0 .. Len(proposals) /\ Keep = 1 + Accepted
  BY AcceptedProps DEF Keep
<1>2. /\ Batch \in Seq(Tokens) /\ Len(Batch) = 1 + Len(proposals)
      /\ Len(proposals) \in Nat
  BY BatchProps DEF Unknown
<1>3. /\ shared \in Seq(Row) /\ Len(shared) \in Nat
      /\ Len(shared) = Len(prompt) + Len(emitted) - 1
      /\ Len(prompt) \in Nat \ {0} /\ Len(emitted) \in Nat \ {0}
  BY SharedProps DEF Unknown
<1>4. /\ b \in Seq(Tokens) /\ Len(b) = Keep
      /\ Ids(shared) \o b = prompt \o (emitted \o q)
  BY <1>1, HistoryProps DEF Unknown
<1>5. r \in Seq(Row) /\ Len(r) = Len(Batch)
  BY <1>0, <1>2, RowsProps
<1>6. Keep \in 0 .. Len(r) /\ Keep \in 0 .. Len(Batch)
  BY <1>1, <1>2, <1>5
<1>7. FirstOf(r, Keep) = Rows(b, "decode")
  BY <1>0, <1>2, <1>6, RowsOfFirst
<1>8. FirstOf(r, Keep) \in Seq(Row) /\ Len(FirstOf(r, Keep)) = Keep
  BY <1>5, <1>6, FirstProps
<1>9. s \in Seq(Row) /\ Len(s) = Len(shared) + Keep
  BY <1>3, <1>8, ConcatProps
<1>10. Ids(s) = prompt \o (emitted \o q)
  <2>1. Ids(s) = Ids(shared) \o Ids(FirstOf(r, Keep))
    BY <1>3, <1>8, IdsOfConcat
  <2>2. Ids(Rows(b, "decode")) = b
    <3>1. b \in Seq(Tokens)
      BY <1>4
    <3> QED
      BY <1>0, <3>1, IdsOfRows
  <2> QED
    BY <1>4, <1>7, <2>1, <2>2
<1>11. /\ worker \in Worker
       /\ worker.mem = shared \o r /\ worker.floor = Len(prompt)
  BY DEF IInv, TypeOK, ProcessInv, TargetInv, Decoding, Unknown
<1>12. Len(worker.mem) = Len(shared) + Len(r)
  BY <1>3, <1>5, <1>11, ConcatProps
<1>13. /\ Len(shared) + Keep \in 0 .. Len(worker.mem)
       /\ worker.floor <= Len(shared) + Keep
       /\ Len(shared) + Keep <= Len(worker.mem)
  BY <1>1, <1>2, <1>3, <1>5, <1>11, <1>12
<1>14. FirstOf(worker.mem, Len(shared) + Keep) = s
  <2>1. shared \in Seq(Row) /\ r \in Seq(Row) /\ Keep \in 0 .. Len(r)
    BY <1>3, <1>5, <1>6
  <2> HIDE DEF r
  <2>2. FirstOf(shared \o r, Len(shared) + Keep)
          = shared \o FirstOf(r, Keep)
    BY <2>1, FirstOfRight
  <2> QED
    BY <1>11, <2>2 DEF r
<1>15. /\ KeptRows \in Worker
       /\ KeptRows.mem = s /\ KeptRows.floor = Len(prompt)
  <2>1. CASE Keep < Len(verdict)
    <3>1. KeptRows = Rollback(worker, Len(shared) + Keep)
      BY <2>1 DEF KeptRows
    <3> QED
      BY <1>11, <1>13, <1>14, <3>1, RollbackProps
  <2>2. CASE ~ (Keep < Len(verdict))
    <3>1. KeptRows = worker
      BY <2>2 DEF KeptRows
    <3>2. Len(verdict) = Len(Batch)
      BY DEF IInv, VerdictInv
    <3>3. Keep = Len(r)
      BY <1>2, <1>5, <1>6, <2>2, <3>2
    <3>4. FirstOf(r, Len(r)) = r
      BY <1>5, FirstAll
    <3> QED
      BY <1>11, <3>1, <3>3, <3>4
  <2> QED
    BY <2>1, <2>2
<1>16. Len(s) = Len(prompt) + Len(emitted) + Accepted
  BY <1>1, <1>3, <1>9
<1>17. RollbackAllowed(worker, Len(shared) + Keep)
  BY <1>13 DEF RollbackAllowed
<1> HIDE DEF KeptRows
<1> QED
  BY <1>9, <1>10, <1>15, <1>16, <1>17

\* The round's end: what was accepted is in the target's memory, in the
\* drafter's, and on its way to the consumer.
LEMMA AcceptStep == ASSUME IInv, Accept PROVE IInv'
<1> USE DEF IInv
<1> DEFINE a == Accepted
           q == FirstOf(proposals, a)
<1>1. /\ pc = "accept" /\ process = "runs" /\ worker' = KeptRows
      /\ pending' = verdict[Keep] /\ emitted' = emitted \o q
      /\ shared' = shared \o FirstOf(Rows(Batch, "decode"), Keep)
      /\ proposals' = <<>> /\ verdict' = <<>>
      /\ UNCHANGED <<closed, process, leased, window, cancel, prompt, limit,
                     depth>>
  BY DEF Accept, input
<1>2. /\ a \in 0 .. Len(proposals) /\ Keep = 1 + a
      /\ \A i \in 1 .. a : proposals[i] = verdict[i]
      /\ \A i \in 1 .. a - 1 : proposals[i] \notin Eog
  BY <1>1, AcceptedProps DEF Keep
<1>3. /\ emitted \in Seq(Tokens) /\ given = emitted /\ ~ Ended(emitted)
      /\ Len(emitted) < limit /\ Len(emitted) \in Nat \ {0} /\ limit \in Nat
      /\ prompt \in Seq(Tokens) /\ late = 0
      /\ proposals \in Seq(Tokens) /\ verdict \in Seq(Tokens)
      /\ Len(proposals) \in Nat /\ Len(verdict) = 1 + Len(proposals)
      /\ Len(proposals) <= limit - Len(emitted)
  BY <1>1, Below, SharedProps, BatchProps
  DEF TypeOK, OutputInv, LateInv, VerdictInv, ProposalsInv, Decoding, Unknown
<1>4. /\ worker' \in Worker /\ worker' # None
      /\ worker'.mem = shared' /\ worker'.floor = Len(prompt)
      /\ shared' \in Seq(Row) /\ Ids(shared') = prompt \o emitted'
  BY <1>1, KeptRowsProps, NoneProps
<1>5. /\ q \in Seq(Tokens) /\ Len(q) = a
      /\ \A i \in 1 .. a : q[i] = proposals[i]
  BY <1>2, <1>3, FirstProps
<1>6. ASSUME NEW i \in 1 .. a + 1
      PROVE  verdict[i] = Predict((prompt \o emitted)
                                    \o FirstOf(proposals, i - 1))
  <2>1. i - 1 \in 0 .. Len(proposals) /\ i \in 1 .. Len(verdict)
        /\ 1 + (i - 1) = i
    BY <1>2, <1>3
  <2>2. Ids(shared) \o FirstOf(Batch, 1 + (i - 1))
          = (prompt \o emitted) \o FirstOf(proposals, i - 1)
    BY <1>1, <2>1, HistoryProps DEF Unknown
  <2>3. verdict[i] = Predict(Ids(shared) \o FirstOf(Batch, i))
    BY <1>1, <2>1 DEF VerdictInv
  <2> QED
    BY <2>1, <2>2, <2>3
<1>7. /\ pending' \in Tokens /\ pending' = Predict(prompt \o emitted')
  <2>1. Keep \in 1 .. a + 1 /\ Keep - 1 = a /\ Keep \in 1 .. Len(verdict)
    BY <1>2, <1>3
  <2>2. verdict[Keep] \in Tokens
    BY <1>3, <2>1
  <2>3. (prompt \o emitted) \o q = prompt \o (emitted \o q)
    BY <1>1, <1>2, HistoryProps DEF Unknown
  <2> QED
    BY <1>1, <1>6, <2>1, <2>2, <2>3
<1>8. G!IsGreedy(prompt, emitted')
  <2>1. ASSUME NEW i \in 1 .. Len(q)
        PROVE  q[i] = Predict(prompt \o emitted \o FirstOf(q, i - 1))
    <3>1. i \in 1 .. a /\ i \in 1 .. a + 1 /\ i - 1 \in 0 .. a
          /\ a \in 0 .. Len(proposals)
      BY <1>2, <1>3, <1>5
    <3>2. FirstOf(q, i - 1) = FirstOf(proposals, i - 1)
      BY <1>3, <3>1, FirstOfFirst
    <3> QED
      BY <1>2, <1>5, <1>6, <3>1, <3>2
  <2>2. G!IsGreedy(prompt, emitted)
    BY DEF OutputInv
  <2> HIDE DEF q
  <2>3. G!IsGreedy(prompt, emitted \o q)
    BY <1>3, <1>5, <2>1, <2>2, GreedyMore
  <2> QED
    BY <1>1, <2>3
<1> HIDE DEF q, a
<1>9. /\ emitted' \in Seq(Tokens) /\ Len(emitted') = Len(emitted) + a
      /\ \A i \in 1 .. Len(emitted) : emitted'[i] = emitted[i]
      /\ \A i \in 1 .. a : emitted'[Len(emitted) + i] = q[i]
      /\ FirstOf(emitted', Len(emitted)) = emitted
      /\ (a = 0 => emitted' = emitted)
  <2>1. /\ emitted \o q \in Seq(Tokens)
        /\ Len(emitted \o q) = Len(emitted) + Len(q)
        /\ \A i \in 1 .. Len(emitted) : (emitted \o q)[i] = emitted[i]
        /\ \A i \in 1 .. Len(q) : (emitted \o q)[Len(emitted) + i] = q[i]
    <3>1. emitted \in Seq(Tokens) /\ q \in Seq(Tokens)
      BY <1>3, <1>5
    <3> QED
      BY <3>1, ConcatProps
  <2>2. FirstOf(emitted \o q, Len(emitted)) = emitted
    <3>1. Len(emitted) \in 0 .. Len(emitted)
      BY <1>3
    <3>2. FirstOf(emitted \o q, Len(emitted)) = FirstOf(emitted, Len(emitted))
      BY <1>3, <1>5, <3>1, FirstOfLeft
    <3> QED
      BY <1>3, <3>2, FirstAll
  <2>3. a = 0 => emitted \o q = emitted
    BY <1>3, <1>5, EmptySeq, ConcatEmptySeq
  <2> QED
    BY <1>1, <1>5, <2>1, <2>2, <2>3
<1>10. Ended(emitted') <=> Ended(emitted)'
  BY <1>1 DEF Ended
<1>11. \/ /\ a = 0 /\ pc' = "top" /\ given' = emitted' /\ late' = 0
          /\ ~ Ended(emitted)'
       \/ /\ a # 0 /\ Ended(emitted)' /\ pc' = "leave"
          /\ given' = emitted /\ late' = 0
       \/ /\ a # 0 /\ ~ Ended(emitted)' /\ pc' = "chunk"
          /\ given' = emitted' /\ late' \in {0, 1} /\ (late' = 1 => cancel)
  <2>1. CASE a = 0
    BY <1>1, <1>3, <1>9, <1>10, <2>1 DEF Accept, a
  <2>2. CASE a # 0 /\ Ended(emitted')
    BY <1>3, <1>10, <2>2 DEF Accept, a
  <2>3. CASE a # 0 /\ ~ Ended(emitted')
    <3>1. pc' = "chunk" /\ Give(q)
      BY <2>3 DEF Accept, a, q
    <3> QED
      BY <1>1, <1>3, <1>10, <2>3, <3>1 DEF Give
  <2> QED
    BY <2>1, <2>2, <2>3
<1>12. TypeOK'
  <2>1. /\ pc' \in {"top", "leave", "chunk"} /\ given' \in Seq(Tokens)
        /\ late' \in Nat
    BY <1>3, <1>9, <1>11
  <2>2. proposals' \in Seq(Tokens) /\ verdict' \in Seq(Tokens)
    BY <1>1
  <2> QED
    BY <1>1, <1>4, <1>7, <1>9, <2>1, <2>2 DEF TypeOK, Running, Suspended
<1>13. ControlInv'
  <2>1. ProcessInv'
    BY <1>1, <1>4 DEF ProcessInv
  <2>2. pc' \in {"top", "leave", "chunk"}
    BY <1>11
  <2> QED
    BY <1>1, <2>1, <2>2 DEF ControlInv, CloseInv, RequestInv, LeaseInv,
       WindowInv, Decoding, Known, Unknown, Fresh
<1>14. OutputInv'
  <2>1. Len(emitted') <= limit'
    BY <1>1, <1>2, <1>3, <1>9 DEF a
  <2>2. G!IsGreedy(prompt, emitted)'
    BY <1>1, <1>8 DEF G!IsGreedy
  <2>3. ASSUME NEW i \in 1 .. Len(emitted') - 1
        PROVE  emitted'[i] \notin Eog
    <3>1. CASE i <= Len(emitted)
      <4>1. i \in 1 .. Len(emitted) /\ emitted'[i] = emitted[i]
        BY <1>3, <1>9, <3>1
      <4>2. CASE i = Len(emitted)
        BY <1>3, <4>1, <4>2, EmptySeq DEF Ended
      <4>3. CASE i # Len(emitted)
        BY <1>3, <4>1, <4>3 DEF OutputInv
      <4> QED
        BY <4>2, <4>3
    <3>2. CASE ~ (i <= Len(emitted))
      <4> DEFINE j == i - Len(emitted)
      <4>1. j \in 1 .. a /\ j \in 1 .. a - 1 /\ i = Len(emitted) + j
        BY <1>2, <1>3, <1>9, <3>2
      <4> HIDE DEF j
      <4>2. emitted'[i] = proposals[j]
        BY <1>5, <1>9, <4>1
      <4> QED
        BY <1>2, <4>1, <4>2
    <3> QED
      BY <3>1, <3>2
  <2>4. pc' = "leave" => /\ Len(given') < Len(emitted')
                         /\ given' = FirstOf(emitted', Len(given'))
    BY <1>2, <1>3, <1>9, <1>11
  <2> QED
    BY <1>11, <2>1, <2>2, <2>3, <2>4 DEF OutputInv, Decoding, Known, Unknown
<1>15. LateInv'
  BY <1>1, <1>11 DEF LateInv
<1>16. TextInv'
  <2>1. FirstOf(emitted', Len(emitted') - 0) = emitted'
    BY <1>9, FirstAll
  <2> QED
    BY <1>1, <1>4, <1>7, <1>11, <2>1 DEF TextInv, Decoding, Known, Unknown
<1>17. TargetInv' /\ ProposalsInv' /\ VerdictInv'
  BY <1>1, <1>4, <1>11 DEF TargetInv, ProposalsInv, VerdictInv, Fresh, Known
<1> QED
  BY <1>12, <1>13, <1>14, <1>15, <1>16, <1>17 DEF ControlInv

-----------------------------------------------------------------------------
(* The theorems.                                                           *)

LEMMA StepInv == ASSUME IInv, [Next]_vars PROVE IInv'
<1>1. CASE Generate
  BY <1>1, GenerateStep
<1>2. CASE Pull
  BY <1>2, PullStep
<1>3. CASE CloseStream
  BY <1>3, CloseStreamStep
<1>4. CASE Cancel
  BY <1>4, CancelStep
<1>5. CASE Close
  BY <1>5, CloseStep
<1>6. CASE Prepare
  BY <1>6, PrepareStep
<1>7. CASE Enter
  BY <1>7, EnterStep
<1>8. CASE Top
  BY <1>8, TopStep
<1>9. CASE Draft
  BY <1>9, DraftStep
<1>10. CASE Join
  BY <1>10, JoinStep
<1>11. CASE Verify
  BY <1>11, VerifyStep
<1>12. CASE Accept
  BY <1>12, AcceptStep
<1>13. CASE Leave
  BY <1>13, LeaveStep
<1>14. CASE Whole
  BY <1>14, WholeStep
<1>15. CASE Reject
  BY <1>15, RejectStep
<1>16. CASE Fail
  BY <1>16, FailStep
<1>17. CASE Die
  BY <1>17, DieStep
<1>18. CASE UNCHANGED vars
  BY <1>18, ClosedStep
<1> QED
  BY <1>1, <1>2, <1>3, <1>4, <1>5, <1>6, <1>7, <1>8, <1>9, <1>10, <1>11,
     <1>12, <1>13, <1>14, <1>15, <1>16, <1>17, <1>18 DEF Next, Closed

\* The inductive invariant holds.
THEOREM AssistantInvariant == Spec => []IInv
<1>1. Init => IInv
  BY InitInv
<1>2. IInv /\ [Next]_vars => IInv'
  BY StepInv
<1> QED
  BY <1>1, <1>2, PTL DEF Spec

\* Every variable of a request, its worker and its helper keeps its type.
THEOREM AssistantTypes == Spec => []TypeOK
<1>1. IInv => TypeOK
  BY DEF IInv
<1> QED
  BY <1>1, AssistantInvariant, PTL

\* The drafter's keys and values and the target's memory hold the same rows,
\* those of the prompt and of what was accepted (SharedState, through prefill,
\* verification and rollback).
THEOREM RowsShared == Spec => []SharedIsTarget
<1>1. IInv => SharedIsTarget
  <2> SUFFICES ASSUME IInv, process = "runs",
                 pc \in {"enter", "top", "bonus", "draft", "join", "verify",
                         "chunk"}
               PROVE  /\ shared = worker.mem
                      /\ Ids(shared) = prompt \o
                           FirstOf(emitted, Len(emitted)
                             - IF pc \in {"enter", "top", "chunk"}
                               THEN 0 ELSE 1)
    BY DEF SharedIsTarget
  <2>1. pc \in Decoding /\ pc # "accept"
    BY DEF Decoding, Known, Unknown
  <2>2. shared = worker.mem
    BY <2>1 DEF IInv, TargetInv
  <2> QED
    BY <2>1, <2>2 DEF IInv, TextInv, Known
<1> QED
  BY <1>1, AssistantInvariant, PTL

\* A verification fits the context, the rollback behind it stays behind the
\* prompt, and rows and tokens are accepted in equal number: neither
\* worker.cpp's checks nor the host's assertion can fail by the protocol.
THEOREM VerificationsSound == Spec => []VerificationSound
<1>1. IInv => VerificationSound
  <2> SUFFICES ASSUME IInv, process = "runs" PROVE
        /\ pc = "verify" => DecodeFits(worker, Batch)
        /\ pc = "accept" =>
             /\ RollbackAllowed(worker, Len(shared) + Keep)
             /\ Len(shared) + Keep = Len(prompt) + Len(emitted) + Accepted
    BY DEF VerificationSound
  <2>1. ASSUME pc = "verify"
        PROVE  DecodeFits(worker, Batch)
    <3>1. worker.mem = shared /\ Len(proposals) <= limit - Len(emitted)
      BY <2>1 DEF IInv, TargetInv, ProposalsInv, Decoding, Unknown
    <3>2. /\ Len(shared) = Len(prompt) + Len(emitted) - 1
          /\ Len(prompt) \in Nat /\ Len(emitted) \in Nat
          /\ Len(prompt) + limit <= Context /\ Context \in Nat
      BY <2>1, SharedProps DEF Unknown
    <3>3. Len(Batch) = 1 + Len(proposals) /\ Len(proposals) \in Nat
      BY <2>1, BatchProps DEF Unknown
    <3>4. limit \in Nat
      BY <2>1, Below DEF Decoding, Unknown
    <3> QED
      BY <3>1, <3>2, <3>3, <3>4 DEF DecodeFits
  <2>2. ASSUME pc = "accept"
        PROVE  /\ RollbackAllowed(worker, Len(shared) + Keep)
               /\ Len(shared) + Keep = Len(prompt) + Len(emitted) + Accepted
    BY <2>2, KeptRowsProps
  <2> QED
    BY <2>1, <2>2
<1> QED
  BY <1>1, AssistantInvariant, PTL

\* Between requests, and when the last chunk is given, the NPU is free; no
\* window of the helper is open but while drafting; a closed assistant has
\* neither worker nor helper.
THEOREM NpuReturned == Spec => []IdleReturned
<1>1. IInv => IdleReturned
  BY DEF IInv, IdleReturned, LeaseInv, WindowInv, CloseInv, Decoding, Known,
         Unknown
<1> QED
  BY <1>1, AssistantInvariant, PTL

\* A request that is cancelled gives at most one chunk more.
THEOREM CancelIsPrompt == Spec => []CancelPrompt
<1>1. IInv => CancelPrompt
  BY DEF IInv, TypeOK, CancelPrompt, LateInv
<1> QED
  BY <1>1, AssistantInvariant, PTL

-----------------------------------------------------------------------------
(* The greedy stream.                                                      *)

\* What the consumer sees is untouched.
LEMMA Stutter ==
  ASSUME UNCHANGED <<prompt, limit, given>>, (pc = "idle") <=> (pc' = "idle")
  PROVE  UNCHANGED G!vars
BY DEF G!vars, Finish

\* The end of a request, by itself or from outside.
LEMMA OverMaps ==
  ASSUME IInv, Over
  PROVE  G!Stop \/ UNCHANGED G!vars
<1>1. CASE pc = "idle"
  <2>1. prompt = <<>> /\ limit = 0 /\ given = <<>>
    BY <1>1 DEF IInv, RequestInv, Fresh
  <2> QED
    BY <1>1, <2>1, Stutter DEF Over
<1>2. CASE pc # "idle"
  BY <1>2 DEF Over, G!Stop, Finish
<1> QED
  BY <1>1, <1>2

\* A chunk.
LEMMA EmitMaps ==
  ASSUME IInv, IInv', UNCHANGED <<prompt, limit>>,
         pc # "idle", pc' # "idle",
         Finish = "no", given' = emitted', given' # given,
         given = FirstOf(given', Len(given)), Len(given) <= Len(given')
  PROVE  G!Emit
<1>1. /\ given \in Seq(Tokens) /\ given' \in Seq(Tokens)
      /\ Len(given) \in Nat /\ given' # <<>>
  <2>1. given \in Seq(Tokens) /\ given' \in Seq(Tokens)
    BY DEF IInv, TypeOK
  <2>2. given' # <<>>
    BY <2>1, EmptySeq
  <2> QED
    BY <2>1, <2>2
<1>2. /\ G!IsGreedy(prompt, given') /\ Len(given') <= limit
      /\ \A i \in 1 .. Len(given') - 1 : given'[i] \notin Eog
  BY DEF IInv, OutputInv, G!IsGreedy
<1>3. G!IsPrefix(given, given')
  BY <1>1, SubSeqFull DEF G!IsPrefix, FirstOf
<1>4. Finish' = G!Ending(given', limit)
  BY <1>1 DEF Finish, G!Ending
<1>5. (pc # "idle")' = (pc # "idle")
  OBVIOUS
<1> QED
  BY <1>2, <1>3, <1>4, <1>5 DEF G!Emit

\* The first token of a round is a chunk, unless it is the last of all.
LEMMA TopMaps ==
  ASSUME IInv, IInv', Top
  PROVE  G!Emit \/ UNCHANGED G!vars
<1>1. /\ pc = "top" /\ pc' \in {"leave", "bonus"}
      /\ UNCHANGED <<prompt, limit>>
  BY DEF Top, input
<1>2. CASE pc' = "leave"
  <2>1. given' = given
    BY <1>2 DEF Top, output
  <2> QED
    BY <1>1, <2>1, Stutter
<1>3. CASE pc' = "bonus"
  <2>1. /\ emitted' = Append(emitted, pending) /\ given' = emitted'
        /\ given = emitted /\ ~ Ended(given) /\ Len(given) < limit
        /\ pending \in Tokens /\ given \in Seq(Tokens)
    BY <1>1, <1>3, ChoiceType, Below
    DEF Top, IInv, TypeOK, OutputInv, Decoding, Known, Unknown
  <2>2. given' = Append(given, pending) /\ Len(given') = Len(given) + 1
        /\ \A i \in 1 .. Len(given) : given'[i] = given[i]
    BY <2>1, AppendProperties
  <2>3. given = FirstOf(given', Len(given))
    <3>1. given' \in Seq(Tokens) /\ Len(given) \in 0 .. Len(given')
      BY <2>1, <2>2
    <3>2. /\ FirstOf(given', Len(given)) \in Seq(Tokens)
          /\ Len(FirstOf(given', Len(given))) = Len(given)
          /\ \A i \in 1 .. Len(given) :
               FirstOf(given', Len(given))[i] = given'[i]
      BY <3>1, FirstProps
    <3> QED
      BY <2>1, <2>2, <3>2, SeqEqual
  <2>4. Finish = "no" /\ given' # given /\ Len(given) <= Len(given')
    BY <2>1, <2>2 DEF Finish, Ended
  <2> QED
    BY <1>1, <1>3, <2>1, <2>3, <2>4, EmitMaps
<1> QED
  BY <1>1, <1>2, <1>3

\* So are the drafts that were accepted.
LEMMA AcceptMaps ==
  ASSUME IInv, IInv', Accept
  PROVE  G!Emit \/ UNCHANGED G!vars
<1> DEFINE q == FirstOf(proposals, Accepted)
<1>1. /\ pc = "accept" /\ pc' \in {"top", "leave", "chunk"}
      /\ UNCHANGED <<prompt, limit>> /\ emitted' = emitted \o q
  BY DEF Accept, input
<1>2. CASE pc' # "chunk"
  <2>1. given' = given
    BY <1>1, <1>2 DEF Accept
  <2> QED
    BY <1>1, <2>1, Stutter
<1>3. CASE pc' = "chunk"
  <2>1. Accepted # 0 /\ Accepted \in 0 .. Len(proposals)
    BY <1>1, <1>3, AcceptedProps DEF Accept
  <2>2. /\ proposals \in Seq(Tokens) /\ given = emitted /\ given' = emitted'
        /\ ~ Ended(given) /\ Len(given) < limit /\ given \in Seq(Tokens)
        /\ Len(given) \in Nat
    BY <1>1, <1>3, Below
    DEF IInv, TypeOK, OutputInv, Decoding, Known, Unknown
  <2>3. q \in Seq(Tokens) /\ Len(q) = Accepted
    BY <2>1, <2>2, FirstProps
  <2> HIDE DEF q
  <2>4. given' = given \o q /\ Len(given') = Len(given) + Accepted
    BY <1>1, <2>2, <2>3, ConcatProps
  <2>5. given = FirstOf(given', Len(given))
    <3>1. Len(given) \in 0 .. Len(given)
      BY <2>2
    <3>2. FirstOf(given \o q, Len(given)) = FirstOf(given, Len(given))
      BY <2>2, <2>3, <3>1, FirstOfLeft
    <3> QED
      BY <2>2, <2>4, <3>2, FirstAll
  <2>6. Finish = "no" /\ Len(given) <= Len(given') /\ given' # given
    BY <2>1, <2>2, <2>4 DEF Finish, Ended
  <2> QED
    BY <1>1, <1>3, <2>2, <2>5, <2>6, EmitMaps
<1> QED
  BY <1>2, <1>3

\* And so is what a complete request had not been given.
LEMMA WholeMaps ==
  ASSUME IInv, IInv', Whole
  PROVE  G!Emit
<1>1. /\ pc = "whole" /\ pc' = "final" /\ UNCHANGED <<prompt, limit>>
      /\ emitted' = emitted /\ given' = emitted'
      /\ Len(given) < Len(emitted) /\ given = FirstOf(emitted, Len(given))
      /\ Len(emitted) <= limit
      /\ \A i \in 1 .. Len(emitted) - 1 : emitted[i] \notin Eog
  BY DEF Whole, input, IInv, OutputInv
<1>2. given \in Seq(Tokens) /\ emitted \in Seq(Tokens)
      /\ limit \in Nat
  BY <1>1, AssistantAssumption
  DEF IInv, TypeOK, RequestInv, AssistantAssumption
<1>3. Finish = "no"
  <2>1. given # <<>> => given[Len(given)] \notin Eog
    <3>1. CASE given # <<>>
      <4>1. Len(given) \in 1 .. Len(emitted) - 1
            /\ Len(given) \in 1 .. Len(given)
            /\ Len(given) \in 0 .. Len(emitted)
        BY <1>1, <1>2, <3>1, EmptySeq
      <4>2. FirstOf(emitted, Len(given))[Len(given)] = emitted[Len(given)]
        BY <1>2, <4>1, FirstProps
      <4> QED
        BY <1>1, <4>1, <4>2
    <3> QED
      BY <3>1
  <2>2. Len(given) # limit
    BY <1>1, <1>2
  <2> QED
    BY <2>1, <2>2 DEF Finish
<1>4. given' # given /\ Len(given) <= Len(given')
  BY <1>1, <1>2
<1> QED
  BY <1>1, <1>3, <1>4, EmitMaps

\* A step of the assistant is one of the greedy stream, or none.
LEMMA StepMaps ==
  ASSUME IInv, IInv', [Next]_vars
  PROVE  [G!Next]_(G!vars)
<1>1. CASE Generate
  <2>1. given = <<>> /\ given' = given
    BY <1>1 DEF Generate, output, IInv, RequestInv, Fresh
  <2>2. Finish = "no" /\ Finish' = "no"
    <3>1. limit' \in Nat \ {0}
      BY <1>1, AssistantAssumption DEF Generate, AssistantAssumption
    <3> QED
      BY <2>1, <3>1 DEF Finish
  <2>3. G!Open
    BY <1>1, <2>1, <2>2 DEF Generate, G!Open
  <2> QED
    BY <2>3 DEF G!Next
<1>2. CASE \/ CloseStream \/ Close \/ Reject \/ Fail \/ (Leave /\ Over)
  <2>1. Over
    BY <1>2 DEF CloseStream, Close, Reject, Fail
  <2> QED
    BY <2>1, OverMaps DEF G!Next
<1>3. CASE Top
  BY <1>3, TopMaps DEF G!Next
<1>4. CASE Accept
  BY <1>4, AcceptMaps DEF G!Next
<1>5. CASE Whole
  BY <1>5, WholeMaps DEF G!Next
<1>6. CASE \/ Pull \/ Cancel \/ Prepare \/ Enter \/ Draft \/ Join \/ Verify
           \/ (Leave /\ ~ Over) \/ Die \/ UNCHANGED vars
  <2>1. /\ UNCHANGED <<prompt, limit, given>>
        /\ (pc = "idle") <=> (pc' = "idle")
    BY <1>6 DEF Pull, Resumed, Suspended, Cancel, Prepare, Enter, Draft,
       Join, Verify, Leave, Die, vars, life, input, output, round
  <2> QED
    BY <2>1, Stutter
<1> QED
  BY <1>1, <1>2, <1>3, <1>4, <1>5, <1>6 DEF Next, Closed

\* The assistant implements the greedy stream: drafts, verifications, caches,
\* cancellations, closings and the worker's deaths never show in the tokens
\* the consumer is given, nor in how the stream says it ended.
THEOREM StreamIsGreedy == Spec => ImplementsGreedy
<1>1. Init => G!Init
  BY DEF Init, G!Init, Finish
<1>2. IInv /\ IInv' /\ [Next]_vars => [G!Next]_(G!vars)
  BY StepMaps
<1> QED
  BY <1>1, <1>2, AssistantInvariant, PTL
  DEF Spec, ImplementsGreedy, G!Spec
=============================================================================
