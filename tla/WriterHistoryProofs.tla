------------------------- MODULE WriterHistoryProofs -------------------------
(***************************************************************************)
(* Proofs about the writer history cache and its writer, for any keys,     *)
(* readers, depths and watermarks: the contents of samples are freed once  *)
(* and not too early, the counts are right, and no wake-up is lost.        *)
(* The second part is about what the cache must keep, and may not keep.    *)
(***************************************************************************)
EXTENDS WriterHistory, FiniteSetTheorems, WellFoundedInduction, TLAPS

\* Min and Max of the library are CHOOSE expressions: they exist.
LEMMA LeastExists ==
    ASSUME NEW T, T \subseteq Nat, T # {}
    PROVE  \E x \in T : \A y \in T : x <= y
<1>1. PICK x \in T : \A y \in T : ~(<<y, x>> \in OpToRel(<, Nat))
    BY NatLessThanWellFounded, WFMin, Zenon
<1>2. \A y \in T : ~(y < x)
    BY <1>1 DEF OpToRel
<1> QED BY <1>2

LEMMA MinIsLeast ==
    ASSUME NEW T, T \subseteq Nat, T # {}
    PROVE  Min(T) \in T /\ \A y \in T : Min(T) <= y
BY LeastExists, Zenon DEF Min

LEMMA MaxIsGreatest ==
    ASSUME NEW n \in Nat, NEW T, T \subseteq 0..n, T # {}
    PROVE  Max(T) \in T /\ \A y \in T : Max(T) >= y
<1> DEFINE U == {n - y : y \in T}
<1>1. U \subseteq Nat /\ U # {}
  <2>1. \A y \in T : n - y \in Nat
    OBVIOUS
  <2> QED BY <2>1
<1>2. PICK u \in U : \A v \in U : u <= v
    BY <1>1, LeastExists, Zenon
<1>3. PICK x \in T : u = n - x
    OBVIOUS
<1>4. \A y \in T : x >= y
  <2> TAKE y \in T
  <2>1. u <= n - y
    BY <1>2
  <2>2. x \in 0..n /\ y \in 0..n
    OBVIOUS
  <2> QED BY <1>3, <2>1, <2>2
<1> QED BY <1>4, Zenon DEF Max

LEMMA ModRange ==
    ASSUME NEW a \in Int, NEW d \in Nat, d > 0
    PROVE  a % d \in 0..(d - 1)
OBVIOUS

LEMMA ModShift ==
    ASSUME NEW d \in Nat, NEW a \in 0..(d - 1), NEW j \in 1..(d - 1)
    PROVE  (a + j) % d # a
OBVIOUS

\* What a node is and what the cache consists of; n bounds the numbers.
Node == [key : Keys, unacked : BOOLEAN, borrowed : BOOLEAN]
Shape(w, n) ==
    /\ DOMAIN w = {"wrinfo", "node", "idx", "max_drop_seq", "maxseq_node", "unacked_bytes"}
    /\ w.node \in [DOMAIN w.node -> Node]
    /\ DOMAIN w.node \subseteq 1..n

\* v holds some of w's samples and has changed neither whose they are nor
\* who has borrowed them: what every operation but an insertion does.
Part(v, w) ==
    /\ v.wrinfo = w.wrinfo
    /\ DOMAIN v.node \subseteq DOMAIN w.node
    /\ \A s \in DOMAIN v.node : v.node[s].borrowed = w.node[s].borrowed /\ v.node[s].key = w.node[s].key

\* The operators of History, field by field.
LEMMA DeleteIs ==
    ASSUME NEW w, NEW n, Shape(w, n), NEW seqs
    PROVE  LET d == whc_delete(w, seqs) IN
           /\ DOMAIN d = DOMAIN w
           /\ d.wrinfo = w.wrinfo /\ d.max_drop_seq = w.max_drop_seq /\ d.maxseq_node = w.maxseq_node
           /\ d.node = [s \in DOMAIN w.node \ seqs |-> w.node[s]]
           /\ d.unacked_bytes = w.unacked_bytes - Cardinality({s \in seqs : w.node[s].unacked})
BY DEF whc_delete, Restrict, Shape

LEMMA DeleteIdx ==
    ASSUME NEW w, NEW n, Shape(w, n), NEW seqs
    PROVE  whc_delete(w, seqs).idx = [k \in DOMAIN w.idx |-> delete_from_idx(w.idx[k], seqs)]
BY DEF whc_delete, Restrict, Shape

LEMMA DeleteShape ==
    ASSUME NEW w, NEW n, Shape(w, n), NEW seqs
    PROVE  LET d == whc_delete(w, seqs) IN
           /\ Shape(d, n) /\ Part(d, w)
           /\ DOMAIN d.node = DOMAIN w.node \ seqs
           /\ \A s \in DOMAIN d.node : d.node[s] = w.node[s]
<1> DEFINE d == whc_delete(w, seqs)
<1>1. /\ DOMAIN d = DOMAIN w
      /\ d.wrinfo = w.wrinfo
      /\ d.node = [s \in DOMAIN w.node \ seqs |-> w.node[s]]
    BY DeleteIs
<1> HIDE DEF d
<1>2. /\ DOMAIN d.node = DOMAIN w.node \ seqs
      /\ \A s \in DOMAIN d.node : d.node[s] = w.node[s]
    BY <1>1
<1>3. d.node \in [DOMAIN d.node -> Node]
    BY <1>1 DEF Shape
<1>4. Shape(d, n)
    BY <1>1, <1>2, <1>3 DEF Shape
<1>5. Part(d, w)
    BY <1>1, <1>2 DEF Part
<1> QED BY <1>2, <1>4, <1>5 DEF d

LEMMA PartTransitive ==
    ASSUME NEW u, NEW v, NEW w, Part(u, v), Part(v, w)
    PROVE  Part(u, w)
BY DEF Part

LEMMA PartReflexive == \A w : Part(w, w)
BY DEF Part

LEMMA ClearIs ==
    ASSUME NEW w, NEW n, Shape(w, n), NEW seqs
    PROVE  LET d == ClearUnacked(w, seqs) IN
           /\ DOMAIN d = DOMAIN w
           /\ d.wrinfo = w.wrinfo /\ d.max_drop_seq = w.max_drop_seq /\ d.maxseq_node = w.maxseq_node
           /\ d.idx = w.idx
           /\ DOMAIN d.node = DOMAIN w.node
           /\ d.node = [s \in DOMAIN w.node |-> IF s \in seqs THEN [w.node[s] EXCEPT !.unacked = FALSE] ELSE w.node[s]]
           /\ d.unacked_bytes = w.unacked_bytes - Cardinality({s \in seqs : w.node[s].unacked})
BY DEF ClearUnacked, Shape

LEMMA ClearShape ==
    ASSUME NEW w, NEW n, Shape(w, n), NEW seqs
    PROVE  LET d == ClearUnacked(w, seqs) IN
           /\ Shape(d, n) /\ Part(d, w)
           /\ \A s \in DOMAIN d.node : d.node[s].unacked = (s \notin seqs /\ w.node[s].unacked)
<1> DEFINE d == ClearUnacked(w, seqs)
<1>1. /\ DOMAIN d = DOMAIN w
      /\ d.wrinfo = w.wrinfo
      /\ DOMAIN d.node = DOMAIN w.node
      /\ d.node = [s \in DOMAIN w.node |-> IF s \in seqs THEN [w.node[s] EXCEPT !.unacked = FALSE] ELSE w.node[s]]
    BY DEF ClearUnacked, Shape
<1> HIDE DEF d
<1>2. \A s \in DOMAIN w.node :
         /\ d.node[s] \in Node
         /\ d.node[s].borrowed = w.node[s].borrowed /\ d.node[s].key = w.node[s].key
         /\ d.node[s].unacked = (s \notin seqs /\ w.node[s].unacked)
  <2> TAKE s \in DOMAIN w.node
  <2>1. w.node[s] \in Node
    BY DEF Shape
  <2>2. CASE s \in seqs
    BY <1>1, <2>1, <2>2 DEF Node
  <2>3. CASE s \notin seqs
    BY <1>1, <2>1, <2>3 DEF Node
  <2> QED BY <2>2, <2>3
<1>3. Shape(d, n)
    BY <1>1, <1>2 DEF Shape
<1>4. Part(d, w)
    BY <1>1, <1>2 DEF Part
<1> QED BY <1>1, <1>2, <1>3, <1>4 DEF d

LEMMA MaxSeqShape ==
    ASSUME NEW w, NEW n, Shape(w, n)
    PROVE  LET d == WithMaxSeq(w) IN
           /\ Shape(d, n) /\ Part(d, w)
           /\ d.node = w.node /\ d.idx = w.idx
           /\ d.max_drop_seq = w.max_drop_seq
           /\ d.maxseq_node = FindMaxSeq(w.node)
           /\ d.unacked_bytes = w.unacked_bytes
BY DEF WithMaxSeq, Shape, Part

LEMMA DropSeqShape ==
    ASSUME NEW w, NEW n, Shape(w, n), NEW m
    PROVE  LET d == [w EXCEPT !.max_drop_seq = m] IN
           /\ Shape(d, n) /\ Part(d, w)
           /\ d.node = w.node /\ d.idx = w.idx
           /\ d.max_drop_seq = m
           /\ d.maxseq_node = w.maxseq_node
           /\ d.unacked_bytes = w.unacked_bytes
BY DEF Shape, Part

LEMMA IdxShape ==
    ASSUME NEW w, NEW n, Shape(w, n), NEW m
    PROVE  LET d == [w EXCEPT !.idx = m] IN
           /\ Shape(d, n) /\ Part(d, w)
           /\ d.node = w.node /\ d.idx = m
           /\ d.max_drop_seq = w.max_drop_seq
           /\ d.maxseq_node = w.maxseq_node
           /\ d.unacked_bytes = w.unacked_bytes
BY DEF Shape, Part

LEMMA RemoveNoidxShape ==
    ASSUME NEW w, NEW n, Shape(w, n), NEW m
    PROVE  LET d == whc_remove_acked_messages_noidx(w, m) IN
           Shape(d, n) /\ Part(d, w)
<1> DEFINE first == OpenMin(w.node)
           last == IF m \in DOMAIN w.node THEN m ELSE w.maxseq_node
           rest == Restrict(w.node, DOMAIN w.node \ first..last)
           top == Max({w.max_drop_seq, m})
           cut == [w EXCEPT !.node = rest,
                            !.maxseq_node = IF last = @ THEN 0 ELSE @,
                            !.unacked_bytes = @ - (last - first + 1)]
           d == whc_remove_acked_messages_noidx(w, m)
<1>1. Shape(cut, n) /\ Part(cut, w)
  <2> HIDE DEF first, last
  <2> QED BY DEF Shape, Part, Restrict
<1>2. cut.max_drop_seq = w.max_drop_seq
  <2> HIDE DEF first, last, rest
  <2> QED BY DEF Shape
<1>3. d \in {[w EXCEPT !.max_drop_seq = top], [cut EXCEPT !.max_drop_seq = top]}
    BY <1>2, Zenon DEF whc_remove_acked_messages_noidx
<1> HIDE DEF first, last, rest, cut, d, top
<1>4. CASE d = [w EXCEPT !.max_drop_seq = top]
    BY <1>4, DropSeqShape DEF d
<1>5. CASE d = [cut EXCEPT !.max_drop_seq = top]
    BY <1>1, <1>5, DropSeqShape, PartTransitive DEF d
<1> QED BY <1>3, <1>4, <1>5

LEMMA RemoveFullShape ==
    ASSUME NEW w, NEW n, Shape(w, n), NEW m
    PROVE  LET d == whc_remove_acked_messages_full(w, m) IN
           Shape(d, n) /\ Part(d, w)
<1> DEFINE acked == {s \in DOMAIN w.node : w.max_drop_seq < s /\ s <= m}
           keep == {s \in acked : whcn_in_tlidx(w, s)}
           clear == ClearUnacked(w, keep)
           kept == whc_delete(clear, acked \ keep)
           prune == IF w.wrinfo.tldepth > 0 /\ w.wrinfo.idxdepth > w.wrinfo.tldepth
                    THEN UNION {BeyondTl(kept, w.node[s].key) : s \in keep} ELSE {}
           pruned == whc_delete(kept, prune)
           all == ClearUnacked(w, acked)
           res == WithMaxSeq(pruned)
           d == whc_remove_acked_messages_full(w, m)
<1>1. d \in {[all EXCEPT !.max_drop_seq = m], [res EXCEPT !.max_drop_seq = m]}
    BY Zenon DEF whc_remove_acked_messages_full
<1> HIDE DEF d, acked, keep, prune
<1>2. Shape(all, n) /\ Part(all, w) /\ Shape(clear, n) /\ Part(clear, w)
    BY ClearShape, Zenon
<1> HIDE DEF all, clear
<1>3. Shape(kept, n) /\ Part(kept, clear)
    BY <1>2, DeleteShape, Zenon
<1> HIDE DEF kept
<1>4. Shape(pruned, n) /\ Part(pruned, kept)
    BY <1>3, DeleteShape, Zenon
<1> HIDE DEF pruned
<1>5. Shape(res, n) /\ Part(res, pruned)
    BY <1>4, MaxSeqShape, Zenon
<1> HIDE DEF res
<1>6. Part(res, w)
    BY <1>2, <1>3, <1>4, <1>5, PartTransitive, Zenon
<1>7. \A v \in {all, res} : Shape([v EXCEPT !.max_drop_seq = m], n) /\ Part([v EXCEPT !.max_drop_seq = m], v)
    BY <1>2, <1>5, DropSeqShape, Zenon
<1>8. PICK v \in {all, res} : d = [v EXCEPT !.max_drop_seq = m]
    BY <1>1, Zenon
<1>9. Part(v, w)
    BY <1>2, <1>6
<1>10. Shape(d, n) /\ Part(d, v)
    BY <1>7, <1>8, Zenon
<1>11. Part(d, w)
    BY <1>9, <1>10, PartTransitive, Zenon
<1> QED BY <1>10, <1>11 DEF d

LEMMA RemoveShape ==
    ASSUME NEW w, NEW n, Shape(w, n), NEW m
    PROVE  LET d == whc_remove_acked_messages(w, m) IN
           Shape(d, n) /\ Part(d, w)
BY RemoveFullShape, RemoveNoidxShape, Zenon DEF whc_remove_acked_messages

LEMMA InsertSeqIs ==
    ASSUME NEW w, NEW n \in Nat, Shape(w, n), NEW m, NEW key \in Keys, NEW seq, seq = n + 1
    PROVE  LET d == whc_insert_seq(w, m, seq, key) IN
           /\ Shape(d, seq)
           /\ d.wrinfo = w.wrinfo /\ d.idx = w.idx /\ d.max_drop_seq = w.max_drop_seq
           /\ d.maxseq_node = seq
           /\ d.unacked_bytes = w.unacked_bytes + IF seq > m THEN 1 ELSE 0
           /\ DOMAIN d.node = DOMAIN w.node \cup {seq}
           /\ \A s \in DOMAIN w.node : d.node[s] = w.node[s]
           /\ d.node[seq].key = key /\ ~d.node[seq].borrowed
           /\ d.node[seq].unacked <=> seq > m
<1> DEFINE d == whc_insert_seq(w, m, seq, key)
           new == [key |-> key, unacked |-> seq > m, borrowed |-> FALSE]
<1>1. /\ DOMAIN d = DOMAIN w
      /\ d.wrinfo = w.wrinfo /\ d.idx = w.idx /\ d.max_drop_seq = w.max_drop_seq
      /\ d.maxseq_node = seq
      /\ d.unacked_bytes = w.unacked_bytes + IF seq > m THEN 1 ELSE 0
      /\ d.node = Bind(w.node, seq, new)
    BY DEF whc_insert_seq, Shape
<1>2. seq \notin DOMAIN w.node
    BY DEF Shape
<1>3. /\ new \in Node
      /\ new.key = key /\ ~new.borrowed
      /\ new.unacked <=> seq > m
  <2>1. new \in Node
    BY DEF Node
  <2>2. new.key = key /\ new.borrowed = FALSE /\ new.unacked = (seq > m)
    BY Zenon
  <2> QED BY <2>1, <2>2, Zenon
<1> HIDE DEF d, new
<1>4. /\ DOMAIN d.node = DOMAIN w.node \cup {seq}
      /\ \A s \in DOMAIN w.node : d.node[s] = w.node[s]
      /\ d.node[seq] = new
    BY <1>1, <1>2 DEF Bind
<1>5. d.node \in [DOMAIN d.node -> Node]
    BY <1>1, <1>3, <1>4 DEF Bind, Shape
<1>6. Shape(d, seq)
    BY <1>1, <1>4, <1>5 DEF Shape
<1> QED BY <1>1, <1>3, <1>4, <1>6, Zenon DEF d

LEMMA AddShape ==
    ASSUME NEW w, NEW n, Shape(w, n), NEW m, NEW key, NEW seq
    PROVE  LET d == AddToInstance(w, m, seq, key) IN
           Shape(d, n) /\ Part(d, w)
<1> DEFINE info == w.wrinfo
           head == (w.idx[key].headidx + 1) % info.idxdepth
           oldn == w.idx[key].hist[head]
           added == [w EXCEPT !.idx[key] = [headidx |-> head, hist |-> [@.hist EXCEPT ![head] = seq]]]
           overwrite == /\ oldn # 0
                        /\ info.hdepth > 0 \/ oldn <= m
                        /\ ~info.is_transient_local \/ info.tldepth > 0
           whc1 == IF overwrite THEN whc_delete(added, {oldn}) ELSE added
           tail == whc1.idx[key].hist[(head + info.idxdepth - info.tldepth) % info.idxdepth]
           d == AddToInstance(w, m, seq, key)
<1>1. d \in {whc1, whc_delete(whc1, {tail})}
    BY Zenon DEF AddToInstance
<1> HIDE DEF d, tail
<1>2. Shape(added, n) /\ Part(added, w)
  <2> HIDE DEF head
  <2> QED BY DEF Shape, Part
<1> HIDE DEF added, overwrite, oldn
<1>3. Shape(whc1, n) /\ Part(whc1, w)
    BY <1>2, DeleteShape, PartTransitive
<1> HIDE DEF whc1
<1>4. CASE d = whc1
    BY <1>3, <1>4 DEF d
<1>5. CASE d = whc_delete(whc1, {tail})
    BY <1>3, <1>5, DeleteShape, PartTransitive DEF d
<1> QED BY <1>1, <1>4, <1>5

LEMMA InsertShape ==
    ASSUME NEW w, NEW n \in Nat, Shape(w, n), NEW m, NEW key \in Keys, NEW seq, seq = n + 1,
           NEW unregister
    PROVE  LET d == whc_insert(w, m, seq, key, unregister) IN
           Shape(d, seq) /\ Part(d, whc_insert_seq(w, m, seq, key))
<1> DEFINE new == whc_insert_seq(w, m, seq, key)
           depth == w.wrinfo.idxdepth
           entry == [headidx |-> 0, hist |-> [p \in 0..(depth - 1) |-> IF p = 0 THEN seq ELSE 0]]
           bare == [new EXCEPT !.idx = Restrict(@, DOMAIN @ \ {key})]
           del == delete_one_instance_from_idx(new, m, key)
           d == whc_insert(w, m, seq, key, unregister)
<1>1. d \in {DropNew(del, m, seq), DropNew(new, m, seq), [new EXCEPT !.idx = Bind(new.idx, key, entry)],
             AddToInstance(new, m, seq, key), new}
    BY Zenon DEF whc_insert
<1>2. Shape(new, seq)
    BY InsertSeqIs
<1> HIDE DEF d, new, entry
<1>3. Shape(bare, seq) /\ Part(bare, new)
    BY <1>2, IdxShape
<1>4. PICK gone : del = whc_delete(bare, gone)
    BY DEF delete_one_instance_from_idx
<1> HIDE DEF bare, del
<1>5. Shape(del, seq) /\ Part(del, new)
    BY <1>3, <1>4, DeleteShape, PartTransitive
<1>6. \A v : Shape(v, seq) /\ Part(v, new) => Shape(DropNew(v, m, seq), seq) /\ Part(DropNew(v, m, seq), new)
  <2> SUFFICES ASSUME NEW v, Shape(v, seq), Part(v, new)
               PROVE  Shape(DropNew(v, m, seq), seq) /\ Part(DropNew(v, m, seq), new)
    OBVIOUS
  <2> DEFINE v1 == whc_delete(v, {seq})
             v2 == WithMaxSeq(v1)
  <2>1. Shape(v1, seq) /\ Part(v1, v)
    BY DeleteShape
  <2> HIDE DEF v1
  <2>2. Shape(v2, seq) /\ Part(v2, v1)
    BY <2>1, MaxSeqShape
  <2>3. Part(v2, new)
    BY <2>1, <2>2, PartTransitive
  <2>4. DropNew(v, m, seq) \in {v, v2}
    BY DEF DropNew, v1
  <2> HIDE DEF v2
  <2> QED BY <2>2, <2>3, <2>4
<1>7. Part(new, new)
    BY PartReflexive
<1>8. Shape(d, seq) /\ Part(d, new)
  <2>1. CASE d = DropNew(del, m, seq)
    BY <1>5, <1>6, <2>1
  <2>2. CASE d = DropNew(new, m, seq)
    BY <1>2, <1>6, <1>7, <2>2
  <2>3. CASE d = [new EXCEPT !.idx = Bind(new.idx, key, entry)]
    BY <1>2, IdxShape, <2>3
  <2>4. CASE d = AddToInstance(new, m, seq, key)
    BY <1>2, AddShape, <2>4
  <2>5. CASE d = new
    BY <1>2, <1>7, <2>5
  <2> QED BY <1>1, <2>1, <2>2, <2>3, <2>4, <2>5
<1> QED BY <1>8 DEF d, new
----------------------------------------------------------------------------
\* What whc_make_wrinfo makes.
Infos ==
    {i \in [is_transient_local : BOOLEAN, hdepth : Nat, tldepth : Nat, idxdepth : Nat] :
        /\ ~i.is_transient_local => i.tldepth = 0
        /\ i.hdepth <= i.idxdepth /\ i.tldepth <= i.idxdepth}

\* The types of the variables the arguments below read.
Types ==
    /\ written \in Seq(Samples)
    /\ Shape(whc, wrseq) /\ whc.wrinfo \in Infos
    /\ rn \in [Matched -> 0..wrseq]
    /\ lent \in 0..wrseq /\ waiter \in 0..wrseq

LEMMA InfosTyped ==
    ASSUME NEW c \in Settings
    PROVE  c.wrinfo \in Infos
<1>1. PICK tl \in BOOLEAN, h \in 0..MaxSeq, e \in 0..MaxSeq : c.wrinfo = whc_make_wrinfo(tl, h, e)
    BY HistoryAssumption
<1> DEFINE tld == IF tl THEN e ELSE 0
<1>2. MaxSeq \in Nat /\ h \in Nat /\ e \in Nat
    BY HistoryAssumption
<1>3. tld \in Nat
    BY <1>2
<1>4. Max({h, tld}) \in {h, tld} /\ h <= Max({h, tld}) /\ tld <= Max({h, tld})
  <2>1. tld \in 0..MaxSeq
    BY <1>2
  <2> HIDE DEF tld
  <2>2. {h, tld} \subseteq 0..MaxSeq
    BY <1>2, <2>1
  <2> QED BY <1>2, <2>2, MaxIsGreatest
<1>5. ~tl => tld = 0
    OBVIOUS
<1> HIDE DEF tld
<1>6. c.wrinfo = [is_transient_local |-> tl, hdepth |-> h, tldepth |-> tld, idxdepth |-> Max({h, tld})]
    BY <1>1 DEF whc_make_wrinfo, tld
<1> QED BY <1>2, <1>3, <1>4, <1>5, <1>6 DEF Infos

\* The least acknowledged number is one of a reader's, or all if there is none.
LEMMA AckedTo ==
    ASSUME NEW n \in Nat, NEW f, f \in [DOMAIN f -> 0..n], NEW top \in Nat, n <= top
    PROVE  /\ MaxDropSeq(f, top) \in 0..top
           /\ DOMAIN f = {} => MaxDropSeq(f, top) = top
           /\ \A r \in DOMAIN f : MaxDropSeq(f, top) <= f[r]
           /\ DOMAIN f # {} => \E r \in DOMAIN f : MaxDropSeq(f, top) = f[r]
<1> DEFINE T == {f[r] : r \in DOMAIN f}
<1>1. CASE DOMAIN f = {}
    BY <1>1 DEF MaxDropSeq
<1>2. CASE DOMAIN f # {}
  <2>1. T \subseteq 0..n /\ T \subseteq Nat /\ T # {}
    BY <1>2
  <2>2. Min(T) \in T /\ \A y \in T : Min(T) <= y
    BY <2>1, MinIsLeast
  <2>3. MaxDropSeq(f, top) = Min(T)
    BY <1>2 DEF MaxDropSeq
  <2>4. PICK r \in DOMAIN f : Min(T) = f[r]
    BY <2>2
  <2>5. f[r] \in 0..n
    OBVIOUS
  <2>6. MaxDropSeq(f, top) \in 0..top
    BY <2>3, <2>4, <2>5
  <2>7. \A q \in DOMAIN f : MaxDropSeq(f, top) <= f[q]
    BY <2>2, <2>3
  <2> QED BY <1>2, <2>3, <2>4, <2>6, <2>7
<1> QED BY <1>1, <1>2

LEMMA SamplesWritten ==
    ASSUME NEW s, s \in Seq(Samples), NEW w \in Samples
    PROVE  /\ Append(s, w) \in Seq(Samples)
           /\ Len(s) \in Nat
           /\ Len(Append(s, w)) = Len(s) + 1
OBVIOUS

LEMMA InsertTypes ==
    ASSUME Types, NEW w \in Samples, Insert(w)
    PROVE  /\ written' \in Seq(Samples) /\ wrseq \in Nat /\ wrseq' = wrseq + 1
           /\ Shape(whc', wrseq') /\ whc'.wrinfo = whc.wrinfo
<1>1. written' \in Seq(Samples) /\ wrseq \in Nat /\ wrseq' = wrseq + 1
    BY SamplesWritten DEF Insert, wrseq, Types
<1>2. w.key \in Keys
    BY DEF Samples
<1> DEFINE m == MaxDropSeq(rn, wrseq + 1)
           d == whc_insert(whc, m, wrseq + 1, w.key, w.kind = "unregister")
           new == whc_insert_seq(whc, m, wrseq + 1, w.key)
<1>3. Shape(whc, wrseq)
    BY DEF Types
<1> HIDE DEF m
<1>4. Shape(d, wrseq + 1) /\ Part(d, new)
    BY <1>1, <1>2, <1>3, InsertShape
<1>5. new.wrinfo = whc.wrinfo
    BY <1>3 DEF whc_insert_seq, Shape
<1> HIDE DEF new, d
<1>6. CASE whc' = whc
  <2>1. Shape(whc, wrseq + 1)
    BY <1>1, <1>3 DEF Shape
  <2> QED BY <1>1, <1>6, <2>1
<1>7. CASE whc' = d
    BY <1>1, <1>4, <1>5, <1>7 DEF Part
<1>8. whc' = whc \/ whc' = d
    BY DEF Insert, Store, d, m
<1> QED BY <1>1, <1>6, <1>7, <1>8

LEMMA RemoveTypes ==
    ASSUME Types, NEW f, remove_acked_messages(f)
    PROVE  Shape(whc', wrseq) /\ Part(whc', whc)
<1> DEFINE d == whc_remove_acked_messages(whc, MaxDropSeq(f, wrseq))
<1>1. whc' = d
    BY DEF remove_acked_messages, Store
<1>2. Shape(d, wrseq) /\ Part(d, whc)
    BY RemoveShape DEF Types
<1> QED BY <1>1, <1>2

LEMMA InitTypes == Init => Types
<1> SUFFICES ASSUME Init PROVE Types
    OBVIOUS
<1>1. PICK c \in Settings : lifespan = c.lifespan /\ whc = whc_new(c.wrinfo)
    BY DEF Init
<1>2. c.wrinfo \in Infos
    BY InfosTyped
<1>3. wrseq = 0 /\ written \in Seq(Samples)
    BY DEF Init, wrseq
<1>4. rn \in [Matched -> 0..wrseq] /\ lent \in 0..wrseq /\ waiter \in 0..wrseq
    BY <1>3 DEF Init, Matched
<1>5. Shape(whc, wrseq) /\ whc.wrinfo = c.wrinfo
    BY <1>1 DEF whc_new, Shape
<1> QED BY <1>2, <1>3, <1>4, <1>5 DEF Types

LEMMA LoanShape ==
    ASSUME NEW w, NEW n, Shape(w, n), NEW s \in DOMAIN w.node, NEW b \in BOOLEAN
    PROVE  LET d == [w EXCEPT !.node[s].borrowed = b] IN
           /\ Shape(d, n)
           /\ d.wrinfo = w.wrinfo /\ d.idx = w.idx /\ d.max_drop_seq = w.max_drop_seq
           /\ d.maxseq_node = w.maxseq_node /\ d.unacked_bytes = w.unacked_bytes
           /\ DOMAIN d.node = DOMAIN w.node
           /\ \A t \in DOMAIN w.node : t # s => d.node[t] = w.node[t]
           /\ d.node[s] = [w.node[s] EXCEPT !.borrowed = b]
           /\ d.node[s] \in Node
<1> DEFINE d == [w EXCEPT !.node[s].borrowed = b]
<1>1. /\ DOMAIN d = DOMAIN w
      /\ d.wrinfo = w.wrinfo /\ d.idx = w.idx /\ d.max_drop_seq = w.max_drop_seq
      /\ d.maxseq_node = w.maxseq_node /\ d.unacked_bytes = w.unacked_bytes
      /\ d.node = [w.node EXCEPT ![s].borrowed = b]
    BY DEF Shape
<1> HIDE DEF d
<1>2. /\ DOMAIN d.node = DOMAIN w.node
      /\ \A t \in DOMAIN w.node : t # s => d.node[t] = w.node[t]
      /\ d.node[s] = [w.node[s] EXCEPT !.borrowed = b]
    BY <1>1
<1>3. d.node[s] \in Node
  <2>1. w.node[s] \in Node
    BY DEF Shape
  <2> QED BY <1>2, <2>1 DEF Node
<1>4. d.node \in [DOMAIN d.node -> Node]
  <2>1. \A t \in DOMAIN d.node : d.node[t] \in Node
    BY <1>2, <1>3 DEF Shape
  <2>2. d.node = [t \in DOMAIN d.node |-> d.node[t]]
    BY <1>1
  <2> QED BY <2>1, <2>2
<1>5. Shape(d, n)
    BY <1>1, <1>2, <1>4 DEF Shape
<1> QED BY <1>1, <1>2, <1>3, <1>5, Zenon DEF d

LEMMA NextTypes == Types /\ [Next]_vars => Types'
<1> SUFFICES ASSUME Types, [Next]_vars PROVE Types'
    OBVIOUS
<1>0. wrseq \in Nat
    BY DEF Types, wrseq
<1>1. ASSUME NEW w \in Samples, Insert(w), UNCHANGED <<rn, lent, waiter>>
      PROVE  Types'
  <2>1. /\ written' \in Seq(Samples) /\ wrseq' = wrseq + 1
        /\ Shape(whc', wrseq') /\ whc'.wrinfo = whc.wrinfo
    BY <1>1, InsertTypes
  <2>2. rn \in [Matched -> 0..wrseq'] /\ lent \in 0..wrseq' /\ waiter \in 0..wrseq'
    BY <1>0, <2>1 DEF Types
  <2> QED BY <1>1, <2>1, <2>2 DEF Types, Matched
<1>2. ASSUME UNCHANGED <<written, whc, rn, lent>>, waiter' \in {0, wrseq, waiter}
      PROVE  Types'
    BY <1>0, <1>2 DEF Types, Matched, wrseq
<1>3. ASSUME UNCHANGED <<written, rn, waiter>>, Shape(whc', wrseq), whc'.wrinfo = whc.wrinfo,
             lent' \in {0, lent} \cup Stored
      PROVE  Types'
  <2>1. Stored \subseteq 0..wrseq
    BY <1>0 DEF Types, Shape, Stored
  <2> QED BY <1>0, <1>3, <2>1 DEF Types, Matched, wrseq
<1>4. ASSUME UNCHANGED <<written, lent, waiter>>, Shape(whc', wrseq), whc'.wrinfo = whc.wrinfo,
             rn' \in [Matched' -> 0..wrseq]
      PROVE  Types'
    BY <1>0, <1>4 DEF Types, wrseq
<1>5. ASSUME NEW w \in Samples, Write(w)
      PROVE  Types'
    BY <1>1, <1>2, <1>5 DEF Write
<1>6. ASSUME NEW w \in Samples, Throttled(w)
      PROVE  Types'
    BY <1>1, <1>2, <1>6 DEF Throttled
<1>7. CASE ThrottleTimeout
    BY <1>2, <1>7 DEF ThrottleTimeout
<1>8. CASE WaitForAcks
    BY <1>2, <1>8 DEF WaitForAcks
<1>9. CASE WaiterWakes
    BY <1>2, <1>9 DEF WaiterWakes
<1>10. ASSUME NEW r \in Readers, NEW base \in 1..(MaxSeq + 1), Ack(r, base)
       PROVE  Types'
  <2>1. Min({base - 1, wrseq}) \in 0..wrseq
    <3>1. base - 1 \in Nat
      BY HistoryAssumption
    <3> QED BY <1>0, <3>1, MinIsLeast
  <2>2. Shape(whc', wrseq) /\ whc'.wrinfo = whc.wrinfo
    BY <1>10, RemoveTypes DEF Ack, Part
  <2>3. rn' \in [Matched' -> 0..wrseq]
    BY <1>10, <2>1 DEF Ack, Types, Matched
  <2> QED BY <1>4, <1>10, <2>2, <2>3 DEF Ack
<1>11. ASSUME NEW s \in 1..MaxSeq, Borrow(s)
       PROVE  Types'
  <2>1. Shape(whc', wrseq) /\ whc'.wrinfo = whc.wrinfo
    BY <1>11, LoanShape DEF Borrow, Types
  <2> QED BY <1>3, <1>11, <2>1 DEF Borrow, Stored
<1>12. CASE Return
  <2>1. CASE lent \in DOMAIN whc.node
    <3> DEFINE d == [whc EXCEPT !.node[lent].borrowed = FALSE]
    <3>1. Shape(d, wrseq) /\ d.wrinfo = whc.wrinfo
      BY <2>1, LoanShape DEF Types
    <3>2. whc' = d
      BY <1>12, <2>1 DEF Return
    <3> QED BY <1>3, <1>12, <3>1, <3>2 DEF Return
  <2>2. CASE lent \notin DOMAIN whc.node
    BY <1>3, <1>12, <2>2 DEF Return, Types
  <2> QED BY <2>1, <2>2
<1>13. CASE Expire
  <2> DEFINE d == whc_delete(whc, {Min(Expirable)})
  <2>1. Shape(d, wrseq) /\ Part(d, whc)
    BY DeleteShape DEF Types
  <2>2. whc' = WithMaxSeq(d)
    BY <1>13 DEF Expire, Store
  <2> HIDE DEF d
  <2>3. Shape(whc', wrseq) /\ Part(whc', d)
    BY <2>1, <2>2, MaxSeqShape
  <2> QED BY <1>3, <1>13, <2>1, <2>3 DEF Expire, Part
<1>14. ASSUME NEW r \in Readers, Match(r)
       PROVE  Types'
  <2>1. rn' \in [Matched' -> 0..wrseq]
    BY <1>0, <1>14 DEF Match, Types, Matched, Bind
  <2> QED BY <1>4, <1>14, <2>1 DEF Match, Types
<1>15. ASSUME NEW r \in Readers, Unmatch(r)
       PROVE  Types'
  <2>1. rn' \in [Matched' -> 0..wrseq]
    BY <1>0, <1>15 DEF Unmatch, Types, Matched, Restrict
  <2>2. Shape(whc', wrseq) /\ whc'.wrinfo = whc.wrinfo
    BY <1>15, RemoveTypes DEF Unmatch, Part
  <2> QED BY <1>4, <1>15, <2>1, <2>2 DEF Unmatch
<1>16. CASE UNCHANGED vars
    BY <1>2, <1>16 DEF vars
<1> QED BY <1>5, <1>6, <1>7, <1>8, <1>9, <1>10, <1>11, <1>12, <1>13, <1>14, <1>15, <1>16 DEF Next
----------------------------------------------------------------------------
\* A node is marked as borrowed exactly while the AckNack handler has it: the
\* mark is what keeps Store from freeing contents that somebody reads.
OnlyLentBorrowed == \A s \in Stored : whc.node[s].borrowed <=> s = lent

\* What leaves the cache is freed, unless it is the sample that is lent.
LEMMA PartOwned ==
    ASSUME Types, OnlyLentBorrowed, ContentsOwned, NEW v, Part(v, whc),
           Store(v), lent' = lent
    PROVE  OnlyLentBorrowed' /\ ContentsOwned'
<1>1. /\ whc' = v
      /\ live' = (live \cup DOMAIN v.node) \ {s \in DOMAIN whc.node \ DOMAIN v.node : ~whc.node[s].borrowed}
    BY DEF Store
<1>2. DOMAIN v.node \subseteq DOMAIN whc.node
    BY DEF Part
<1>3. \A s \in DOMAIN v.node : v.node[s].borrowed = whc.node[s].borrowed
    BY DEF Part
<1>4. OnlyLentBorrowed'
    BY <1>1, <1>2, <1>3, Zenon DEF OnlyLentBorrowed, Stored
<1>5. {s \in DOMAIN whc.node \ DOMAIN v.node : ~whc.node[s].borrowed}
        = (DOMAIN whc.node \ DOMAIN v.node) \ {lent}
    BY Zenon DEF OnlyLentBorrowed, Stored
<1>6. 0 \notin DOMAIN whc.node
    BY DEF Types, Shape
<1>7. live' = DOMAIN v.node \cup ({lent} \ {0})
    BY <1>1, <1>2, <1>5, <1>6 DEF ContentsOwned, Stored
<1> QED BY <1>1, <1>4, <1>7 DEF ContentsOwned, Stored

LEMMA InsertOwned ==
    ASSUME Types, OnlyLentBorrowed, ContentsOwned, NEW w \in Samples,
           Insert(w), lent = 0, lent' = 0
    PROVE  OnlyLentBorrowed' /\ ContentsOwned'
<1>1. CASE UNCHANGED <<whc, live>>
    BY <1>1 DEF OnlyLentBorrowed, ContentsOwned, Stored
<1>2. CASE ~UNCHANGED <<whc, live>>
  <2> DEFINE m == MaxDropSeq(rn, wrseq + 1)
             v == whc_insert(whc, m, wrseq + 1, w.key, w.kind = "unregister")
             new == whc_insert_seq(whc, m, wrseq + 1, w.key)
  <2>0. /\ whc' = v
        /\ live' = (live \cup DOMAIN v.node) \ {s \in DOMAIN whc.node \ DOMAIN v.node : ~whc.node[s].borrowed}
    BY <1>2 DEF Insert, Store
  <2>1. wrseq \in Nat /\ w.key \in Keys /\ Shape(whc, wrseq)
    BY DEF Types, Samples, wrseq
  <2> HIDE DEF m
  <2>2. Part(v, new)
    BY <2>1, InsertShape
  <2>3. /\ DOMAIN new.node = DOMAIN whc.node \cup {wrseq + 1}
        /\ \A s \in DOMAIN whc.node : new.node[s] = whc.node[s]
        /\ ~new.node[wrseq + 1].borrowed
    BY <2>1, InsertSeqIs
  <2> HIDE DEF v, new
  <2>4. \A s \in DOMAIN whc.node : ~whc.node[s].borrowed /\ s # 0
    BY <2>1 DEF OnlyLentBorrowed, Stored, Shape
  <2>5. \A s \in DOMAIN v.node : ~v.node[s].borrowed /\ s # 0
    BY <2>1, <2>2, <2>3, <2>4 DEF Part
  <2>6. OnlyLentBorrowed'
    BY <2>0, <2>5 DEF OnlyLentBorrowed, Stored
  <2>7. live = DOMAIN whc.node
    BY DEF ContentsOwned, Stored
  <2>8. live' = DOMAIN v.node
    BY <2>0, <2>4, <2>7
  <2>9. ContentsOwned'
    BY <2>0, <2>8 DEF ContentsOwned, Stored
  <2> QED BY <2>6, <2>9
<1> QED BY <1>1, <1>2

\* ContentsOwned alone is not inductive: it needs the marks.
OwnedInv == Types /\ OnlyLentBorrowed /\ ContentsOwned

LEMMA InitOwned == Init => OwnedInv
<1> SUFFICES ASSUME Init PROVE OwnedInv
    OBVIOUS
<1>1. PICK c \in Settings : whc = whc_new(c.wrinfo)
    BY DEF Init
<1>2. DOMAIN whc.node = {}
    BY <1>1 DEF whc_new
<1> QED BY <1>2, InitTypes DEF Init, OwnedInv, OnlyLentBorrowed, ContentsOwned, Stored

LEMMA NextOwned == OwnedInv /\ [Next]_vars => OwnedInv'
<1> SUFFICES ASSUME Types, OnlyLentBorrowed, ContentsOwned, [Next]_vars
             PROVE  OnlyLentBorrowed' /\ ContentsOwned'
    BY NextTypes DEF OwnedInv
<1>1. ASSUME UNCHANGED <<whc, lent, live>>
      PROVE  OnlyLentBorrowed' /\ ContentsOwned'
    BY <1>1 DEF OnlyLentBorrowed, ContentsOwned, Stored
<1>2. ASSUME NEW f, remove_acked_messages(f), lent' = lent
      PROVE  OnlyLentBorrowed' /\ ContentsOwned'
  <2>1. Part(whc', whc) /\ Store(whc')
    BY <1>2, RemoveTypes DEF remove_acked_messages, Store
  <2> QED BY <1>2, <2>1, PartOwned DEF Store
<1>3. ASSUME NEW w \in Samples, Write(w)
      PROVE  OnlyLentBorrowed' /\ ContentsOwned'
    BY <1>1, <1>3, InsertOwned DEF Write, Unlocked
<1>4. ASSUME NEW w \in Samples, Throttled(w)
      PROVE  OnlyLentBorrowed' /\ ContentsOwned'
    BY <1>1, <1>4, InsertOwned DEF Throttled, Unlocked
<1>5. CASE ThrottleTimeout \/ WaitForAcks \/ WaiterWakes \/ UNCHANGED vars
    BY <1>1, <1>5 DEF ThrottleTimeout, WaitForAcks, WaiterWakes, vars
<1>6. ASSUME NEW r \in Readers, NEW base \in 1..(MaxSeq + 1), Ack(r, base)
      PROVE  OnlyLentBorrowed' /\ ContentsOwned'
    BY <1>2, <1>6 DEF Ack
<1>7. ASSUME NEW s \in 1..MaxSeq, Borrow(s)
      PROVE  OnlyLentBorrowed' /\ ContentsOwned'
  <2> DEFINE d == [whc EXCEPT !.node[s].borrowed = TRUE]
  <2>1. s \in DOMAIN whc.node /\ whc' = d /\ lent' = s /\ lent = 0 /\ live' = live
    BY <1>7 DEF Borrow, Unlocked
  <2>2. /\ DOMAIN d.node = DOMAIN whc.node
        /\ \A t \in DOMAIN whc.node : t # s => d.node[t] = whc.node[t]
        /\ d.node[s] = [whc.node[s] EXCEPT !.borrowed = TRUE]
    BY <2>1, LoanShape DEF Types
  <2>3. whc.node[s] \in Node
    BY <2>1 DEF Types, Shape
  <2> HIDE DEF d
  <2>4. d.node[s].borrowed
    BY <2>2, <2>3 DEF Node
  <2>5. \A t \in DOMAIN whc.node : ~whc.node[t].borrowed
    BY <2>1 DEF OnlyLentBorrowed, Stored, Types, Shape
  <2>6. OnlyLentBorrowed'
    BY <2>1, <2>2, <2>4, <2>5, Zenon DEF OnlyLentBorrowed, Stored
  <2>7. ContentsOwned'
    BY <2>1, <2>2 DEF ContentsOwned, Stored
  <2> QED BY <2>6, <2>7
<1>8. CASE Return
  <2>1. CASE lent \in DOMAIN whc.node
    <3> DEFINE d == [whc EXCEPT !.node[lent].borrowed = FALSE]
    <3>1. whc' = d /\ lent' = 0 /\ lent # 0 /\ live' = live
      BY <1>8, <2>1 DEF Return
    <3>2. /\ DOMAIN d.node = DOMAIN whc.node
          /\ \A t \in DOMAIN whc.node : t # lent => d.node[t] = whc.node[t]
          /\ d.node[lent] = [whc.node[lent] EXCEPT !.borrowed = FALSE]
      BY <2>1, LoanShape DEF Types
    <3>3. whc.node[lent] \in Node
      BY <2>1 DEF Types, Shape
    <3> HIDE DEF d
    <3>4. ~d.node[lent].borrowed
      BY <3>2, <3>3 DEF Node
    <3>5. \A t \in DOMAIN whc.node : t # lent => ~whc.node[t].borrowed
      BY DEF OnlyLentBorrowed, Stored
    <3>6. 0 \notin DOMAIN whc.node
      BY DEF Types, Shape
    <3>7. OnlyLentBorrowed'
      BY <3>1, <3>2, <3>4, <3>5, <3>6, Zenon DEF OnlyLentBorrowed, Stored
    <3>8. ContentsOwned'
      BY <2>1, <3>1, <3>2 DEF ContentsOwned, Stored
    <3> QED BY <3>7, <3>8
  <2>2. CASE lent \notin DOMAIN whc.node
    <3>1. whc' = whc /\ lent' = 0 /\ lent # 0 /\ live' = live \ {lent}
      BY <1>8, <2>2 DEF Return
    <3>2. 0 \notin DOMAIN whc.node
      BY DEF Types, Shape
    <3>3. OnlyLentBorrowed'
      BY <2>2, <3>1, <3>2 DEF OnlyLentBorrowed, Stored
    <3>4. ContentsOwned'
      BY <2>2, <3>1 DEF ContentsOwned, Stored
    <3> QED BY <3>3, <3>4
  <2> QED BY <2>1, <2>2
<1>9. CASE Expire
  <2> DEFINE d == whc_delete(whc, {Min(Expirable)})
             e == WithMaxSeq(d)
  <2>1. Shape(d, wrseq) /\ Part(d, whc)
    BY DeleteShape DEF Types
  <2>2. Store(e) /\ lent' = lent
    BY <1>9 DEF Expire
  <2> HIDE DEF d
  <2>3. Part(e, d)
    BY <2>1, MaxSeqShape
  <2> HIDE DEF e
  <2>4. Part(e, whc)
    BY <2>1, <2>3, PartTransitive
  <2>5. PICK v : Part(v, whc) /\ Store(v)
    BY <2>2, <2>4, Zenon
  <2> QED BY <2>2, <2>5, PartOwned, Zenon
<1>10. ASSUME NEW r \in Readers, Match(r)
       PROVE  OnlyLentBorrowed' /\ ContentsOwned'
    BY <1>1, <1>10 DEF Match
<1>11. ASSUME NEW r \in Readers, Unmatch(r)
       PROVE  OnlyLentBorrowed' /\ ContentsOwned'
    BY <1>2, <1>11 DEF Unmatch
<1> QED BY <1>3, <1>4, <1>5, <1>6, <1>7, <1>8, <1>9, <1>10, <1>11 DEF Next

\* whc_return_sample and the cache between them free each sample's contents
\* once, and not while a retransmission holds them, even if the sample expires
\* or is replaced meanwhile; for any history settings, keys and readers.
THEOREM ContentsAreOwned == Spec => []ContentsOwned
<1>1. Init => OwnedInv
    BY InitOwned
<1>2. OwnedInv /\ [Next]_vars => OwnedInv'
    BY NextOwned
<1>3. OwnedInv => ContentsOwned
    BY DEF OwnedInv
<1> QED BY <1>1, <1>2, <1>3, PTL DEF Spec
----------------------------------------------------------------------------
\* The figures of the cache are what they count.
Unacked(w) == {s \in DOMAIN w.node : w.node[s].unacked}
Counted(w) == w.unacked_bytes = Cardinality(Unacked(w))
MaxKnown(w) == w.maxseq_node = FindMaxSeq(w.node)

\* The places of an instance's ring, and that an entry in it is stored: an
\* index that outlives its sample is a dangling pointer in dds_whc.c.
Positions(w) == 0..(w.wrinfo.idxdepth - 1)
Indexed(w) ==
    /\ w.idx \in [DOMAIN w.idx -> [headidx : Nat, hist : [Positions(w) -> Nat]]]
    /\ \A k \in DOMAIN w.idx : \A p \in Positions(w) :
          w.idx[k].hist[p] # 0 => w.idx[k].hist[p] \in DOMAIN w.node

\* Cardinalities are only known of finite sets.
LEMMA FiniteNodes ==
    ASSUME NEW w, NEW n \in Nat, Shape(w, n)
    PROVE  /\ IsFiniteSet(DOMAIN w.node)
           /\ IsFiniteSet(Unacked(w))
           /\ Cardinality(Unacked(w)) \in Nat
<1>1. IsFiniteSet(1..n)
    BY FS_Interval
<1>2. IsFiniteSet(DOMAIN w.node)
    BY <1>1, FS_Subset DEF Shape
<1>3. Unacked(w) \in SUBSET DOMAIN w.node
    BY DEF Unacked
<1>4. IsFiniteSet(Unacked(w))
    BY <1>2, <1>3, FS_Subset
<1> QED BY <1>2, <1>4, FS_CardinalityType

LEMMA MaxSeqIs ==
    ASSUME NEW w, NEW n \in Nat, Shape(w, n)
    PROVE  /\ FindMaxSeq(w.node) \in {0} \cup DOMAIN w.node
           /\ \A s \in DOMAIN w.node : s <= FindMaxSeq(w.node)
           /\ \A x \in {0} \cup DOMAIN w.node :
                 (\A s \in DOMAIN w.node : s <= x) => FindMaxSeq(w.node) = x
<1> DEFINE D == {0} \cup DOMAIN w.node
           x == Max(D)
<1>1. D \subseteq 0..n
    BY DEF Shape
<1>2. x \in D /\ \A y \in D : x >= y
    BY <1>1, MaxIsGreatest
<1>3. FindMaxSeq(w.node) = x
    BY DEF FindMaxSeq
<1> HIDE DEF x
<1>4. ASSUME NEW y \in D, \A s \in DOMAIN w.node : s <= y
      PROVE  x = y
    BY <1>1, <1>2, <1>4
<1>5. \A s \in DOMAIN w.node : s <= x
    BY <1>1, <1>2
<1> QED BY <1>2, <1>3, <1>4, <1>5

LEMMA DeleteBook ==
    ASSUME NEW w, NEW n \in Nat, Shape(w, n), Indexed(w), Counted(w),
           NEW seqs, seqs \subseteq DOMAIN w.node
    PROVE  LET d == whc_delete(w, seqs) IN
           /\ Indexed(d) /\ Counted(d)
           /\ DOMAIN d.idx = DOMAIN w.idx
           /\ \A k \in DOMAIN w.idx :
                 /\ d.idx[k].headidx = w.idx[k].headidx
                 /\ \A p \in Positions(w) :
                       d.idx[k].hist[p] = IF w.idx[k].hist[p] \in seqs THEN 0 ELSE w.idx[k].hist[p]
<1> DEFINE d == whc_delete(w, seqs)
<1>1. /\ d.wrinfo = w.wrinfo
      /\ DOMAIN d.node = DOMAIN w.node \ seqs
      /\ \A s \in DOMAIN d.node : d.node[s] = w.node[s]
    BY DeleteShape DEF Part
<1>2. d.unacked_bytes = w.unacked_bytes - Cardinality({s \in seqs : w.node[s].unacked})
    BY DeleteIs
<1>3. d.idx = [k \in DOMAIN w.idx |-> delete_from_idx(w.idx[k], seqs)]
    BY DeleteIdx
<1> HIDE DEF d
<1>4. Counted(d)
  <2>1. Unacked(d) = Unacked(w) \ seqs
    BY <1>1, Zenon DEF Unacked
  <2>2. {s \in seqs : w.node[s].unacked} = Unacked(w) \cap seqs
    BY Zenon DEF Unacked
  <2>3. IsFiniteSet(Unacked(w))
    BY FiniteNodes
  <2>4. Cardinality(Unacked(w) \ seqs) = Cardinality(Unacked(w)) - Cardinality(Unacked(w) \cap seqs)
    BY <2>3, FS_Difference
  <2> QED BY <1>2, <2>1, <2>2, <2>4, Zenon DEF Counted
<1>5. DOMAIN d.idx = DOMAIN w.idx /\ Positions(d) = Positions(w)
    BY <1>1, <1>3 DEF Positions
<1>6. ASSUME NEW k \in DOMAIN w.idx
      PROVE  /\ d.idx[k] \in [headidx : Nat, hist : [Positions(w) -> Nat]]
             /\ d.idx[k].headidx = w.idx[k].headidx
             /\ \A p \in Positions(w) :
                   d.idx[k].hist[p] = IF w.idx[k].hist[p] \in seqs THEN 0 ELSE w.idx[k].hist[p]
  <2>1. w.idx[k] \in [headidx : Nat, hist : [Positions(w) -> Nat]]
    BY DEF Indexed
  <2>2. d.idx[k] = delete_from_idx(w.idx[k], seqs)
    BY <1>3
  <2> QED BY <2>1, <2>2 DEF delete_from_idx
<1>7. d.idx \in [DOMAIN d.idx -> [headidx : Nat, hist : [Positions(d) -> Nat]]]
    BY <1>3, <1>5, <1>6
<1>8. \A k \in DOMAIN d.idx : \A p \in Positions(d) :
         d.idx[k].hist[p] # 0 => d.idx[k].hist[p] \in DOMAIN d.node
    BY <1>1, <1>5, <1>6 DEF Indexed
<1> QED BY <1>4, <1>5, <1>6, <1>7, <1>8 DEF Indexed, d

LEMMA ClearBook ==
    ASSUME NEW w, NEW n \in Nat, Shape(w, n), Indexed(w), Counted(w),
           NEW seqs, seqs \subseteq DOMAIN w.node
    PROVE  LET d == ClearUnacked(w, seqs) IN
           /\ Indexed(d) /\ Counted(d) /\ d.idx = w.idx /\ DOMAIN d.node = DOMAIN w.node
           /\ d.maxseq_node = w.maxseq_node
           /\ Unacked(d) = Unacked(w) \ seqs
<1> DEFINE d == ClearUnacked(w, seqs)
<1>1. /\ d.wrinfo = w.wrinfo /\ d.idx = w.idx
      /\ d.maxseq_node = w.maxseq_node
      /\ DOMAIN d.node = DOMAIN w.node
    BY DEF ClearUnacked, Shape
<1>2. d.unacked_bytes = w.unacked_bytes - Cardinality({s \in seqs : w.node[s].unacked})
    BY DEF ClearUnacked, Shape
<1>3. \A s \in DOMAIN d.node : d.node[s].unacked = (s \notin seqs /\ w.node[s].unacked)
    BY ClearShape, Zenon
<1> HIDE DEF d
<1>4. Unacked(d) = Unacked(w) \ seqs
    BY <1>1, <1>3, Zenon DEF Unacked
<1>5. Counted(d)
  <2>1. {s \in seqs : w.node[s].unacked} = Unacked(w) \cap seqs
    BY Zenon DEF Unacked
  <2>2. IsFiniteSet(Unacked(w))
    BY FiniteNodes
  <2>3. Cardinality(Unacked(w) \ seqs) = Cardinality(Unacked(w)) - Cardinality(Unacked(w) \cap seqs)
    BY <2>2, FS_Difference
  <2> QED BY <1>2, <1>4, <2>1, <2>3, Zenon DEF Counted
<1>6. Indexed(d)
    BY <1>1 DEF Indexed, Positions
<1> QED BY <1>1, <1>4, <1>5, <1>6 DEF d

LEMMA DropSeqBook ==
    ASSUME NEW w, NEW n, Shape(w, n), Indexed(w), Counted(w), MaxKnown(w), NEW m
    PROVE  LET d == [w EXCEPT !.max_drop_seq = m] IN
           Indexed(d) /\ Counted(d) /\ MaxKnown(d) /\ Unacked(d) = Unacked(w)
<1> DEFINE d == [w EXCEPT !.max_drop_seq = m]
<1>1. /\ d.node = w.node /\ d.idx = w.idx /\ d.wrinfo = w.wrinfo
      /\ d.maxseq_node = w.maxseq_node /\ d.unacked_bytes = w.unacked_bytes
    BY DropSeqShape DEF Part
<1> HIDE DEF d
<1> QED BY <1>1 DEF Indexed, Counted, MaxKnown, Unacked, Positions, d

LEMMA MaxSeqBook ==
    ASSUME NEW w, NEW n, Shape(w, n), Indexed(w), Counted(w)
    PROVE  LET d == WithMaxSeq(w) IN
           Indexed(d) /\ Counted(d) /\ MaxKnown(d) /\ Unacked(d) = Unacked(w)
<1> DEFINE d == WithMaxSeq(w)
<1>1. /\ d.node = w.node /\ d.idx = w.idx /\ d.wrinfo = w.wrinfo
      /\ d.maxseq_node = FindMaxSeq(w.node) /\ d.unacked_bytes = w.unacked_bytes
    BY MaxSeqShape DEF Part
<1> HIDE DEF d
<1> QED BY <1>1 DEF Indexed, Counted, MaxKnown, Unacked, Positions, d

LEMMA BeyondStored ==
    ASSUME NEW w, Indexed(w), w.wrinfo \in Infos, NEW k \in DOMAIN w.idx,
           w.wrinfo.idxdepth > w.wrinfo.tldepth
    PROVE  BeyondTl(w, k) \subseteq DOMAIN w.node
<1> SUFFICES ASSUME NEW i \in 1..(w.wrinfo.idxdepth - w.wrinfo.tldepth),
                    w.idx[k].hist[(w.idx[k].headidx + i) % w.wrinfo.idxdepth] # 0
             PROVE  w.idx[k].hist[(w.idx[k].headidx + i) % w.wrinfo.idxdepth] \in DOMAIN w.node
    BY Zenon DEF BeyondTl
<1>1. w.idx[k].headidx \in Nat
    BY DEF Indexed
<1>2. w.wrinfo.idxdepth \in Nat /\ w.wrinfo.tldepth \in Nat
    BY DEF Infos
<1>3. (w.idx[k].headidx + i) % w.wrinfo.idxdepth \in Positions(w)
    BY <1>1, <1>2, ModRange DEF Positions
<1> QED BY <1>3 DEF Indexed

LEMMA RemoveFullBook ==
    ASSUME NEW w, NEW n \in Nat, Shape(w, n), w.wrinfo \in Infos,
           Indexed(w), Counted(w), MaxKnown(w), NEW m
    PROVE  LET d == whc_remove_acked_messages_full(w, m) IN
           /\ Indexed(d) /\ Counted(d) /\ MaxKnown(d) /\ d.max_drop_seq = m
           /\ Unacked(d) \subseteq Unacked(w) \ {s \in DOMAIN w.node : w.max_drop_seq < s /\ s <= m}
<1> DEFINE acked == {s \in DOMAIN w.node : w.max_drop_seq < s /\ s <= m}
           keep == {s \in acked : whcn_in_tlidx(w, s)}
           clear == ClearUnacked(w, keep)
           kept == whc_delete(clear, acked \ keep)
           cond == w.wrinfo.tldepth > 0 /\ w.wrinfo.idxdepth > w.wrinfo.tldepth
           prune == IF cond THEN UNION {BeyondTl(kept, w.node[s].key) : s \in keep} ELSE {}
           pruned == whc_delete(kept, prune)
           all == ClearUnacked(w, acked)
           res == WithMaxSeq(pruned)
           d == whc_remove_acked_messages_full(w, m)
<1>1. d \in {[all EXCEPT !.max_drop_seq = m], [res EXCEPT !.max_drop_seq = m]}
    BY Zenon DEF whc_remove_acked_messages_full
<1>2. keep \subseteq acked /\ acked \subseteq DOMAIN w.node
    OBVIOUS
<1>3. \A s \in keep : w.node[s].key \in DOMAIN w.idx
    BY Zenon DEF whcn_in_tlidx
<1> HIDE DEF d, acked, keep, prune
<1>4. /\ Shape(all, n) /\ Indexed(all) /\ Counted(all)
      /\ DOMAIN all.node = DOMAIN w.node /\ all.maxseq_node = w.maxseq_node
      /\ Unacked(all) = Unacked(w) \ acked
    BY <1>2, ClearShape, ClearBook
<1>5. MaxKnown(all)
    BY <1>4 DEF MaxKnown, FindMaxSeq
<1>6. /\ Shape(clear, n) /\ clear.wrinfo = w.wrinfo /\ Indexed(clear) /\ Counted(clear)
      /\ clear.idx = w.idx
      /\ DOMAIN clear.node = DOMAIN w.node
      /\ Unacked(clear) = Unacked(w) \ keep
    BY <1>2, ClearShape, ClearBook DEF Part
<1> HIDE DEF all, clear
<1>7. /\ Shape(kept, n) /\ kept.wrinfo = w.wrinfo
      /\ DOMAIN kept.node = DOMAIN w.node \ (acked \ keep)
      /\ \A s \in DOMAIN kept.node : kept.node[s] = clear.node[s]
    BY <1>6, DeleteShape DEF Part
<1>8. Indexed(kept) /\ Counted(kept) /\ DOMAIN kept.idx = DOMAIN w.idx
  <2>1. acked \ keep \subseteq DOMAIN clear.node
    BY <1>2, <1>6
  <2> QED BY <1>6, <2>1, DeleteBook
<1> HIDE DEF kept
<1>9. Unacked(kept) \subseteq Unacked(w) \ acked
    BY <1>6, <1>7, Zenon DEF Unacked
<1>10. prune \subseteq DOMAIN kept.node
  <2>1. CASE ~cond
    BY <2>1 DEF prune
  <2>2. CASE cond
    <3>1. \A s \in keep : BeyondTl(kept, w.node[s].key) \subseteq DOMAIN kept.node
      BY <1>3, <1>7, <1>8, <2>2, BeyondStored
    <3> HIDE DEF cond
    <3> QED BY <2>2, <3>1 DEF prune
  <2> QED BY <2>1, <2>2
<1>11. Shape(pruned, n) /\ Indexed(pruned) /\ Counted(pruned)
       /\ DOMAIN pruned.node \subseteq DOMAIN kept.node
       /\ \A s \in DOMAIN pruned.node : pruned.node[s] = kept.node[s]
    BY <1>7, <1>8, <1>10, DeleteShape, DeleteBook
<1> HIDE DEF pruned
<1>12. Unacked(pruned) \subseteq Unacked(w) \ acked
  <2>1. Unacked(pruned) \subseteq Unacked(kept)
    BY <1>11, Zenon DEF Unacked
  <2> QED BY <1>9, <2>1
<1>13. /\ Shape(res, n) /\ Indexed(res) /\ Counted(res) /\ MaxKnown(res)
       /\ Unacked(res) \subseteq Unacked(w) \ acked
    BY <1>11, <1>12, MaxSeqShape, MaxSeqBook
<1> HIDE DEF res
<1>14. ASSUME NEW v, Shape(v, n), Indexed(v), Counted(v), MaxKnown(v),
              Unacked(v) \subseteq Unacked(w) \ acked, d = [v EXCEPT !.max_drop_seq = m]
       PROVE  /\ Indexed(d) /\ Counted(d) /\ MaxKnown(d) /\ d.max_drop_seq = m
              /\ Unacked(d) \subseteq Unacked(w) \ acked
  <2>1. d.max_drop_seq = m
    BY <1>14, DropSeqShape
  <2> QED BY <1>14, <2>1, DropSeqBook
<1>15. /\ Indexed(d) /\ Counted(d) /\ MaxKnown(d) /\ d.max_drop_seq = m
       /\ Unacked(d) \subseteq Unacked(w) \ acked
    BY <1>1, <1>4, <1>5, <1>13, <1>14
<1> QED BY <1>15, Zenon DEF d, acked

\* Without index the samples are one run up to the last number, none of them
\* acknowledged: what whc_remove_acked_messages_noidx relies on.
OneRun(w, n) == \A s \in DOMAIN w.node : s..n \subseteq DOMAIN w.node /\ w.node[s].unacked

LEMMA RunIs ==
    ASSUME NEW w, NEW n \in Nat, Shape(w, n), OneRun(w, n), DOMAIN w.node # {}
    PROVE  /\ OpenMin(w.node) \in 1..n
           /\ DOMAIN w.node = OpenMin(w.node)..n
           /\ FindMaxSeq(w.node) = n
           /\ Unacked(w) = DOMAIN w.node
<1> DEFINE D == DOMAIN w.node
<1>1. D \subseteq 1..n
    BY DEF Shape
<1>2. \A s \in D : s..n \subseteq D
    BY DEF OneRun
<1>3. PICK s \in D : TRUE
    OBVIOUS
<1>4. n \in D
    BY <1>1, <1>2, <1>3
<1>5. FindMaxSeq(w.node) = n
    BY <1>1, <1>4, MaxSeqIs
<1>6. {t \in D : t..n \subseteq D} = D
    BY <1>2
<1>7. OpenMin(w.node) = Min(D)
    BY <1>5, <1>6 DEF OpenMin
<1>8. Min(D) \in D /\ \A y \in D : Min(D) <= y
    BY <1>1, <1>3, MinIsLeast
<1>9. D = Min(D)..n
  <2>1. Min(D)..n \subseteq D
    BY <1>2, <1>8
  <2>2. \A t \in D : t \in 1..n /\ Min(D) \in 1..n /\ Min(D) <= t
    BY <1>1, <1>8
  <2> HIDE DEF D
  <2>3. D \subseteq Min(D)..n
    BY <2>2
  <2> QED BY <2>1, <2>3
<1>10. Unacked(w) = D
    BY Zenon DEF Unacked, OneRun
<1> QED BY <1>1, <1>5, <1>7, <1>8, <1>9, <1>10

LEMMA RunLength ==
    ASSUME NEW a \in Int, NEW b \in Int, a <= b + 1
    PROVE  Cardinality(a..b) = b - a + 1
<1>1. Cardinality(a..b) = IF a > b THEN 0 ELSE b - a + 1
    BY FS_Interval, Zenon
<1> QED BY <1>1

LEMMA RemoveNoidxBook ==
    ASSUME NEW w, NEW n \in Nat, Shape(w, n), w.wrinfo \in Infos, w.wrinfo.idxdepth = 0,
           Indexed(w), Counted(w), MaxKnown(w), OneRun(w, n),
           NEW m \in 0..n, w.max_drop_seq \in 0..m,
           \A s \in DOMAIN w.node : s > w.max_drop_seq
    PROVE  LET d == whc_remove_acked_messages_noidx(w, m) IN
           /\ Indexed(d) /\ Counted(d) /\ MaxKnown(d) /\ OneRun(d, n) /\ d.max_drop_seq = m
           /\ \A s \in DOMAIN d.node : s > m
<1> DEFINE first == OpenMin(w.node)
           last == IF m \in DOMAIN w.node THEN m ELSE w.maxseq_node
           rest == Restrict(w.node, DOMAIN w.node \ first..last)
           top == Max({w.max_drop_seq, m})
           cut == [w EXCEPT !.node = rest,
                            !.maxseq_node = IF last = @ THEN 0 ELSE @,
                            !.unacked_bytes = @ - (last - first + 1)]
           early == m <= w.max_drop_seq \/ w.maxseq_node = 0 \/ m < first
           d == whc_remove_acked_messages_noidx(w, m)
<1>1. top = m
  <2>1. {w.max_drop_seq, m} \subseteq 0..n
    OBVIOUS
  <2>2. top \in {w.max_drop_seq, m} /\ \A y \in {w.max_drop_seq, m} : top >= y
    BY <2>1, MaxIsGreatest
  <2> QED BY <2>2
<1>2. ASSUME NEW v, Shape(v, n), Indexed(v), Counted(v), MaxKnown(v), OneRun(v, n),
             \A s \in DOMAIN v.node : s > m, d = [v EXCEPT !.max_drop_seq = m]
      PROVE  /\ Indexed(d) /\ Counted(d) /\ MaxKnown(d) /\ OneRun(d, n) /\ d.max_drop_seq = m
             /\ \A s \in DOMAIN d.node : s > m
  <2> HIDE DEF d
  <2>1. d.max_drop_seq = m /\ d.node = v.node
    BY <1>2, DropSeqShape
  <2>2. OneRun(d, n)
    BY <1>2, <2>1 DEF OneRun
  <2> QED BY <1>2, <2>1, <2>2, DropSeqBook
<1>3. CASE DOMAIN w.node = {}
  <2>1. w.maxseq_node = 0
    BY <1>3, MaxSeqIs DEF MaxKnown
  <2>2. d = [w EXCEPT !.max_drop_seq = m]
    BY <1>1, <2>1 DEF whc_remove_acked_messages_noidx
  <2> QED BY <1>2, <1>3, <2>2
<1>4. CASE DOMAIN w.node # {}
  <2>1. /\ first \in 1..n /\ DOMAIN w.node = first..n
        /\ w.maxseq_node = n /\ Unacked(w) = DOMAIN w.node
    BY <1>4, RunIs DEF MaxKnown
  <2>2. CASE early
    <3>1. d = [w EXCEPT !.max_drop_seq = m]
      BY <1>1, <2>2 DEF whc_remove_acked_messages_noidx
    <3>2. \A s \in DOMAIN w.node : s > m
      BY <2>1, <2>2
    <3> HIDE DEF d
    <3> QED BY <1>2, <3>1, <3>2 DEF d
  <2>3. CASE ~early
    <3>1. m \in first..n /\ last = m
      BY <2>1, <2>3
    <3>2. cut.max_drop_seq = w.max_drop_seq
      <4> HIDE DEF first, last, rest
      <4> QED BY DEF Shape
    <3>3. d = [cut EXCEPT !.max_drop_seq = m]
      BY <1>1, <2>3, <3>2, Zenon DEF whc_remove_acked_messages_noidx
    <3>4. /\ cut.wrinfo = w.wrinfo /\ cut.idx = w.idx
          /\ cut.node = rest
          /\ cut.maxseq_node = IF m = n THEN 0 ELSE n
          /\ cut.unacked_bytes = w.unacked_bytes - (m - first + 1)
      <4> HIDE DEF first, rest, last
      <4> QED BY <2>1, <3>1 DEF Shape
    <3>5. Shape(cut, n)
      <4> HIDE DEF first, last
      <4> QED BY DEF Shape, Restrict
    <3> HIDE DEF d, cut
    <3>6. DOMAIN cut.node = (m + 1)..n /\ \A s \in DOMAIN cut.node : cut.node[s] = w.node[s]
      <4>1. DOMAIN cut.node = DOMAIN w.node \ first..m
        BY <3>1, <3>4 DEF Restrict
      <4>2. DOMAIN cut.node = (m + 1)..n
        <5> HIDE DEF first, last, rest
        <5> QED BY <2>1, <3>1, <4>1
      <4> QED BY <3>1, <3>4, <4>2 DEF Restrict
    <3>7. \A s \in DOMAIN cut.node : s \in DOMAIN w.node /\ cut.node[s].unacked
      <4>1. \A s \in DOMAIN cut.node : s \in DOMAIN w.node
        <5> HIDE DEF first, last, rest
        <5> QED BY <2>1, <3>1, <3>6
      <4> QED BY <3>6, <4>1, Zenon DEF OneRun
    <3>8. OneRun(cut, n)
      BY <3>6, <3>7 DEF OneRun
    <3>9. Counted(cut)
      <4>1. Unacked(cut) = (m + 1)..n
        BY <3>6, <3>7, Zenon DEF Unacked
      <4> HIDE DEF first, last, rest
      <4>2. Cardinality((m + 1)..n) = n - m
        BY RunLength
      <4>3. Cardinality(first..n) = n - first + 1
        BY <2>1, RunLength
      <4>4. w.unacked_bytes = n - first + 1
        BY <2>1, <4>3 DEF Counted
      <4> QED BY <2>1, <3>1, <3>4, <4>1, <4>2, <4>4 DEF Counted
    <3>10. MaxKnown(cut)
      <4>1. CASE m = n
        BY <3>4, <3>5, <3>6, <4>1, MaxSeqIs DEF MaxKnown
      <4>2. CASE m # n
        BY <3>4, <3>5, <3>6, <4>2, MaxSeqIs DEF MaxKnown
      <4> QED BY <4>1, <4>2
    <3>11. Indexed(cut)
      BY <3>4 DEF Indexed, Positions
    <3>12. \A s \in DOMAIN cut.node : s > m
      BY <3>6
    <3> QED BY <1>2, <3>3, <3>5, <3>8, <3>9, <3>10, <3>11, <3>12 DEF d
  <2> QED BY <2>2, <2>3
<1> QED BY <1>3, <1>4

\* What the steps of an insertion keep once the new sample seq is stored.
After(v, w, seq) ==
    /\ Indexed(v) /\ Counted(v)
    /\ seq \in DOMAIN v.node
    /\ v.maxseq_node = w.maxseq_node /\ v.max_drop_seq = w.max_drop_seq
    /\ Unacked(v) \subseteq Unacked(w)

LEMMA DeleteAfter ==
    ASSUME NEW v, NEW w, NEW n \in Nat, NEW seq, Shape(v, n), After(v, w, seq),
           NEW gone, gone \subseteq DOMAIN v.node, seq \notin gone
    PROVE  After(whc_delete(v, gone), w, seq)
<1> DEFINE d == whc_delete(v, gone)
<1>1. Indexed(d) /\ Counted(d)
    BY DeleteBook DEF After
<1>2. /\ DOMAIN d.node = DOMAIN v.node \ gone
      /\ \A s \in DOMAIN d.node : d.node[s] = v.node[s]
    BY DeleteShape
<1>3. d.max_drop_seq = v.max_drop_seq /\ d.maxseq_node = v.maxseq_node
    BY DeleteIs
<1> HIDE DEF d
<1>4. Unacked(d) \subseteq Unacked(v)
    BY <1>2, Zenon DEF Unacked
<1> QED BY <1>1, <1>2, <1>3, <1>4 DEF After, d

\* The first part of AddToInstance: the ring turns and its head is seq.
Added(w, seq, key) ==
    LET head == (w.idx[key].headidx + 1) % w.wrinfo.idxdepth
    IN [w EXCEPT !.idx[key] = [headidx |-> head, hist |-> [@.hist EXCEPT ![head] = seq]]]

LEMMA AddedIs ==
    ASSUME NEW w, NEW seq \in Nat, seq > 0, Shape(w, seq), w.wrinfo \in Infos, w.wrinfo.idxdepth > 0,
           Indexed(w), Counted(w), seq \in DOMAIN w.node, NEW key \in DOMAIN w.idx
    PROVE  LET d == Added(w, seq, key)
               head == (w.idx[key].headidx + 1) % w.wrinfo.idxdepth IN
           /\ Shape(d, seq) /\ d.wrinfo = w.wrinfo /\ d.node = w.node /\ After(d, w, seq)
           /\ head \in Positions(w) /\ DOMAIN d.idx = DOMAIN w.idx
           /\ d.idx[key].headidx = head /\ d.idx[key].hist[head] = seq
           /\ \A p \in Positions(w) : p # head => d.idx[key].hist[p] = w.idx[key].hist[p]
           /\ \A k \in DOMAIN w.idx : k # key => d.idx[k] = w.idx[k]
<1> DEFINE head == (w.idx[key].headidx + 1) % w.wrinfo.idxdepth
           hist == [w.idx[key].hist EXCEPT ![head] = seq]
           added == Added(w, seq, key)
<1>1. /\ w.idx[key].headidx \in Nat
      /\ w.idx[key].hist \in [Positions(w) -> Nat]
    BY DEF Indexed
<1>2. head \in Positions(w)
  <2>1. PICK a, depth : a = w.idx[key].headidx + 1 /\ depth = w.wrinfo.idxdepth
    OBVIOUS
  <2>2. a \in Int /\ depth \in Nat /\ depth > 0
    BY <1>1, <2>1 DEF Infos
  <2>3. a % depth \in 0..(depth - 1)
    BY <2>2, ModRange
  <2> QED BY <2>1, <2>3 DEF Positions
<1>3. added = [w EXCEPT !.idx[key] = [headidx |-> head, hist |-> [@.hist EXCEPT ![head] = seq]]]
    BY DEF Added
<1> HIDE DEF head, added
<1>4. /\ added.node = w.node /\ added.wrinfo = w.wrinfo
      /\ added.maxseq_node = w.maxseq_node /\ added.max_drop_seq = w.max_drop_seq
      /\ added.unacked_bytes = w.unacked_bytes
      /\ Shape(added, seq)
    BY <1>3 DEF Shape
<1>5. added.idx = [w.idx EXCEPT ![key] = [headidx |-> head, hist |-> hist]]
    BY <1>3 DEF Shape
<1>6. /\ hist \in [Positions(w) -> Nat] /\ hist[head] = seq
      /\ \A p \in Positions(w) : p # head => hist[p] = w.idx[key].hist[p]
    BY <1>1, <1>2
<1> HIDE DEF hist
<1>7. Positions(added) = Positions(w) /\ DOMAIN added.idx = DOMAIN w.idx
    BY <1>4, <1>5 DEF Positions
<1>8. \A k \in DOMAIN w.idx : k # key => added.idx[k] = w.idx[k]
    BY <1>5
<1>9. added.idx[key].headidx = head /\ added.idx[key].hist = hist /\ head \in Nat
    BY <1>2, <1>5 DEF Positions
<1>10. Indexed(added)
  <2>1. added.idx \in [DOMAIN w.idx -> [headidx : Nat, hist : [Positions(w) -> Nat]]]
    BY <1>5, <1>6, <1>9 DEF Indexed
  <2>2. \A p \in Positions(w) : hist[p] # 0 => hist[p] \in DOMAIN w.node
    BY <1>6 DEF Indexed
  <2>3. \A k \in DOMAIN w.idx : \A p \in Positions(w) :
           added.idx[k].hist[p] # 0 => added.idx[k].hist[p] \in DOMAIN w.node
    BY <1>8, <1>9, <2>2 DEF Indexed
  <2> QED BY <1>4, <1>7, <2>1, <2>3 DEF Indexed
<1>11. After(added, w, seq)
    BY <1>4, <1>10 DEF After, Counted, Unacked
<1> QED BY <1>2, <1>4, <1>6, <1>7, <1>8, <1>9, <1>11 DEF head, added

LEMMA AddBook ==
    ASSUME NEW w, NEW seq \in Nat, seq > 0, Shape(w, seq), w.wrinfo \in Infos, w.wrinfo.idxdepth > 0,
           Indexed(w), Counted(w), seq \in DOMAIN w.node, NEW m,
           NEW key \in DOMAIN w.idx, \A p \in Positions(w) : w.idx[key].hist[p] # seq
    PROVE  After(AddToInstance(w, m, seq, key), w, seq)
<1> DEFINE info == w.wrinfo
           head == (w.idx[key].headidx + 1) % info.idxdepth
           oldn == w.idx[key].hist[head]
           added == [w EXCEPT !.idx[key] = [headidx |-> head, hist |-> [@.hist EXCEPT ![head] = seq]]]
           overwrite == /\ oldn # 0
                        /\ info.hdepth > 0 \/ oldn <= m
                        /\ ~info.is_transient_local \/ info.tldepth > 0
           whc1 == IF overwrite THEN whc_delete(added, {oldn}) ELSE added
           pos == (head + info.idxdepth - info.tldepth) % info.idxdepth
           tail == whc1.idx[key].hist[pos]
           prune == seq <= m /\ info.tldepth > 0 /\ info.idxdepth > info.tldepth /\ tail # 0
           d == AddToInstance(w, m, seq, key)
<1>1. d = IF prune THEN whc_delete(whc1, {tail}) ELSE whc1
    BY Zenon DEF AddToInstance
<1>2. info.idxdepth \in Nat /\ info.tldepth \in Nat
    BY DEF Infos
<1>3. /\ Shape(added, seq) /\ added.wrinfo = w.wrinfo /\ added.node = w.node /\ After(added, w, seq)
      /\ head \in Positions(w) /\ DOMAIN added.idx = DOMAIN w.idx
      /\ \A p \in Positions(w) : p # head => added.idx[key].hist[p] = w.idx[key].hist[p]
  <2>1. added = Added(w, seq, key)
    BY DEF Added
  <2> HIDE DEF added
  <2> QED BY <2>1, AddedIs
<1> HIDE DEF head, added
<1>4. oldn # 0 => oldn \in DOMAIN w.node /\ oldn # seq
    BY <1>3 DEF Indexed
<1> HIDE DEF overwrite, oldn, d
<1>5. \A p \in Positions(w) : p # head => added.idx[key].hist[p] # seq
    BY <1>3
<1>6. /\ Shape(whc1, seq) /\ After(whc1, w, seq) /\ whc1.wrinfo = w.wrinfo
       /\ key \in DOMAIN whc1.idx
       /\ \A p \in Positions(w) : p # head => whc1.idx[key].hist[p] # seq
  <2>1. CASE ~overwrite
    BY <1>3, <1>5, <2>1
  <2>2. CASE overwrite
    <3>1. {oldn} \subseteq DOMAIN added.node /\ seq \notin {oldn}
      BY <1>3, <1>4, <2>2 DEF overwrite
    <3>2. whc1 = whc_delete(added, {oldn})
      BY <2>2
    <3> HIDE DEF whc1
    <3>3. Shape(whc1, seq) /\ whc1.wrinfo = w.wrinfo
      BY <1>3, <3>2, DeleteShape DEF Part
    <3>4. After(whc1, w, seq)
      BY <1>3, <3>1, <3>2, DeleteAfter
    <3>5. Positions(added) = Positions(w) /\ key \in DOMAIN added.idx
      BY <1>3 DEF Positions
    <3>6. /\ DOMAIN whc1.idx = DOMAIN added.idx
          /\ \A k \in DOMAIN added.idx : \A p \in Positions(added) :
                whc1.idx[k].hist[p] = IF added.idx[k].hist[p] \in {oldn} THEN 0 ELSE added.idx[k].hist[p]
      BY <1>3, <3>1, <3>2, DeleteBook DEF After
    <3>7. \A p \in Positions(w) : p # head => whc1.idx[key].hist[p] # seq
      BY <1>5, <3>5, <3>6
    <3> QED BY <3>3, <3>4, <3>5, <3>6, <3>7
  <2> QED BY <2>1, <2>2
<1> HIDE DEF whc1
<1>7. CASE ~prune
    BY <1>1, <1>6, <1>7 DEF d
<1>8. CASE prune
  <2>1. pos \in Positions(w) /\ pos # head
    <3>1. head \in 0..(info.idxdepth - 1) /\ info.idxdepth - info.tldepth \in 1..(info.idxdepth - 1)
      BY <1>2, <1>3, <1>8 DEF Positions
    <3>2. head + info.idxdepth - info.tldepth = head + (info.idxdepth - info.tldepth)
      BY <1>2, <3>1
    <3>3. pos # head
      BY <1>2, <3>1, <3>2, ModShift
    <3> QED BY <1>2, <3>1, <3>2, <3>3, ModRange DEF Positions
  <2> HIDE DEF pos
  <2>2. tail \in DOMAIN whc1.node /\ tail # seq
    <3>1. Positions(whc1) = Positions(w)
      BY <1>6 DEF Positions
    <3> QED BY <1>6, <1>8, <2>1, <3>1 DEF After, Indexed
  <2> HIDE DEF tail, prune
  <2>3. After(whc_delete(whc1, {tail}), w, seq)
    BY <1>6, <2>2, DeleteAfter
  <2> QED BY <1>1, <1>8, <2>3 DEF d
<1> QED BY <1>7, <1>8

LEMMA InsertSeqBook ==
    ASSUME NEW w, NEW n \in Nat, Shape(w, n), w.wrinfo \in Infos, Indexed(w), Counted(w),
           NEW m \in Nat, NEW key \in Keys, NEW seq, seq = n + 1
    PROVE  LET d == whc_insert_seq(w, m, seq, key) IN
           /\ Indexed(d) /\ Counted(d)
           /\ Unacked(d) = Unacked(w) \cup (IF seq > m THEN {seq} ELSE {})
           /\ \A k \in DOMAIN d.idx : \A p \in Positions(d) : d.idx[k].hist[p] # seq
<1> DEFINE d == whc_insert_seq(w, m, seq, key)
<1>1. /\ d.wrinfo = w.wrinfo /\ d.idx = w.idx
      /\ d.unacked_bytes = w.unacked_bytes + IF seq > m THEN 1 ELSE 0
      /\ DOMAIN d.node = DOMAIN w.node \cup {seq}
    BY InsertSeqIs
<1>2. /\ \A s \in DOMAIN w.node : d.node[s] = w.node[s]
      /\ d.node[seq].unacked <=> seq > m
    BY InsertSeqIs
<1> HIDE DEF d
<1>3. seq \notin DOMAIN w.node /\ seq # 0
    BY DEF Shape
<1>4. Indexed(d)
    BY <1>1 DEF Indexed, Positions
<1>5. \A k \in DOMAIN d.idx : \A p \in Positions(d) : d.idx[k].hist[p] # seq
    BY <1>1, <1>3 DEF Indexed, Positions
<1>6. Unacked(d) = Unacked(w) \cup (IF seq > m THEN {seq} ELSE {})
  <2>1. CASE seq > m
    <3>1. Unacked(d) = Unacked(w) \cup {seq}
      BY <1>1, <1>2, <2>1, Zenon DEF Unacked
    <3> QED BY <2>1, <3>1
  <2>2. CASE ~(seq > m)
    <3>1. Unacked(d) = Unacked(w)
      BY <1>1, <1>2, <2>2, Zenon DEF Unacked
    <3> QED BY <2>2, <3>1
  <2> QED BY <2>1, <2>2
<1>7. Counted(d)
  <2>1. IsFiniteSet(Unacked(w)) /\ Cardinality(Unacked(w)) \in Nat
    BY FiniteNodes
  <2>2. seq \notin Unacked(w)
    BY <1>3 DEF Unacked
  <2>3. Cardinality(Unacked(w) \cup {seq}) = Cardinality(Unacked(w)) + 1
    BY <2>1, <2>2, FS_AddElement
  <2>4. CASE seq > m
    BY <1>1, <1>6, <2>3, <2>4 DEF Counted
  <2>5. CASE ~(seq > m)
    BY <1>1, <1>6, <2>1, <2>5 DEF Counted
  <2> QED BY <2>4, <2>5
<1> QED BY <1>4, <1>5, <1>6, <1>7 DEF d

LEMMA InstanceGone ==
    ASSUME NEW w, NEW n \in Nat, Shape(w, n), Indexed(w), Counted(w), NEW seq \in DOMAIN w.node,
           NEW m, NEW key \in DOMAIN w.idx,
           \A p \in Positions(w) : w.idx[key].hist[p] # seq
    PROVE  LET d == delete_one_instance_from_idx(w, m, key) IN
           /\ After(d, w, seq) /\ Shape(d, n)
           /\ w.wrinfo.idxdepth = 0 => DOMAIN d.node = DOMAIN w.node /\ Unacked(d) = Unacked(w)
<1> DEFINE bare == [w EXCEPT !.idx = Restrict(@, DOMAIN @ \ {key})]
           entries == {w.idx[key].hist[p] : p \in DOMAIN w.idx[key].hist} \ {0}
           gone == {s \in entries : s <= m}
           d == delete_one_instance_from_idx(w, m, key)
<1>1. d = whc_delete(bare, gone)
    BY DEF delete_one_instance_from_idx
<1>2. /\ Shape(bare, n) /\ bare.node = w.node /\ bare.wrinfo = w.wrinfo
      /\ bare.max_drop_seq = w.max_drop_seq /\ bare.maxseq_node = w.maxseq_node
      /\ bare.unacked_bytes = w.unacked_bytes
      /\ bare.idx = [k \in DOMAIN w.idx \ {key} |-> w.idx[k]]
    BY DEF Shape, Restrict
<1> HIDE DEF bare, d
<1>3. Indexed(bare)
    BY <1>2 DEF Indexed, Positions
<1>4. After(bare, w, seq)
    BY <1>2, <1>3 DEF After, Counted, Unacked
<1>5. DOMAIN w.idx[key].hist = Positions(w)
    BY DEF Indexed
<1>6. entries \subseteq DOMAIN w.node /\ seq \notin entries
    BY <1>5 DEF Indexed
<1>7. w.wrinfo.idxdepth = 0 => entries = {}
    BY <1>5 DEF Positions
<1>8. gone \subseteq entries
    OBVIOUS
<1> HIDE DEF gone, entries
<1>9. After(d, w, seq)
    BY <1>1, <1>2, <1>4, <1>6, <1>8, DeleteAfter
<1>10. /\ Shape(d, n) /\ DOMAIN d.node = DOMAIN w.node \ gone
       /\ \A s \in DOMAIN d.node : d.node[s] = w.node[s]
    BY <1>1, <1>2, DeleteShape
<1>11. ASSUME w.wrinfo.idxdepth = 0
       PROVE  DOMAIN d.node = DOMAIN w.node /\ Unacked(d) = Unacked(w)
  <2>1. DOMAIN d.node = DOMAIN w.node
    BY <1>7, <1>8, <1>10, <1>11
  <2> QED BY <1>10, <2>1, Zenon DEF Unacked
<1> QED BY <1>9, <1>10, <1>11 DEF d

LEMMA InsertBook ==
    ASSUME NEW w, NEW n \in Nat, Shape(w, n), w.wrinfo \in Infos, Indexed(w), Counted(w),
           NEW m \in Nat, NEW key \in Keys, NEW seq, seq = n + 1, NEW unregister \in BOOLEAN
    PROVE  LET d == whc_insert(w, m, seq, key, unregister) IN
           /\ Indexed(d) /\ Counted(d) /\ MaxKnown(d)
           /\ d.max_drop_seq = w.max_drop_seq
           /\ Unacked(d) \subseteq Unacked(w) \cup (IF seq > m THEN {seq} ELSE {})
           /\ w.wrinfo.idxdepth = 0 /\ seq > m =>
                 DOMAIN d.node = DOMAIN w.node \cup {seq} /\ Unacked(d) = Unacked(w) \cup {seq}
<1> DEFINE new == whc_insert_seq(w, m, seq, key)
           depth == w.wrinfo.idxdepth
           entry == [headidx |-> 0, hist |-> [p \in 0..(depth - 1) |-> IF p = 0 THEN seq ELSE 0]]
           bound == [new EXCEPT !.idx = Bind(new.idx, key, entry)]
           del == delete_one_instance_from_idx(new, m, key)
           d == whc_insert(w, m, seq, key, unregister)
           Same(v) == DOMAIN v.node = DOMAIN new.node /\ Unacked(v) = Unacked(new)
           Good(v) == /\ Indexed(v) /\ Counted(v) /\ MaxKnown(v)
                      /\ v.max_drop_seq = w.max_drop_seq
                      /\ Unacked(v) \subseteq Unacked(new)
                      /\ depth = 0 /\ seq > m => Same(v)
<1>1. /\ Shape(new, seq) /\ new.wrinfo = w.wrinfo /\ new.idx = w.idx
      /\ new.max_drop_seq = w.max_drop_seq /\ new.maxseq_node = seq
      /\ DOMAIN new.node = DOMAIN w.node \cup {seq}
    BY InsertSeqIs
<1>2. /\ Indexed(new) /\ Counted(new)
      /\ Unacked(new) = Unacked(w) \cup (IF seq > m THEN {seq} ELSE {})
      /\ \A k \in DOMAIN new.idx : \A p \in Positions(new) : new.idx[k].hist[p] # seq
    BY InsertSeqBook
<1>3. seq \in Nat /\ seq > 0 /\ depth \in Nat
    BY DEF Infos
<1>4. d = IF unregister
          THEN DropNew(IF key \in DOMAIN w.idx THEN del ELSE new, m, seq)
          ELSE IF key \notin DOMAIN w.idx THEN bound
          ELSE IF depth > 0 THEN AddToInstance(new, m, seq, key) ELSE new
    BY Zenon DEF whc_insert
<1> HIDE DEF d, new
<1>5. After(new, new, seq)
    BY <1>1, <1>2 DEF After
<1>6. ASSUME NEW v, Shape(v, seq), After(v, new, seq)
      PROVE  MaxKnown(v)
  <2>1. v.maxseq_node = seq /\ seq \in DOMAIN v.node /\ \A s \in DOMAIN v.node : s <= seq
    BY <1>1, <1>3, <1>6 DEF After, Shape
  <2> QED BY <1>3, <1>6, <2>1, MaxSeqIs DEF MaxKnown
<1>7. ASSUME NEW v, Shape(v, seq), After(v, new, seq),
             depth = 0 /\ seq > m => Same(v)
      PROVE  Good(v)
    BY <1>1, <1>6, <1>7 DEF After
<1>8. ASSUME NEW v, Shape(v, seq), After(v, new, seq),
             depth = 0 /\ seq > m => Same(v)
      PROVE  Good(DropNew(v, m, seq))
  <2>1. CASE seq > m
    <3>1. DropNew(v, m, seq) = v
      BY <1>3, <2>1 DEF DropNew
    <3> QED BY <1>7, <1>8, <3>1
  <2>2. CASE ~(seq > m)
    <3> DEFINE v1 == whc_delete(v, {seq})
               v2 == WithMaxSeq(v1)
    <3>1. DropNew(v, m, seq) = v2
      BY <1>3, <2>2 DEF DropNew
    <3>2. {seq} \subseteq DOMAIN v.node /\ Indexed(v) /\ Counted(v)
      BY <1>8 DEF After
    <3>3. Indexed(v1) /\ Counted(v1)
      BY <1>3, <1>8, <3>2, DeleteBook
    <3>4. /\ Shape(v1, seq) /\ DOMAIN v1.node \subseteq DOMAIN v.node
          /\ \A s \in DOMAIN v1.node : v1.node[s] = v.node[s]
      BY <1>8, DeleteShape
    <3>5. v1.max_drop_seq = w.max_drop_seq
      BY <1>1, <1>8, DeleteIs DEF After
    <3> HIDE DEF v1
    <3>6. Unacked(v1) \subseteq Unacked(v)
      BY <3>4, Zenon DEF Unacked
    <3>7. Indexed(v2) /\ Counted(v2) /\ MaxKnown(v2) /\ Unacked(v2) = Unacked(v1)
      BY <3>3, <3>4, MaxSeqBook
    <3>8. v2.max_drop_seq = w.max_drop_seq
      BY <3>4, <3>5, MaxSeqShape
    <3> HIDE DEF v2
    <3> QED BY <1>8, <2>2, <3>1, <3>6, <3>7, <3>8 DEF After
  <2> QED BY <2>1, <2>2
<1>9. ASSUME key \in DOMAIN w.idx
      PROVE  /\ After(del, new, seq) /\ Shape(del, seq)
             /\ depth = 0 => Same(del)
  <2>1. seq \in DOMAIN new.node /\ key \in DOMAIN new.idx
    BY <1>1, <1>9
  <2>2. new.wrinfo.idxdepth = depth
    BY <1>1
  <2> QED BY <1>1, <1>2, <1>3, <2>1, <2>2, InstanceGone
<1>10. ASSUME key \notin DOMAIN w.idx
       PROVE  After(bound, new, seq) /\ Shape(bound, seq) /\ Same(bound)
  <2>1. entry \in [headidx : Nat, hist : [Positions(new) -> Nat]]
    BY <1>1, <1>3 DEF Positions
  <2>2. \A p \in Positions(new) : entry.hist[p] # 0 => entry.hist[p] = seq
    BY <1>1 DEF Positions
  <2> HIDE DEF entry
  <2>3. /\ Shape(bound, seq) /\ bound.node = new.node /\ bound.wrinfo = new.wrinfo
        /\ bound.max_drop_seq = new.max_drop_seq /\ bound.maxseq_node = new.maxseq_node
        /\ bound.unacked_bytes = new.unacked_bytes
        /\ bound.idx = Bind(new.idx, key, entry)
    BY <1>1, IdxShape DEF Part
  <2> HIDE DEF bound
  <2>4. Indexed(bound)
    <3>1. Positions(bound) = Positions(new)
      BY <2>3 DEF Positions
    <3>2. bound.idx = [k \in DOMAIN new.idx \cup {key} |-> IF k = key THEN entry ELSE new.idx[k]]
      BY <2>3 DEF Bind
    <3>3. \A k \in DOMAIN bound.idx : bound.idx[k] \in [headidx : Nat, hist : [Positions(new) -> Nat]]
      BY <1>2, <2>1, <3>2 DEF Indexed
    <3>4. \A k \in DOMAIN bound.idx : \A p \in Positions(new) :
             bound.idx[k].hist[p] # 0 => bound.idx[k].hist[p] \in DOMAIN new.node
      BY <1>1, <1>2, <2>2, <3>2 DEF Indexed
    <3>5. bound.idx \in [DOMAIN bound.idx -> [headidx : Nat, hist : [Positions(new) -> Nat]]]
      BY <3>2, <3>3
    <3> QED BY <2>3, <3>1, <3>4, <3>5 DEF Indexed
  <2>5. After(bound, new, seq)
    BY <1>1, <1>2, <2>3, <2>4 DEF After, Counted, Unacked
  <2>6. Same(bound)
    BY <2>3 DEF Unacked
  <2> QED BY <2>3, <2>5, <2>6
<1>11. ASSUME key \in DOMAIN w.idx, depth > 0
       PROVE  /\ After(AddToInstance(new, m, seq, key), new, seq)
              /\ Shape(AddToInstance(new, m, seq, key), seq)
    BY <1>1, <1>2, <1>3, <1>11, AddBook, AddShape
<1> HIDE DEF del, bound, entry
<1>12. Good(d)
  <2> HIDE DEF Good, depth
  <2>1. CASE unregister /\ key \in DOMAIN w.idx
    <3>1. d = DropNew(del, m, seq)
      BY <1>4, <2>1, Zenon
    <3> QED BY <1>8, <1>9, <2>1, <3>1
  <2>2. CASE unregister /\ key \notin DOMAIN w.idx
    <3>1. d = DropNew(new, m, seq)
      BY <1>4, <2>2, Zenon
    <3> QED BY <1>1, <1>5, <1>8, <3>1
  <2>3. CASE ~unregister /\ key \notin DOMAIN w.idx
    <3>1. d = bound
      BY <1>4, <2>3, Zenon
    <3> QED BY <1>7, <1>10, <2>3, <3>1
  <2>4. CASE ~unregister /\ key \in DOMAIN w.idx /\ depth > 0
    <3>1. d = AddToInstance(new, m, seq, key)
      BY <1>4, <2>4, Zenon
    <3>2. depth # 0
      BY <1>3, <2>4
    <3> QED BY <1>7, <1>11, <2>4, <3>1, <3>2
  <2>5. CASE ~unregister /\ key \in DOMAIN w.idx /\ ~(depth > 0)
    <3>1. d = new
      BY <1>4, <2>5, Zenon
    <3> QED BY <1>1, <1>5, <1>7, <3>1
  <2> QED BY <2>1, <2>2, <2>3, <2>4, <2>5, Zenon
<1> QED BY <1>1, <1>2, <1>12 DEF d
----------------------------------------------------------------------------
\* A history without index: volatile and KEEP_ALL.  An expiry may take a
\* sample from the middle of its one run; all other settings have no such hole.
NoIndex == whc.wrinfo.idxdepth = 0 /\ ~whc.wrinfo.is_transient_local
NoHoles == lifespan => ~NoIndex

\* The bookkeeping: the indices point at stored samples, the counts count
\* them, and what is unacked is beyond what the cache was told to drop, which
\* is no more than any matched reader acknowledged.
Book ==
    /\ Indexed(whc) /\ Counted(whc) /\ MaxKnown(whc)
    /\ whc.max_drop_seq \in 0..wrseq
    /\ \A r \in Matched : whc.max_drop_seq <= rn[r]
    /\ \A s \in Unacked(whc) : s > whc.max_drop_seq
    /\ Matched = {} => Unacked(whc) = {}
    /\ NoIndex => OneRun(whc, wrseq)

\* Every entry into the cache keeps the books.
LEMMA RemoveKeepsBook ==
    ASSUME Types, Book, NEW f, f \in [DOMAIN f -> 0..wrseq],
           \A r \in DOMAIN f : whc.max_drop_seq <= f[r],
           rn' = f, written' = written, remove_acked_messages(f)
    PROVE  Book'
<1> DEFINE m == MaxDropSeq(f, wrseq)
           d == whc_remove_acked_messages(whc, m)
<1>1. wrseq \in Nat /\ wrseq' = wrseq /\ whc' = d /\ Matched' = DOMAIN f
    BY DEF Types, wrseq, remove_acked_messages, Store, Matched
<1>2. /\ m \in 0..wrseq /\ \A r \in DOMAIN f : m <= f[r]
      /\ DOMAIN f = {} => m = wrseq
    BY <1>1, AckedTo
<1>3. whc.max_drop_seq \in 0..m
  <2>1. CASE DOMAIN f = {}
    BY <1>1, <1>2, <2>1 DEF Book
  <2>2. CASE DOMAIN f # {}
    <3>1. PICK r \in DOMAIN f : m = f[r]
      BY <1>1, <2>2, AckedTo
    <3> QED BY <1>2, <3>1 DEF Book
  <2> QED BY <2>1, <2>2
<1> HIDE DEF m
<1>4. Shape(whc, wrseq) /\ whc.wrinfo \in Infos /\ Indexed(whc) /\ Counted(whc) /\ MaxKnown(whc)
    BY DEF Types, Book
<1>5. Shape(d, wrseq) /\ d.wrinfo = whc.wrinfo
    BY <1>4, RemoveShape DEF Part
<1>6. /\ Indexed(d) /\ Counted(d) /\ MaxKnown(d) /\ d.max_drop_seq = m
      /\ \A s \in Unacked(d) : s > m
      /\ NoIndex => OneRun(d, wrseq)
  <2>1. CASE NoIndex
    <3>1. d = whc_remove_acked_messages_noidx(whc, m)
      BY <2>1 DEF NoIndex, whc_remove_acked_messages
    <3>2. OneRun(whc, wrseq) /\ whc.wrinfo.idxdepth = 0
      BY <2>1 DEF Book, NoIndex
    <3>3. Unacked(whc) = DOMAIN whc.node
      BY <3>2, Zenon DEF Unacked, OneRun
    <3>4. \A s \in DOMAIN whc.node : s > whc.max_drop_seq
      BY <3>3 DEF Book
    <3>5. /\ Indexed(d) /\ Counted(d) /\ MaxKnown(d) /\ OneRun(d, wrseq) /\ d.max_drop_seq = m
          /\ \A s \in DOMAIN d.node : s > m
      BY <1>1, <1>2, <1>3, <1>4, <3>1, <3>2, <3>4, RemoveNoidxBook
    <3> QED BY <3>5 DEF Unacked
  <2>2. CASE ~NoIndex
    <3> DEFINE acked == {s \in DOMAIN whc.node : whc.max_drop_seq < s /\ s <= m}
    <3>1. d = whc_remove_acked_messages_full(whc, m)
      BY <2>2 DEF NoIndex, whc_remove_acked_messages
    <3>2. /\ Indexed(d) /\ Counted(d) /\ MaxKnown(d) /\ d.max_drop_seq = m
          /\ Unacked(d) \subseteq Unacked(whc) \ acked
      BY <1>1, <1>4, <3>1, RemoveFullBook
    <3>3. \A s \in Unacked(d) : s > m
      <4> SUFFICES ASSUME NEW s \in Unacked(d) PROVE s > m
        OBVIOUS
      <4>1. s \in Unacked(whc) /\ s \notin acked
        BY <3>2
      <4>2. s \in DOMAIN whc.node /\ s > whc.max_drop_seq
        BY <4>1 DEF Book, Unacked
      <4>3. s \in 1..wrseq
        BY <1>4, <4>2 DEF Shape
      <4> QED BY <1>2, <1>3, <4>1, <4>2, <4>3
    <3> QED BY <2>2, <3>2, <3>3
  <2> QED BY <2>1, <2>2
<1> HIDE DEF d
<1>7. Matched' = {} => Unacked(d) = {}
  <2> SUFFICES ASSUME Matched' = {}, NEW s \in Unacked(d) PROVE FALSE
    OBVIOUS
  <2>1. s > wrseq
    BY <1>1, <1>2, <1>6
  <2>2. s \in 1..wrseq
    BY <1>5 DEF Unacked, Shape
  <2> QED BY <1>1, <2>1, <2>2
<1>8. NoIndex' <=> NoIndex
    BY <1>1, <1>5 DEF NoIndex
<1> QED BY <1>1, <1>2, <1>6, <1>7, <1>8 DEF Book

LEMMA InsertKeepsBook ==
    ASSUME Types, Book, NEW w \in Samples, Insert(w), rn' = rn
    PROVE  Book'
<1> DEFINE seq == wrseq + 1
           m == MaxDropSeq(rn, seq)
           unreg == w.kind = "unregister"
           d == whc_insert(whc, m, seq, w.key, unreg)
<1>1. wrseq \in Nat /\ wrseq' = seq /\ Matched' = Matched
    BY InsertTypes DEF Matched
<1>2. Shape(whc, wrseq) /\ whc.wrinfo \in Infos /\ Indexed(whc) /\ Counted(whc) /\ MaxKnown(whc)
    BY DEF Types, Book
<1>3. whc'.wrinfo = whc.wrinfo
    BY InsertTypes
<1>4. NoIndex' <=> NoIndex
    BY <1>3 DEF NoIndex
<1>5. CASE Matched # {} \/ whc.wrinfo.is_transient_local
  <2>1. whc' = d
    BY <1>5 DEF Insert, Store
  <2>2. rn \in [DOMAIN rn -> 0..wrseq]
    BY DEF Types, Matched
  <2>3. /\ m \in 0..seq /\ \A r \in Matched : m <= rn[r]
        /\ Matched = {} => m = seq
    BY <1>1, <2>2, AckedTo DEF Matched
  <2>4. w.key \in Keys
    BY DEF Samples
  <2>5. unreg \in BOOLEAN
    OBVIOUS
  <2>6. m \in Nat
    BY <1>1, <2>3
  <2> HIDE DEF m, unreg
  <2>7. /\ Indexed(d) /\ Counted(d) /\ MaxKnown(d)
        /\ d.max_drop_seq = whc.max_drop_seq
        /\ Unacked(d) \subseteq Unacked(whc) \cup (IF seq > m THEN {seq} ELSE {})
        /\ whc.wrinfo.idxdepth = 0 /\ seq > m =>
              DOMAIN d.node = DOMAIN whc.node \cup {seq} /\ Unacked(d) = Unacked(whc) \cup {seq}
    BY <1>1, <1>2, <2>4, <2>5, <2>6, InsertBook
  <2> HIDE DEF d
  <2>8. \A s \in Unacked(d) : s > whc.max_drop_seq
    BY <1>1, <2>7 DEF Book
  <2>9. Matched = {} => Unacked(d) = {}
    BY <1>1, <2>3, <2>7 DEF Book
  <2>10. ASSUME NoIndex PROVE OneRun(d, seq)
    <3>1. PICK r \in Matched : TRUE
      BY <1>5, <2>10 DEF NoIndex
    <3>2. seq > m
      BY <1>1, <2>2, <2>3, <3>1 DEF Matched
    <3>3. DOMAIN d.node = DOMAIN whc.node \cup {seq} /\ Unacked(d) = Unacked(whc) \cup {seq}
      BY <2>7, <2>10, <3>2 DEF NoIndex
    <3>4. OneRun(whc, wrseq)
      BY <2>10 DEF Book
    <3>5. Unacked(d) = DOMAIN d.node
      <4>1. Unacked(whc) = DOMAIN whc.node
        BY <3>4, Zenon DEF Unacked, OneRun
      <4> QED BY <3>3, <4>1
    <3>6. ASSUME NEW s \in DOMAIN d.node PROVE s..seq \subseteq DOMAIN d.node
      <4>1. CASE s = seq
        BY <1>1, <3>3, <4>1
      <4>2. CASE s \in DOMAIN whc.node
        <5>1. s..wrseq \subseteq DOMAIN whc.node /\ s \in 1..wrseq
          BY <1>2, <3>4, <4>2 DEF OneRun, Shape
        <5>2. s..seq = (s..wrseq) \cup {seq}
          BY <1>1, <5>1
        <5> QED BY <3>3, <5>1, <5>2
      <4> QED BY <3>3, <3>6, <4>1, <4>2
    <3>7. \A s \in DOMAIN d.node : d.node[s].unacked
      BY <3>5, Zenon DEF Unacked
    <3> QED BY <3>6, <3>7 DEF OneRun
  <2>11. whc.max_drop_seq \in 0..seq
    BY <1>1 DEF Book
  <2>12. \A r \in Matched' : whc.max_drop_seq <= rn'[r]
    BY <1>1 DEF Book
  <2> QED BY <1>1, <1>4, <2>1, <2>7, <2>8, <2>9, <2>10, <2>11, <2>12 DEF Book
<1>6. CASE ~(Matched # {} \/ whc.wrinfo.is_transient_local)
  <2>1. whc' = whc
    BY <1>6 DEF Insert
  <2>2. Unacked(whc) = {}
    BY <1>6 DEF Book
  <2>3. ASSUME NoIndex PROVE OneRun(whc, seq)
    <3>1. OneRun(whc, wrseq)
      BY <2>3 DEF Book
    <3>2. DOMAIN whc.node = {}
      BY <2>2, <3>1, Zenon DEF Unacked, OneRun
    <3> QED BY <3>2 DEF OneRun
  <2>4. whc.max_drop_seq \in 0..seq
    BY <1>1 DEF Book
  <2> QED BY <1>1, <1>4, <1>6, <2>1, <2>2, <2>3, <2>4 DEF Book
<1> QED BY <1>5, <1>6

LEMMA LoanKeepsBook ==
    ASSUME Types, Book, NEW s \in Stored, NEW b \in BOOLEAN,
           whc' = [whc EXCEPT !.node[s].borrowed = b], UNCHANGED <<rn, written>>
    PROVE  Book' /\ DOMAIN whc'.node = Stored /\ whc'.unacked_bytes = whc.unacked_bytes
<1> DEFINE d == [whc EXCEPT !.node[s].borrowed = b]
<1>1. s \in DOMAIN whc.node /\ Shape(whc, wrseq)
    BY DEF Stored, Types
<1>2. /\ d.wrinfo = whc.wrinfo /\ d.idx = whc.idx /\ d.max_drop_seq = whc.max_drop_seq
      /\ d.maxseq_node = whc.maxseq_node /\ d.unacked_bytes = whc.unacked_bytes
      /\ DOMAIN d.node = DOMAIN whc.node
      /\ \A t \in DOMAIN whc.node : t # s => d.node[t] = whc.node[t]
      /\ d.node[s] = [whc.node[s] EXCEPT !.borrowed = b]
    BY <1>1, LoanShape
<1>3. whc' = d
    OBVIOUS
<1> HIDE DEF d
<1>4. \A t \in DOMAIN whc.node : d.node[t].unacked = whc.node[t].unacked
  <2>1. d.node[s].unacked = whc.node[s].unacked
    <3>1. whc.node[s] \in Node
      BY <1>1 DEF Shape
    <3> QED BY <1>2, <3>1 DEF Node
  <2> QED BY <1>2, <2>1
<1>5. Unacked(d) = Unacked(whc)
    BY <1>2, <1>4, Zenon DEF Unacked
<1>6. Indexed(d) /\ Counted(d) /\ MaxKnown(d)
    BY <1>2, <1>5 DEF Book, Indexed, Positions, Counted, MaxKnown, FindMaxSeq
<1>7. OneRun(whc, wrseq) => OneRun(d, wrseq)
    BY <1>2, <1>4, Zenon DEF OneRun
<1>8. wrseq' = wrseq /\ Matched' = Matched
    BY DEF wrseq, Matched
<1>9. NoIndex' <=> NoIndex
    BY <1>2, <1>3 DEF NoIndex
<1>10. Book'
    BY <1>2, <1>3, <1>5, <1>6, <1>7, <1>8, <1>9 DEF Book
<1> QED BY <1>2, <1>3, <1>10 DEF Stored

LEMMA ExpiryKeepsBook ==
    ASSUME Types, Book, ~NoIndex, Expire
    PROVE  Book'
<1>1. PICK s : s = Min(Expirable)
    OBVIOUS
<1> DEFINE d == whc_delete(whc, {s})
           e == WithMaxSeq(d)
<1>2. Shape(whc, wrseq) /\ wrseq \in Nat /\ Indexed(whc) /\ Counted(whc)
    BY DEF Types, Book, wrseq
<1>3. s \in DOMAIN whc.node
  <2>1. Expirable \subseteq Nat /\ Expirable # {}
    BY <1>2 DEF Expire, Expirable, Shape
  <2> QED BY <1>1, <2>1, MinIsLeast DEF Expirable
<1>4. whc' = e /\ UNCHANGED <<written, rn>>
    BY <1>1 DEF Expire, Store
<1>5. /\ Shape(d, wrseq) /\ d.wrinfo = whc.wrinfo
      /\ DOMAIN d.node \subseteq DOMAIN whc.node
      /\ \A t \in DOMAIN d.node : d.node[t] = whc.node[t]
    BY <1>2, DeleteShape DEF Part
<1>6. Indexed(d) /\ Counted(d)
    BY <1>2, <1>3, DeleteBook
<1>7. d.max_drop_seq = whc.max_drop_seq
    BY <1>2, DeleteIs
<1> HIDE DEF d
<1>8. Unacked(d) \subseteq Unacked(whc)
    BY <1>5, Zenon DEF Unacked
<1>9. Indexed(e) /\ Counted(e) /\ MaxKnown(e) /\ Unacked(e) = Unacked(d)
    BY <1>5, <1>6, MaxSeqBook
<1>10. e.max_drop_seq = whc.max_drop_seq /\ e.wrinfo = whc.wrinfo
    BY <1>5, <1>7, MaxSeqShape DEF Part
<1> HIDE DEF e
<1>11. wrseq' = wrseq /\ Matched' = Matched /\ ~NoIndex'
    BY <1>4, <1>10 DEF wrseq, Matched, NoIndex
<1> QED BY <1>4, <1>8, <1>9, <1>10, <1>11 DEF Book

CountInv == Types /\ (NoHoles => Book)

LEMMA InitCount == Init => CountInv
<1> SUFFICES ASSUME Init PROVE Book
    BY InitTypes DEF CountInv
<1>1. PICK c \in Settings : lifespan = c.lifespan /\ whc = whc_new(c.wrinfo)
    BY DEF Init
<1>2. /\ whc.node = <<>> /\ whc.idx = <<>> /\ whc.max_drop_seq = 0 /\ whc.maxseq_node = 0
      /\ whc.unacked_bytes = 0
    BY <1>1 DEF whc_new
<1>3. wrseq = 0
    BY DEF Init, wrseq
<1>4. Unacked(whc) = {} /\ DOMAIN whc.node = {} /\ DOMAIN whc.idx = {} /\ Matched = {}
    BY <1>2 DEF Unacked, Init, Matched
<1>5. Counted(whc)
    BY <1>2, <1>4, FS_EmptySet DEF Counted
<1>6. MaxKnown(whc)
  <2>1. Shape(whc, 0)
    BY <1>3, InitTypes DEF Types
  <2> QED BY <1>2, <1>4, <2>1, MaxSeqIs DEF MaxKnown
<1>7. Indexed(whc)
    BY <1>2, <1>4 DEF Indexed
<1>8. OneRun(whc, wrseq)
    BY <1>4 DEF OneRun
<1> QED BY <1>2, <1>3, <1>4, <1>5, <1>6, <1>7, <1>8 DEF Book

\* The settings never change.
LEMMA SameSettings == Types /\ [Next]_vars => (NoHoles' <=> NoHoles)
<1> SUFFICES ASSUME Types, [Next]_vars PROVE NoHoles' <=> NoHoles
    OBVIOUS
<1>1. lifespan' = lifespan
    BY DEF Next, Write, Throttled, ThrottleTimeout, WaitForAcks, WaiterWakes, Ack, Borrow, Return,
           Expire, Match, Unmatch, vars
<1>2. whc'.wrinfo = whc.wrinfo
  <2>1. ASSUME NEW w \in Samples, Write(w) \/ Throttled(w)
        PROVE  whc'.wrinfo = whc.wrinfo
    BY <2>1, InsertTypes DEF Write, Throttled
  <2>2. ASSUME NEW f, remove_acked_messages(f)
        PROVE  whc'.wrinfo = whc.wrinfo
    BY <2>2, RemoveTypes DEF Part
  <2>3. CASE ThrottleTimeout \/ WaitForAcks \/ WaiterWakes \/ UNCHANGED vars
    BY <2>3 DEF ThrottleTimeout, WaitForAcks, WaiterWakes, vars
  <2>4. ASSUME NEW r \in Readers, NEW base \in 1..(MaxSeq + 1), Ack(r, base)
        PROVE  whc'.wrinfo = whc.wrinfo
    BY <2>2, <2>4 DEF Ack
  <2>5. ASSUME NEW s \in 1..MaxSeq, Borrow(s)
        PROVE  whc'.wrinfo = whc.wrinfo
    BY <2>5 DEF Borrow, Types, Shape
  <2>6. CASE Return
    BY <2>6 DEF Return, Types, Shape
  <2>7. CASE Expire
    BY <2>7 DEF Expire, Store, Types, Shape, WithMaxSeq, whc_delete
  <2>8. ASSUME NEW r \in Readers, Match(r)
        PROVE  whc'.wrinfo = whc.wrinfo
    BY <2>8 DEF Match
  <2>9. ASSUME NEW r \in Readers, Unmatch(r)
        PROVE  whc'.wrinfo = whc.wrinfo
    BY <2>2, <2>9 DEF Unmatch
  <2> QED BY <2>1, <2>3, <2>4, <2>5, <2>6, <2>7, <2>8, <2>9 DEF Next
<1> QED BY <1>1, <1>2 DEF NoHoles, NoIndex

LEMMA NextCount == CountInv /\ [Next]_vars => CountInv'
<1> SUFFICES ASSUME Types, NoHoles, Book, [Next]_vars
             PROVE  Book'
    BY NextTypes, SameSettings DEF CountInv
<1>0. wrseq \in Nat /\ rn \in [Matched -> 0..wrseq]
    BY DEF Types, wrseq
<1>1. ASSUME UNCHANGED <<whc, rn, written>>
      PROVE  Book'
    BY <1>1 DEF Book, Matched, wrseq, NoIndex
<1>2. ASSUME NEW w \in Samples, Write(w) \/ Throttled(w)
      PROVE  Book'
    BY <1>1, <1>2, InsertKeepsBook DEF Write, Throttled
<1>3. CASE ThrottleTimeout \/ WaitForAcks \/ WaiterWakes \/ UNCHANGED vars
    BY <1>1, <1>3 DEF ThrottleTimeout, WaitForAcks, WaiterWakes, vars
<1>4. ASSUME NEW r \in Readers, NEW base \in 1..(MaxSeq + 1), Ack(r, base)
      PROVE  Book'
  <2>1. base - 1 \in Nat /\ base - 1 > rn[r] /\ r \in Matched
    BY <1>4, HistoryAssumption DEF Ack
  <2> DEFINE x == Min({base - 1, wrseq})
             f == [rn EXCEPT ![r] = x]
  <2>2. x \in 0..wrseq /\ x \in {base - 1, wrseq}
    BY <1>0, <2>1, MinIsLeast
  <2>3. rn' = f /\ written' = written /\ remove_acked_messages(f)
    BY <1>4 DEF Ack
  <2> HIDE DEF x
  <2>4. f \in [DOMAIN f -> 0..wrseq]
    BY <1>0, <2>2
  <2>5. \A q \in DOMAIN f : whc.max_drop_seq <= f[q]
    <3>1. whc.max_drop_seq \in 0..wrseq /\ rn[r] \in 0..wrseq /\ \A q \in Matched : whc.max_drop_seq <= rn[q]
      BY <1>0, <2>1 DEF Book
    <3>2. whc.max_drop_seq <= x
      BY <1>0, <2>1, <2>2, <3>1
    <3> QED BY <1>0, <2>1, <3>1, <3>2 DEF Matched
  <2> HIDE DEF f
  <2> QED BY <2>3, <2>4, <2>5, RemoveKeepsBook
<1>5. ASSUME NEW s \in 1..MaxSeq, Borrow(s)
      PROVE  Book'
    BY <1>5, LoanKeepsBook DEF Borrow, Stored
<1>6. CASE Return
  <2>1. CASE lent \notin DOMAIN whc.node
    BY <1>1, <1>6, <2>1 DEF Return
  <2>2. CASE lent \in DOMAIN whc.node
    <3>1. PICK s : s = lent
      OBVIOUS
    <3>2. s \in Stored /\ whc' = [whc EXCEPT !.node[s].borrowed = FALSE] /\ UNCHANGED <<rn, written>>
      BY <1>6, <2>2, <3>1 DEF Return, Stored
    <3> QED BY <3>2, LoanKeepsBook
  <2> QED BY <2>1, <2>2
<1>7. CASE Expire
    BY <1>7, ExpiryKeepsBook DEF Expire, NoHoles
<1>8. ASSUME NEW r \in Readers, Match(r)
      PROVE  Book'
  <2>1. whc' = whc /\ wrseq' = wrseq /\ r \notin Matched /\ rn' = Bind(rn, r, wrseq)
    BY <1>8 DEF Match, wrseq
  <2>2. Matched' = Matched \cup {r} /\ \A q \in Matched' : rn'[q] = IF q = r THEN wrseq ELSE rn[q]
    BY <2>1 DEF Bind, Matched
  <2>3. \A q \in Matched' : whc.max_drop_seq <= rn'[q]
    BY <1>0, <2>2 DEF Book
  <2>4. NoIndex' <=> NoIndex
    BY <2>1 DEF NoIndex
  <2> QED BY <2>1, <2>2, <2>3, <2>4 DEF Book
<1>9. ASSUME NEW r \in Readers, Unmatch(r)
      PROVE  Book'
  <2> DEFINE f == Restrict(rn, Matched \ {r})
  <2>1. rn' = f /\ written' = written /\ remove_acked_messages(f)
    BY <1>9 DEF Unmatch
  <2>2. f \in [DOMAIN f -> 0..wrseq] /\ \A q \in DOMAIN f : whc.max_drop_seq <= f[q]
    BY <1>0 DEF Restrict, Book
  <2> HIDE DEF f
  <2> QED BY <2>1, <2>2, RemoveKeepsBook
<1> QED BY <1>2, <1>3, <1>4, <1>5, <1>6, <1>7, <1>8, <1>9 DEF Next

LEMMA BookAgrees == Book => CountsAgree
BY DEF Book, CountsAgree, MaxKnown, Counted, Unacked, Stored

\* The byte count that throttles the writer and the highest number that its
\* heartbeats announce agree with the contents of the cache after any sequence
\* of writes, acknowledgements, expiries and departures.  The settings for which
\* whc_remove_acked_messages_noidx can meet a hole are excluded.
THEOREM CountsAreRight == Spec => [](NoHoles => CountsAgree)
<1>1. Init => CountInv
    BY InitCount
<1>2. CountInv /\ [Next]_vars => CountInv'
    BY NextCount
<1>3. CountInv => (NoHoles => CountsAgree)
    BY BookAgrees DEF CountInv
<1> QED BY <1>1, <1>2, <1>3, PTL DEF Spec
----------------------------------------------------------------------------
\* The parts of NoLostWakeup, and with them the counts they are about.
WriterSignalled == throttling /\ writer_may_continue /\ ~lifespan => "writer" \in signalled
WaiterSignalled == waiter # 0 /\ waiter <= MaxDropSeq(rn, wrseq) => "waiter" \in signalled
WakeInv == CountInv /\ WriterSignalled /\ WaiterSignalled

\* An empty cache has no unacked bytes: get_state_locked need not look.
LEMMA UnackedBytes ==
    ASSUME Types, Book
    PROVE  whc_state(whc).unacked_bytes = whc.unacked_bytes /\ whc.unacked_bytes \in Nat
<1>1. wrseq \in Nat /\ Shape(whc, wrseq)
    BY DEF Types, wrseq
<1>2. whc.unacked_bytes \in Nat
    BY <1>1, FiniteNodes DEF Book, Counted
<1>3. CASE DOMAIN whc.node = {}
  <2>1. Unacked(whc) = {}
    BY <1>3 DEF Unacked
  <2>2. whc.unacked_bytes = 0
    BY <2>1, FS_EmptySet DEF Book, Counted
  <2> QED BY <1>3, <2>2 DEF whc_state
<1>4. CASE DOMAIN whc.node # {}
    BY <1>2, <1>4 DEF whc_state
<1> QED BY <1>3, <1>4

LEMMA InitWake == Init => WakeInv
<1> SUFFICES ASSUME Init PROVE WakeInv
    OBVIOUS
<1> QED BY InitCount DEF Init, WakeInv, WriterSignalled, WaiterSignalled

LEMMA NextWake == WakeInv /\ [Next]_vars => WakeInv'
<1> SUFFICES ASSUME CountInv, WriterSignalled, WaiterSignalled, [Next]_vars
             PROVE  WriterSignalled' /\ WaiterSignalled'
    BY NextCount DEF WakeInv
<1>0. Types /\ wrseq \in Nat /\ rn \in [DOMAIN rn -> 0..wrseq] /\ waiter \in 0..wrseq
    BY DEF CountInv, Types, wrseq, Matched
<1>1. ~lifespan => Book
    BY DEF CountInv, NoHoles
<1>2. ASSUME UNCHANGED <<lifespan, whc, retransmitting>>, throttling' => throttling,
             "writer" \in signalled => "writer" \in signalled'
      PROVE  WriterSignalled'
    BY <1>2 DEF WriterSignalled, writer_may_continue
<1>3. ASSUME UNCHANGED <<rn, written>>, waiter' \in {0, waiter}, "waiter" \in signalled => "waiter" \in signalled'
      PROVE  WaiterSignalled'
    BY <1>3 DEF WaiterSignalled, wrseq
<1>4. ASSUME NEW w \in Samples, Insert(w), UNCHANGED <<rn, waiter>>,
             "waiter" \in signalled => "waiter" \in signalled'
      PROVE  WaiterSignalled'
  <2>1. wrseq' = wrseq + 1
    BY <1>0, <1>4, InsertTypes
  <2>2. CASE DOMAIN rn = {}
    BY <1>0, <1>4, <2>2 DEF WaiterSignalled, MaxDropSeq
  <2>3. CASE DOMAIN rn # {}
    BY <1>4, <2>3 DEF WaiterSignalled, MaxDropSeq
  <2> QED BY <2>2, <2>3
<1>5. ASSUME NEW w \in Samples, Write(w)
      PROVE  WriterSignalled' /\ WaiterSignalled'
  <2>1. CASE whc_state(whc).unacked_bytes > whc_high
    <3>1. WaiterSignalled'
      BY <1>3, <1>5, <2>1 DEF Write
    <3>2. ASSUME ~lifespan PROVE ~writer_may_continue
      BY <1>0, <1>1, <2>1, <3>2, UnackedBytes, HistoryAssumption DEF writer_may_continue
    <3>3. WriterSignalled'
      BY <1>5, <2>1, <3>2 DEF Write, WriterSignalled, writer_may_continue
    <3> QED BY <3>1, <3>3
  <2>2. CASE ~(whc_state(whc).unacked_bytes > whc_high)
    <3>1. ~throttling' /\ Insert(w) /\ UNCHANGED <<rn, waiter, signalled>>
      BY <1>5, <2>2 DEF Write
    <3> QED BY <1>4, <3>1 DEF WriterSignalled
  <2> QED BY <2>1, <2>2
<1>6. ASSUME NEW w \in Samples, Throttled(w)
      PROVE  WriterSignalled' /\ WaiterSignalled'
  <2>1. "waiter" \in signalled => "waiter" \in signalled'
    BY <1>6 DEF Throttled
  <2>2. CASE writer_may_continue
    <3>1. ~throttling' /\ Insert(w) /\ UNCHANGED <<rn, waiter>>
      BY <1>6, <2>2 DEF Throttled
    <3> QED BY <1>4, <2>1, <3>1 DEF WriterSignalled
  <2>3. CASE ~writer_may_continue
    <3>1. UNCHANGED <<whc, retransmitting, rn, written, waiter>>
      BY <1>6, <2>3 DEF Throttled
    <3>2. ~writer_may_continue'
      BY <2>3, <3>1 DEF writer_may_continue
    <3> QED BY <1>3, <2>1, <3>1, <3>2 DEF WriterSignalled
  <2> QED BY <2>2, <2>3
<1>7. CASE ThrottleTimeout
  <2>1. WriterSignalled'
    BY <1>7 DEF ThrottleTimeout, WriterSignalled
  <2>2. WaiterSignalled'
    BY <1>3, <1>7 DEF ThrottleTimeout
  <2> QED BY <2>1, <2>2
<1>8. CASE WaitForAcks
  <2>1. WriterSignalled'
    BY <1>2, <1>8 DEF WaitForAcks
  <2>2. MaxDropSeq(rn, wrseq) \in 0..wrseq
    BY <1>0, AckedTo
  <2>3. WaiterSignalled'
    BY <1>0, <1>8, <2>2 DEF WaitForAcks, WaiterSignalled, wrseq
  <2> QED BY <2>1, <2>3
<1>9. CASE WaiterWakes
  <2>1. WriterSignalled'
    BY <1>2, <1>9 DEF WaiterWakes
  <2>2. MaxDropSeq(rn, wrseq) \in 0..wrseq
    BY <1>0, AckedTo
  <2>3. WaiterSignalled'
    BY <1>0, <1>9, <2>2 DEF WaiterWakes, WaiterSignalled, wrseq
  <2> QED BY <2>1, <2>3
<1>10. ASSUME NEW f, remove_acked_messages(f), UNCHANGED <<throttling, waiter>>
       PROVE  WriterSignalled' /\ WaiterSignalled'
    BY <1>10 DEF remove_acked_messages, WriterSignalled, WaiterSignalled
<1>11. ASSUME NEW r \in Readers, NEW base \in 1..(MaxSeq + 1), Ack(r, base)
       PROVE  WriterSignalled' /\ WaiterSignalled'
    BY <1>10, <1>11 DEF Ack
<1>12. ASSUME NEW s \in 1..MaxSeq, Borrow(s)
       PROVE  WriterSignalled' /\ WaiterSignalled'
  <2>1. WaiterSignalled'
    BY <1>3, <1>12 DEF Borrow
  <2>2. ASSUME ~lifespan PROVE WriterSignalled'
    <3>1. DOMAIN whc'.node = Stored /\ whc'.unacked_bytes = whc.unacked_bytes
      BY <1>0, <1>1, <1>12, <2>2, LoanKeepsBook DEF Borrow, Stored
    <3>2. whc_state(whc)'.unacked_bytes = whc_state(whc).unacked_bytes
      BY <3>1 DEF whc_state, Stored
    <3>3. throttling' = throttling /\ signalled' = signalled /\ lifespan' = lifespan
          /\ (retransmitting => retransmitting')
      BY <1>12 DEF Borrow
    <3> QED BY <3>2, <3>3 DEF WriterSignalled, writer_may_continue
  <2>3. ASSUME lifespan PROVE WriterSignalled'
    BY <1>12, <2>3 DEF Borrow, WriterSignalled
  <2> QED BY <2>1, <2>2, <2>3
<1>13. CASE Return
  <2>1. WaiterSignalled'
    BY <1>3, <1>13 DEF Return
  <2>2. CASE lent \notin DOMAIN whc.node
    BY <1>2, <1>13, <2>1, <2>2 DEF Return
  <2>3. CASE lent \in DOMAIN whc.node /\ ~lifespan
    <3>0. PICK s : s = lent
      OBVIOUS
    <3>1. s \in Stored /\ whc' = [whc EXCEPT !.node[s].borrowed = FALSE] /\ UNCHANGED <<rn, written>>
      BY <1>13, <2>3, <3>0 DEF Return, Stored
    <3>2. DOMAIN whc'.node = Stored /\ whc'.unacked_bytes = whc.unacked_bytes
      BY <1>0, <1>1, <2>3, <3>1, LoanKeepsBook
    <3>3. whc_state(whc)'.unacked_bytes = whc_state(whc).unacked_bytes
      BY <3>2 DEF whc_state, Stored
    <3>4. UNCHANGED <<throttling, signalled, lifespan, retransmitting>>
      BY <1>13 DEF Return
    <3> QED BY <2>1, <3>3, <3>4 DEF WriterSignalled, writer_may_continue
  <2>4. CASE lifespan
    BY <1>13, <2>1, <2>4 DEF Return, WriterSignalled
  <2> QED BY <2>2, <2>3, <2>4
<1>14. CASE Expire
  <2>1. WaiterSignalled'
    BY <1>3, <1>14 DEF Expire
  <2>2. WriterSignalled'
    BY <1>14 DEF Expire, WriterSignalled
  <2> QED BY <2>1, <2>2
<1>15. ASSUME NEW r \in Readers, Match(r)
       PROVE  WriterSignalled' /\ WaiterSignalled'
  <2>1. WriterSignalled'
    BY <1>2, <1>15 DEF Match
  <2>2. rn' = Bind(rn, r, wrseq) /\ wrseq' = wrseq /\ waiter' = waiter /\ signalled' = signalled
        /\ r \notin DOMAIN rn
    BY <1>15 DEF Match, wrseq, Matched
  <2>3. DOMAIN rn' = DOMAIN rn \cup {r} /\ \A q \in DOMAIN rn : rn'[q] = rn[q]
    BY <2>2 DEF Bind
  <2>4. rn' \in [DOMAIN rn' -> 0..wrseq]
    BY <1>0, <2>2 DEF Bind
  <2>5. MaxDropSeq(rn', wrseq) \in 0..wrseq /\ MaxDropSeq(rn, wrseq) \in 0..wrseq
    BY <1>0, <2>4, AckedTo
  <2>6. MaxDropSeq(rn', wrseq) <= MaxDropSeq(rn, wrseq)
    <3>1. CASE DOMAIN rn = {}
      <4>1. MaxDropSeq(rn, wrseq) = wrseq
        BY <3>1 DEF MaxDropSeq
      <4> QED BY <1>0, <2>5, <4>1
    <3>2. CASE DOMAIN rn # {}
      <4>1. PICK q \in DOMAIN rn : MaxDropSeq(rn, wrseq) = rn[q]
        BY <1>0, <3>2, AckedTo
      <4>2. MaxDropSeq(rn', wrseq) <= rn'[q]
        BY <1>0, <2>3, <2>4, AckedTo
      <4> QED BY <2>3, <4>1, <4>2
    <3> QED BY <3>1, <3>2
  <2>7. WaiterSignalled'
    BY <1>0, <2>2, <2>5, <2>6 DEF WaiterSignalled
  <2> QED BY <2>1, <2>7
<1>16. ASSUME NEW r \in Readers, Unmatch(r)
       PROVE  WriterSignalled' /\ WaiterSignalled'
    BY <1>10, <1>16 DEF Unmatch
<1>17. CASE UNCHANGED vars
    BY <1>2, <1>3, <1>17 DEF vars
<1> QED BY <1>5, <1>6, <1>7, <1>8, <1>9, <1>11, <1>12, <1>13, <1>14, <1>15, <1>16, <1>17 DEF Next

\* throttle_writer and ddsi_writer_wait_for_acks sleep on one condition
\* variable; whichever of acknowledgement and departure of a reader makes a
\* sleeper's condition true also broadcasts, for any watermarks and readers.
\* The throttled writer is left out where samples have a lifespan: an expiry
\* makes its condition true and wakes nobody.
THEOREM WriterSleepsOverNothing == Spec => []NoLostWakeup
<1>1. Init => WakeInv
    BY InitWake
<1>2. WakeInv /\ [Next]_vars => WakeInv'
    BY NextWake
<1>3. WakeInv => NoLostWakeup
    BY DEF WakeInv, NoLostWakeup, WriterSignalled, WaiterSignalled
<1> QED BY <1>1, <1>2, <1>3, PTL DEF Spec

----------------------------------------------------------------------------
(***************************************************************************)
(* What the writer history cache keeps: all that a reader still has to     *)
(* acknowledge, all that late joiners are promised, and no more.  The ring *)
(* of an instance is a circular array with null entries; the argument is   *)
(* that a sample's place in it is the number of its younger siblings.      *)
(***************************************************************************)

\* Samples of the same instance written after s, the unregisters among them,
\* and their number.
Later(W, s) == {t \in (s + 1)..Len(W) : W[t].key = W[s].key}
Unreg(W, s) == {t \in Later(W, s) : W[t].kind = "unregister"}
Younger(W, s) == Cardinality(Later(W, s))

LEMMA LaterFinite ==
    ASSUME NEW W \in Seq(Samples), NEW s \in 1..Len(W)
    PROVE  IsFiniteSet(Later(W, s)) /\ Younger(W, s) \in Nat
<1>1. Len(W) \in Nat
    OBVIOUS
<1>2. IsFiniteSet((s + 1)..Len(W))
    BY <1>1, FS_Interval
<1>3. Later(W, s) \in SUBSET ((s + 1)..Len(W))
    BY DEF Later
<1>4. IsFiniteSet(Later(W, s))
    BY <1>2, <1>3, FS_Subset
<1> QED BY <1>4, FS_CardinalityType DEF Younger

\* Writing makes every older sample of the instance one older.
LEMMA LaterAppended ==
    ASSUME NEW W \in Seq(Samples), NEW x \in Samples, NEW s \in 1..Len(W),
           NEW n, n = Len(W) + 1
    PROVE  /\ Later(Append(W, x), s) = Later(W, s) \cup (IF x.key = W[s].key THEN {n} ELSE {})
           /\ Unreg(Append(W, x), s) =
                 Unreg(W, s) \cup (IF x.key = W[s].key /\ x.kind = "unregister" THEN {n} ELSE {})
           /\ Younger(Append(W, x), s) = Younger(W, s) + IF x.key = W[s].key THEN 1 ELSE 0
<1> DEFINE V == Append(W, x)
<1>1. /\ Len(W) \in Nat /\ Len(V) = n
      /\ \A t \in 1..Len(W) : V[t] = W[t]
      /\ V[n] = x
    OBVIOUS
<1> HIDE DEF V
<1>2. Later(V, s) = Later(W, s) \cup (IF x.key = W[s].key THEN {n} ELSE {})
  <2>1. (s + 1)..n = ((s + 1)..Len(W)) \cup {n}
    BY <1>1
  <2>2. \A t \in (s + 1)..Len(W) : V[t] = W[t]
    BY <1>1
  <2>3. V[s] = W[s]
    BY <1>1
  <2>4. CASE x.key = W[s].key
    BY <1>1, <2>1, <2>2, <2>3, <2>4 DEF Later
  <2>5. CASE x.key # W[s].key
    BY <1>1, <2>1, <2>2, <2>3, <2>5 DEF Later
  <2> QED BY <2>4, <2>5
<1>3. \A t \in Later(W, s) : V[t] = W[t] /\ t # n
    BY <1>1 DEF Later
<1>4. Unreg(V, s) = Unreg(W, s) \cup (IF x.key = W[s].key /\ x.kind = "unregister" THEN {n} ELSE {})
  <2>1. CASE x.key = W[s].key
    <3>1. CASE x.kind = "unregister"
      BY <1>1, <1>2, <1>3, <2>1, <3>1 DEF Unreg
    <3>2. CASE x.kind # "unregister"
      BY <1>1, <1>2, <1>3, <2>1, <3>2 DEF Unreg
    <3> QED BY <3>1, <3>2
  <2>2. CASE x.key # W[s].key
    BY <1>1, <1>2, <1>3, <2>2 DEF Unreg
  <2> QED BY <2>1, <2>2
<1>5. Younger(V, s) = Younger(W, s) + IF x.key = W[s].key THEN 1 ELSE 0
  <2>1. IsFiniteSet(Later(W, s)) /\ Younger(W, s) \in Nat /\ n \notin Later(W, s)
    BY <1>3, LaterFinite
  <2>2. Cardinality(Later(W, s) \cup {n}) = Cardinality(Later(W, s)) + 1
    BY <2>1, FS_AddElement
  <2>3. CASE x.key = W[s].key
    BY <1>2, <2>2, <2>3 DEF Younger
  <2>4. CASE x.key # W[s].key
    BY <1>2, <2>1, <2>4 DEF Younger
  <2> QED BY <2>3, <2>4
<1> QED BY <1>2, <1>4, <1>5 DEF V

LEMMA LaterOfLast ==
    ASSUME NEW W \in Seq(Samples), NEW x \in Samples, NEW n, n = Len(W) + 1
    PROVE  /\ Later(Append(W, x), n) = {} /\ Unreg(Append(W, x), n) = {}
           /\ Younger(Append(W, x), n) = 0
           /\ Append(W, x)[n] = x
<1>1. Len(Append(W, x)) = n /\ n \in Nat /\ Append(W, x)[n] = x
    OBVIOUS
<1>2. Later(Append(W, x), n) = {}
    BY <1>1 DEF Later
<1>3. Unreg(Append(W, x), n) = {}
    BY <1>2 DEF Unreg
<1> QED BY <1>1, <1>2, <1>3, FS_EmptySet DEF Younger

LEMMA YoungerIsLater ==
    ASSUME NEW W \in Seq(Samples), NEW s \in 1..Len(W), NEW t \in 1..Len(W),
           W[s].key = W[t].key, Younger(W, s) < Younger(W, t)
    PROVE  t < s
<1> SUFFICES ASSUME s <= t PROVE FALSE
    OBVIOUS
<1>1. Later(W, t) \subseteq Later(W, s)
    BY DEF Later
<1>2. Younger(W, t) <= Younger(W, s)
    BY <1>1, LaterFinite, FS_Subset DEF Younger
<1> QED BY <1>2, LaterFinite

\* Arithmetic of the circular array.
LEMMA ModBack ==
    ASSUME NEW d \in Nat, NEW a \in 0..(d - 1), NEW p \in 0..(d - 1)
    PROVE  (a - p) % d = IF p <= a THEN a - p ELSE a - p + d
OBVIOUS

LEMMA ModNext ==
    ASSUME NEW d \in Nat, NEW a \in 0..(d - 1)
    PROVE  (a + 1) % d = IF a = d - 1 THEN 0 ELSE a + 1
OBVIOUS

LEMMA ModAround ==
    ASSUME NEW d \in Nat, NEW a \in 0..(d - 1), NEW j \in 1..(d - 1)
    PROVE  (a - ((a + j) % d)) % d = d - j
<1>1. (a + j) % d = IF a + j < d THEN a + j ELSE a + j - d
    OBVIOUS
<1>2. (a + j) % d \in 0..(d - 1)
    BY <1>1
<1> QED BY <1>1, <1>2, ModBack

LEMMA ModUnique ==
    ASSUME NEW d \in Nat, NEW a \in 0..(d - 1), NEW p \in 0..(d - 1), NEW q \in 0..(d - 1),
           (a - p) % d = (a - q) % d
    PROVE  p = q
<1>1. (a - p) % d = IF p <= a THEN a - p ELSE a - p + d
    BY ModBack
<1>2. (a - q) % d = IF q <= a THEN a - q ELSE a - q + d
    BY ModBack
<1> QED BY <1>1, <1>2
----------------------------------------------------------------------------
\* A sample that its instance's index may hold: data or a disposal, and the
\* instance was not unregistered since.
Plain(W, s) == W[s].kind # "unregister" /\ Unreg(W, s) = {}

\* The ring of an instance holds each sample as many places behind the head as
\* there are younger samples of the instance.
HeadsIn(w) == \A k \in DOMAIN w.idx : w.wrinfo.idxdepth > 0 => w.idx[k].headidx \in Positions(w)

InPlace(w, W) ==
    \A k \in DOMAIN w.idx : \A p \in Positions(w) : w.idx[k].hist[p] # 0 =>
        /\ W[w.idx[k].hist[p]].key = k /\ Plain(W, w.idx[k].hist[p])
        /\ Younger(W, w.idx[k].hist[p]) = (w.idx[k].headidx - p) % w.wrinfo.idxdepth

Listed(w, W, s) ==
    W[s].key \in DOMAIN w.idx /\ \E p \in Positions(w) : w.idx[W[s].key].hist[p] = s

\* And what is young enough to have a place in the ring has it.
Ringed(w, W) ==
    /\ HeadsIn(w) /\ InPlace(w, W)
    /\ \A s \in DOMAIN w.node :
          /\ w.node[s].key = W[s].key
          /\ Plain(W, s) /\ Younger(W, s) < w.wrinfo.idxdepth => Listed(w, W, s)

LEMMA SameRing ==
    ASSUME NEW v, NEW w, NEW W, Ringed(w, W), Part(v, w), v.idx = w.idx
    PROVE  Ringed(v, W)
BY DEF Ringed, HeadsIn, InPlace, Listed, Positions, Part

LEMMA DeleteRing ==
    ASSUME NEW w, NEW n \in Nat, Shape(w, n), Indexed(w), Counted(w), NEW W, Ringed(w, W),
           NEW seqs, seqs \subseteq DOMAIN w.node
    PROVE  Ringed(whc_delete(w, seqs), W)
<1> DEFINE d == whc_delete(w, seqs)
<1>1. /\ d.wrinfo = w.wrinfo
      /\ DOMAIN d.node = DOMAIN w.node \ seqs
      /\ \A s \in DOMAIN d.node : d.node[s] = w.node[s]
    BY DeleteShape DEF Part
<1>2. /\ DOMAIN d.idx = DOMAIN w.idx
      /\ \A k \in DOMAIN w.idx :
            /\ d.idx[k].headidx = w.idx[k].headidx
            /\ \A p \in Positions(w) :
                  d.idx[k].hist[p] = IF w.idx[k].hist[p] \in seqs THEN 0 ELSE w.idx[k].hist[p]
    BY DeleteBook
<1> HIDE DEF d
<1>3. Positions(d) = Positions(w)
    BY <1>1 DEF Positions
<1>4. HeadsIn(d)
    BY <1>1, <1>2, <1>3 DEF Ringed, HeadsIn
<1>5. InPlace(d, W)
  <2> SUFFICES ASSUME NEW k \in DOMAIN d.idx, NEW p \in Positions(d), d.idx[k].hist[p] # 0
               PROVE  /\ W[d.idx[k].hist[p]].key = k /\ Plain(W, d.idx[k].hist[p])
                      /\ Younger(W, d.idx[k].hist[p]) = (d.idx[k].headidx - p) % d.wrinfo.idxdepth
    BY DEF InPlace
  <2>1. k \in DOMAIN w.idx /\ p \in Positions(w) /\ d.idx[k].hist[p] = w.idx[k].hist[p]
    BY <1>2, <1>3
  <2>2. d.idx[k].headidx = w.idx[k].headidx
    BY <1>2
  <2> QED BY <1>1, <2>1, <2>2 DEF Ringed, InPlace
<1>6. ASSUME NEW s \in DOMAIN d.node
      PROVE  /\ d.node[s].key = W[s].key
             /\ Plain(W, s) /\ Younger(W, s) < d.wrinfo.idxdepth => Listed(d, W, s)
  <2>1. s \in DOMAIN w.node /\ s \notin seqs /\ d.node[s] = w.node[s]
    BY <1>1, <1>6
  <2>2. ASSUME Plain(W, s), Younger(W, s) < d.wrinfo.idxdepth
        PROVE  Listed(d, W, s)
    <3>1. Listed(w, W, s)
      BY <1>1, <2>1, <2>2 DEF Ringed
    <3> QED BY <1>2, <1>3, <2>1, <3>1 DEF Listed
  <2> QED BY <2>1, <2>2 DEF Ringed
<1> QED BY <1>4, <1>5, <1>6 DEF Ringed, d

LEMMA ClearRing ==
    ASSUME NEW w, NEW n \in Nat, Shape(w, n), NEW W, Ringed(w, W), NEW seqs
    PROVE  Ringed(ClearUnacked(w, seqs), W)
<1> DEFINE d == ClearUnacked(w, seqs)
<1>1. d.idx = w.idx
    BY DEF ClearUnacked, Shape
<1>2. Part(d, w)
    BY ClearShape
<1> QED BY <1>1, <1>2, SameRing

LEMMA MaxSeqRing ==
    ASSUME NEW w, NEW n, Shape(w, n), NEW W, Ringed(w, W)
    PROVE  Ringed(WithMaxSeq(w), W)
BY MaxSeqShape, SameRing

LEMMA DropSeqRing ==
    ASSUME NEW w, NEW n, Shape(w, n), NEW W, Ringed(w, W), NEW m
    PROVE  Ringed([w EXCEPT !.max_drop_seq = m], W)
BY DropSeqShape, SameRing

\* Hence the places beyond tldepth hold the samples that tldepth or more others
\* follow, and no others; and whcn_in_tlidx asks for the rest.
LEMMA BeyondIs ==
    ASSUME NEW w, Indexed(w), w.wrinfo \in Infos, NEW W, Ringed(w, W), NEW k \in DOMAIN w.idx,
           w.wrinfo.tldepth > 0, w.wrinfo.idxdepth > w.wrinfo.tldepth, NEW s \in BeyondTl(w, k)
    PROVE  /\ s \in DOMAIN w.node /\ W[s].key = k
           /\ Younger(W, s) >= w.wrinfo.tldepth
<1> DEFINE depth == w.wrinfo.idxdepth
           tl == w.wrinfo.tldepth
           head == w.idx[k].headidx
<1>1. PICK i \in 1..(depth - tl) : s = w.idx[k].hist[(head + i) % depth] /\ s # 0
    BY Zenon DEF BeyondTl
<1>2. depth \in Nat /\ tl \in Nat
    BY DEF Infos
<1>3. head \in 0..(depth - 1)
    BY <1>2 DEF Ringed, HeadsIn, Positions
<1>4. i \in 1..(depth - 1) /\ depth - i >= tl
    BY <1>2
<1>5. (head - ((head + i) % depth)) % depth = depth - i
    BY <1>2, <1>3, <1>4, ModAround
<1>6. (head + i) % depth \in Positions(w)
    BY <1>2, <1>3, <1>4, ModRange DEF Positions
<1>7. s \in DOMAIN w.node
    BY <1>1, <1>6 DEF Indexed
<1>8. W[s].key = k /\ Younger(W, s) = (head - ((head + i) % depth)) % depth
    BY <1>1, <1>6 DEF Ringed, InPlace
<1> QED BY <1>4, <1>5, <1>7, <1>8

LEMMA InBeyond ==
    ASSUME NEW w, Indexed(w), w.wrinfo \in Infos, NEW W, Ringed(w, W), w.wrinfo.tldepth > 0,
           NEW s \in DOMAIN w.node, s # 0, Plain(W, s), Younger(W, s) \in Nat,
           w.wrinfo.tldepth <= Younger(W, s), Younger(W, s) < w.wrinfo.idxdepth
    PROVE  W[s].key \in DOMAIN w.idx /\ s \in BeyondTl(w, W[s].key)
<1> DEFINE depth == w.wrinfo.idxdepth
           tl == w.wrinfo.tldepth
           k == W[s].key
           head == w.idx[k].headidx
           i == depth - Younger(W, s)
           q == (head + i) % depth
<1>1. depth \in Nat /\ tl \in Nat
    BY DEF Infos
<1>2. Listed(w, W, s)
    BY DEF Ringed
<1>3. k \in DOMAIN w.idx
    BY <1>2 DEF Listed
<1>4. PICK p \in Positions(w) : w.idx[k].hist[p] = s
    BY <1>2 DEF Listed
<1>5. Younger(W, s) = (head - p) % depth
    BY <1>3, <1>4 DEF Ringed, InPlace
<1>6. head \in 0..(depth - 1) /\ p \in 0..(depth - 1)
    BY <1>1, <1>3 DEF Ringed, HeadsIn, Positions
<1>7. i \in 1..(depth - 1) /\ i \in 1..(depth - tl) /\ depth - i = Younger(W, s)
    BY <1>1
<1> HIDE DEF i, head, depth
<1>8. (head - q) % depth = depth - i
    BY <1>1, <1>6, <1>7, ModAround
<1>9. q \in 0..(depth - 1)
    BY <1>1, <1>6, <1>7, ModRange
<1>10. p = q
  <2> HIDE DEF q
  <2> QED BY <1>1, <1>5, <1>6, <1>7, <1>8, <1>9, ModUnique
<1>11. s = w.idx[k].hist[(head + i) % depth]
    BY <1>4, <1>10
<1> QED BY <1>3, <1>7, <1>11, Zenon DEF BeyondTl, head, depth, tl

LEMMA InTlIs ==
    ASSUME NEW w, Indexed(w), w.wrinfo \in Infos, NEW W \in Seq(Samples), Shape(w, Len(W)),
           Ringed(w, W), NEW s \in DOMAIN w.node
    PROVE  /\ whcn_in_tlidx(w, s) =>
                 W[s].key \in DOMAIN w.idx /\ Plain(W, s) /\ Younger(W, s) < w.wrinfo.tldepth
           /\ Plain(W, s) /\ Younger(W, s) < w.wrinfo.tldepth => whcn_in_tlidx(w, s)
<1>0. s \in 1..Len(W) /\ Younger(W, s) \in Nat /\ s # 0
    BY LaterFinite DEF Shape
<1>1. w.node[s].key = W[s].key
    BY DEF Ringed
<1>2. \A k \in DOMAIN w.idx : DOMAIN w.idx[k].hist = Positions(w)
    BY DEF Indexed
<1>3. ASSUME whcn_in_tlidx(w, s)
      PROVE  W[s].key \in DOMAIN w.idx /\ Plain(W, s) /\ Younger(W, s) < w.wrinfo.tldepth
  <2> DEFINE k == W[s].key
  <2>1. PICK p \in DOMAIN w.idx[k].hist :
           w.idx[k].hist[p] = s /\ (w.idx[k].headidx - p) % w.wrinfo.idxdepth < w.wrinfo.tldepth
    BY <1>1, <1>3 DEF whcn_in_tlidx
  <2>2. k \in DOMAIN w.idx
    BY <1>1, <1>3 DEF whcn_in_tlidx
  <2> QED BY <1>0, <1>2, <2>1, <2>2 DEF Ringed, InPlace
<1>4. ASSUME Plain(W, s), Younger(W, s) < w.wrinfo.tldepth
      PROVE  whcn_in_tlidx(w, s)
  <2> DEFINE k == W[s].key
  <2>1. Younger(W, s) < w.wrinfo.idxdepth
    BY <1>0, <1>4 DEF Infos
  <2>2. Listed(w, W, s)
    BY <1>4, <2>1 DEF Ringed
  <2>3. PICK p \in Positions(w) : w.idx[k].hist[p] = s
    BY <2>2 DEF Listed
  <2>4. k \in DOMAIN w.idx
    BY <2>2 DEF Listed
  <2>5. (w.idx[k].headidx - p) % w.wrinfo.idxdepth < w.wrinfo.tldepth
    BY <1>0, <1>4, <2>3, <2>4 DEF Ringed, InPlace
  <2> QED BY <1>1, <1>2, <2>3, <2>4, <2>5 DEF whcn_in_tlidx
<1> QED BY <1>3, <1>4

----------------------------------------------------------------------------
\* Why a sample may leave: all have acknowledged up to m or hdepth others
\* replaced it, and it is not of the transient-local history.
Dropped(i, W, s, m) ==
    /\ s <= m \/ (i.hdepth > 0 /\ Plain(W, s) /\ Younger(W, s) >= i.hdepth)
    /\ i.is_transient_local => ~Plain(W, s) \/ (i.tldepth > 0 /\ Younger(W, s) >= i.tldepth)

\* What acknowledging up to m leaves of it: of the acknowledged samples those of
\* the transient-local history, and where it kept one, none beyond it.
Trimmed(d, w, W, m) ==
    LET acked == {s \in DOMAIN w.node : w.max_drop_seq < s /\ s <= m}
        tl == w.wrinfo.tldepth
    IN /\ \A s \in DOMAIN d.node : d.node[s].unacked <=> w.node[s].unacked /\ s \notin acked
       /\ \A s \in DOMAIN d.node \cap acked : Plain(W, s) /\ Younger(W, s) < tl
       /\ \A t \in DOMAIN w.node \ acked : Younger(W, t) < tl => t \in DOMAIN d.node
       /\ \A t \in acked, s \in DOMAIN d.node :
             /\ W[t].key = W[s].key /\ Plain(W, t) /\ Younger(W, t) < tl
             /\ Plain(W, s) /\ Younger(W, s) < w.wrinfo.idxdepth
             => Younger(W, s) < tl

\* Acknowledging keeps the rings, drops only what may leave, and trims.
LEMMA RemoveFullKeeps ==
    ASSUME NEW w, NEW W \in Seq(Samples), Shape(w, Len(W)), w.wrinfo \in Infos,
           Indexed(w), Counted(w), Ringed(w, W), NEW m \in Nat
    PROVE  LET d == whc_remove_acked_messages_full(w, m) IN
           /\ Ringed(d, W)
           /\ \A s \in DOMAIN w.node \ DOMAIN d.node : Dropped(w.wrinfo, W, s, m)
           /\ ~w.wrinfo.is_transient_local =>
                 \A s \in DOMAIN d.node : d.node[s].unacked <=> w.node[s].unacked
           /\ w.wrinfo.tldepth > 0 => Trimmed(d, w, W, m)
<1> DEFINE n == Len(W)
           acked == {s \in DOMAIN w.node : w.max_drop_seq < s /\ s <= m}
           keep == {s \in acked : whcn_in_tlidx(w, s)}
           clear == ClearUnacked(w, keep)
           kept == whc_delete(clear, acked \ keep)
           tl == w.wrinfo.tldepth
           cond == tl > 0 /\ w.wrinfo.idxdepth > tl
           prune == IF cond THEN UNION {BeyondTl(kept, w.node[s].key) : s \in keep} ELSE {}
           pruned == whc_delete(kept, prune)
           keepall == w.wrinfo.is_transient_local /\ tl = 0
           all == ClearUnacked(w, acked)
           res == WithMaxSeq(pruned)
           d == whc_remove_acked_messages_full(w, m)
<1>1. d = [(IF keepall THEN all ELSE res) EXCEPT !.max_drop_seq = m]
    BY Zenon DEF whc_remove_acked_messages_full
<1>2. /\ keep \subseteq acked /\ acked \subseteq DOMAIN w.node
      /\ \A s \in acked : s <= m
      /\ \A s \in acked : s \in keep <=> whcn_in_tlidx(w, s)
      /\ n \in Nat /\ tl \in Nat
    BY DEF Infos
<1>3. \A s \in DOMAIN w.node : s \in 1..n /\ Younger(W, s) \in Nat
    BY LaterFinite DEF Shape
<1> HIDE DEF d, acked, keep, prune, n
<1>4. Shape(w, n)
    BY DEF n
<1>5. /\ Shape(clear, n) /\ clear.wrinfo = w.wrinfo /\ Indexed(clear) /\ Counted(clear)
      /\ clear.idx = w.idx /\ DOMAIN clear.node = DOMAIN w.node
      /\ Ringed(clear, W)
    BY <1>2, <1>4, ClearShape, ClearBook, ClearRing DEF Part
<1>5a. \A s \in DOMAIN clear.node : clear.node[s].unacked = (s \notin keep /\ w.node[s].unacked)
    BY <1>4, ClearShape, Zenon
<1>6. Shape(all, n) /\ Ringed(all, W) /\ DOMAIN all.node = DOMAIN w.node
    BY <1>2, <1>4, ClearShape, ClearBook, ClearRing
<1> HIDE DEF clear, all
<1>7. acked \ keep \subseteq DOMAIN clear.node
    BY <1>2, <1>5
<1>8. /\ Shape(kept, n) /\ kept.wrinfo = w.wrinfo
      /\ DOMAIN kept.node = DOMAIN w.node \ (acked \ keep)
      /\ \A s \in DOMAIN kept.node : kept.node[s] = clear.node[s]
    BY <1>5, DeleteShape DEF Part
<1>9. Indexed(kept) /\ Counted(kept) /\ DOMAIN kept.idx = DOMAIN w.idx
    BY <1>2, <1>5, <1>7, DeleteBook
<1>10. Ringed(kept, W)
    BY <1>2, <1>5, <1>7, DeleteRing
<1> HIDE DEF kept
<1>11. ASSUME NEW s \in prune
       PROVE  cond /\ s \in DOMAIN kept.node /\ s <= m /\ Younger(W, s) >= tl
  <2>1. cond
    BY <1>11 DEF prune
  <2>2. PICK k \in keep : s \in BeyondTl(kept, w.node[k].key)
    BY <1>11, <2>1, Zenon DEF prune
  <2>3. k \in DOMAIN w.node /\ k <= m /\ whcn_in_tlidx(w, k)
    BY <1>2
  <2>4. W[k].key \in DOMAIN w.idx /\ Younger(W, k) < tl /\ w.node[k].key = W[k].key
    BY <2>3, InTlIs DEF Ringed
  <2>5. s \in DOMAIN kept.node /\ W[s].key = W[k].key /\ Younger(W, s) >= tl
    BY <1>8, <1>9, <1>10, <2>1, <2>2, <2>4, BeyondIs
  <2>6. s \in DOMAIN w.node /\ k \in 1..n /\ s \in 1..n /\ Younger(W, s) \in Nat /\ Younger(W, k) \in Nat
    BY <1>3, <1>8, <2>3, <2>5
  <2>7. s < k
    BY <1>2, <2>4, <2>5, <2>6, YoungerIsLater DEF n
  <2> QED BY <2>1, <2>3, <2>5, <2>6, <2>7
<1>12. prune \subseteq DOMAIN kept.node
    BY <1>11
<1>13. /\ Shape(pruned, n) /\ DOMAIN pruned.node = DOMAIN kept.node \ prune
       /\ \A s \in DOMAIN pruned.node : pruned.node[s] = kept.node[s]
       /\ Ringed(pruned, W)
    BY <1>2, <1>8, <1>9, <1>10, <1>12, DeleteShape, DeleteRing
<1> HIDE DEF pruned
<1>14. Shape(res, n) /\ Ringed(res, W) /\ res.node = pruned.node
    BY <1>13, MaxSeqShape, MaxSeqRing
<1> HIDE DEF res
<1>15. Ringed(d, W) /\ d.node = (IF keepall THEN all ELSE res).node
  <2>1. CASE keepall
    <3>1. d = [all EXCEPT !.max_drop_seq = m]
      BY <1>1, <2>1
    <3> QED BY <1>6, <2>1, <3>1, DropSeqShape, DropSeqRing
  <2>2. CASE ~keepall
    <3>1. d = [res EXCEPT !.max_drop_seq = m]
      BY <1>1, <2>2
    <3> QED BY <1>14, <2>2, <3>1, DropSeqShape, DropSeqRing
  <2> QED BY <2>1, <2>2
<1>16. ASSUME NEW s \in DOMAIN w.node \ DOMAIN d.node
       PROVE  Dropped(w.wrinfo, W, s, m)
  <2>1. ~keepall /\ s \notin DOMAIN pruned.node
    BY <1>6, <1>14, <1>15
  <2>2. w.wrinfo.is_transient_local => tl > 0
    BY <1>2, <2>1
  <2>3. CASE s \in prune
    BY <1>11, <2>2, <2>3 DEF Dropped
  <2>4. CASE s \in acked \ keep
    <3>1. s <= m /\ ~whcn_in_tlidx(w, s)
      BY <1>2, <2>4
    <3>2. ~(Plain(W, s) /\ Younger(W, s) < tl)
      BY <3>1, InTlIs
    <3> QED BY <1>2, <1>3, <2>2, <3>1, <3>2 DEF Dropped
  <2> QED BY <1>8, <1>13, <2>1, <2>3, <2>4
<1>17. ASSUME ~w.wrinfo.is_transient_local, NEW s \in DOMAIN d.node
       PROVE  d.node[s].unacked <=> w.node[s].unacked
  <2>1. tl = 0
    BY <1>17 DEF Infos
  <2>2. d.node = pruned.node
    BY <1>14, <1>15, <1>17
  <2>3. s \in DOMAIN w.node /\ d.node[s] = clear.node[s]
    BY <1>8, <1>13, <2>2
  <2>4. s \notin keep
    <3>1. ASSUME s \in keep PROVE FALSE
      <4>1. whcn_in_tlidx(w, s)
        BY <1>2, <3>1
      <4> QED BY <1>3, <2>1, <2>3, <4>1, InTlIs
    <3> QED BY <3>1
  <2> QED BY <1>5, <1>5a, <2>3, <2>4, Zenon
<1>18. ASSUME tl > 0 PROVE Trimmed(d, w, W, m)
  <2>1. /\ d.node = pruned.node /\ DOMAIN d.node \subseteq DOMAIN w.node
        /\ \A s \in DOMAIN d.node : s \in DOMAIN kept.node /\ s \notin prune /\ s \notin acked \ keep
        /\ \A s \in DOMAIN d.node : d.node[s] = clear.node[s]
    BY <1>8, <1>13, <1>14, <1>15, <1>18
  <2>2. \A s \in DOMAIN d.node : d.node[s].unacked <=> w.node[s].unacked /\ s \notin acked
    BY <1>2, <1>5, <1>5a, <2>1, Zenon
  <2>3. \A s \in DOMAIN d.node \cap acked : Plain(W, s) /\ Younger(W, s) < tl
    BY <1>2, <2>1, InTlIs
  <2>4. ASSUME NEW t \in DOMAIN w.node \ acked, Younger(W, t) < tl PROVE t \in DOMAIN d.node
    <3>1. t \in DOMAIN kept.node
      BY <1>8
    <3>2. t \notin prune
      BY <1>2, <1>3, <1>11, <2>4
    <3> QED BY <1>13, <2>1, <3>1, <3>2
  <2>5. ASSUME NEW t \in acked, NEW s \in DOMAIN d.node,
               W[t].key = W[s].key, Plain(W, t), Younger(W, t) < tl,
               Plain(W, s), Younger(W, s) < w.wrinfo.idxdepth, ~(Younger(W, s) < tl)
        PROVE  FALSE
    <3>1. t \in keep
      BY <1>2, <2>5, InTlIs
    <3>2. s \in DOMAIN kept.node /\ s # 0 /\ Younger(W, s) \in Nat
      BY <1>3, <2>1
    <3>3. tl <= Younger(W, s) /\ cond
      BY <1>2, <1>18, <2>5, <3>2 DEF Infos
    <3>4. s \in BeyondTl(kept, W[s].key)
      BY <1>8, <1>9, <1>10, <1>18, <2>5, <3>2, <3>3, InBeyond
    <3>5. w.node[t].key = W[s].key
      BY <1>2, <2>5 DEF Ringed
    <3>6. s \in prune
      <4> HIDE DEF cond
      <4> QED BY <3>1, <3>3, <3>4, <3>5, Zenon DEF prune
    <3> QED BY <2>1, <3>6
  <2> HIDE DEF d
  <2> QED BY <2>2, <2>3, <2>4, <2>5 DEF Trimmed, acked
<1> QED BY <1>15, <1>16, <1>17, <1>18 DEF d

----------------------------------------------------------------------------
LEMMA Appended ==
    ASSUME NEW W \in Seq(Samples), NEW x \in Samples, NEW s \in 1..Len(W)
    PROVE  LET V == Append(W, x) IN
           /\ V[s] = W[s]
           /\ Younger(V, s) = Younger(W, s) + IF x.key = W[s].key THEN 1 ELSE 0
           /\ Younger(W, s) \in Nat
           /\ Plain(V, s) <=> Plain(W, s) /\ ~(x.key = W[s].key /\ x.kind = "unregister")
<1> DEFINE V == Append(W, x)
           n == Len(W) + 1
<1>1. V[s] = W[s]
    OBVIOUS
<1>2. /\ Unreg(V, s) = Unreg(W, s) \cup (IF x.key = W[s].key /\ x.kind = "unregister" THEN {n} ELSE {})
      /\ Younger(V, s) = Younger(W, s) + IF x.key = W[s].key THEN 1 ELSE 0
    BY LaterAppended
<1> HIDE DEF V, n
<1>3. Plain(V, s) <=> Plain(W, s) /\ ~(x.key = W[s].key /\ x.kind = "unregister")
    BY <1>1, <1>2 DEF Plain
<1> QED BY <1>1, <1>2, <1>3, LaterFinite DEF V

\* A cache in which the sample seq is stored and not yet in its ring.
Awaits(w, W, seq) ==
    /\ HeadsIn(w) /\ InPlace(w, W)
    /\ \A s \in DOMAIN w.node \ {seq} :
          /\ w.node[s].key = W[s].key
          /\ Plain(W, s) /\ Younger(W, s) < w.wrinfo.idxdepth => Listed(w, W, s)

Awaiting(w, W, seq, x) ==
    /\ Shape(w, seq) /\ w.wrinfo \in Infos /\ Indexed(w) /\ Counted(w)
    /\ seq \in DOMAIN w.node /\ w.node[seq].key = x.key
    /\ \A k \in DOMAIN w.idx : \A p \in Positions(w) : w.idx[k].hist[p] # seq
    /\ Awaits(w, W, seq)

LEMMA InsertSeqAwaits ==
    ASSUME NEW W \in Seq(Samples), NEW x \in Samples, NEW seq, seq = Len(W) + 1,
           NEW w, Shape(w, Len(W)), w.wrinfo \in Infos, Indexed(w), Counted(w), Ringed(w, W),
           NEW m \in Nat
    PROVE  LET d == whc_insert_seq(w, m, seq, x.key) IN
           /\ Awaiting(d, W, seq, x)
           /\ d.idx = w.idx /\ d.wrinfo = w.wrinfo /\ DOMAIN d.node = DOMAIN w.node \cup {seq}
           /\ \A s \in DOMAIN w.node : d.node[s] = w.node[s]
           /\ d.node[seq].unacked <=> seq > m
<1> DEFINE d == whc_insert_seq(w, m, seq, x.key)
           n == Len(W)
<1>1. x.key \in Keys /\ n \in Nat
    BY DEF Samples
<1>2. /\ d.wrinfo = w.wrinfo /\ d.idx = w.idx /\ Shape(d, seq)
      /\ DOMAIN d.node = DOMAIN w.node \cup {seq}
      /\ \A s \in DOMAIN w.node : d.node[s] = w.node[s]
      /\ d.node[seq].unacked <=> seq > m
    BY <1>1, InsertSeqIs
<1>3. d.node[seq].key = x.key
    BY DEF whc_insert_seq, Bind, Shape
<1>4. /\ Indexed(d) /\ Counted(d)
      /\ \A k \in DOMAIN d.idx : \A p \in Positions(d) : d.idx[k].hist[p] # seq
    BY <1>1, InsertSeqBook
<1> HIDE DEF d
<1>5. seq \notin DOMAIN w.node
    BY <1>1 DEF Shape
<1>6. Awaits(d, W, seq)
    BY <1>2, <1>5 DEF Awaits, Ringed, HeadsIn, InPlace, Listed, Positions
<1> QED BY <1>2, <1>3, <1>4, <1>6 DEF Awaiting, d

LEMMA EntryWritten ==
    ASSUME NEW w, NEW W, NEW seq \in Nat, NEW x, Awaiting(w, W, seq, x),
           NEW k \in DOMAIN w.idx, NEW p \in Positions(w), w.idx[k].hist[p] # 0
    PROVE  w.idx[k].hist[p] \in 1..(seq - 1) /\ w.idx[k].hist[p] \in DOMAIN w.node
<1>1. w.idx[k].hist[p] \in DOMAIN w.node /\ w.idx[k].hist[p] # seq
    BY DEF Awaiting, Indexed
<1> QED BY <1>1 DEF Awaiting, Shape

\* The ring turns: what was in its last place has no place any more.
LEMMA AddedRing ==
    ASSUME NEW W \in Seq(Samples), NEW x \in Samples, x.kind # "unregister",
           NEW seq, seq = Len(W) + 1, NEW w, Awaiting(w, W, seq, x),
           w.wrinfo.idxdepth > 0, x.key \in DOMAIN w.idx
    PROVE  LET V == Append(W, x)
               d == Added(w, seq, x.key)
               oldn == w.idx[x.key].hist[(w.idx[x.key].headidx + 1) % w.wrinfo.idxdepth] IN
           /\ Ringed(d, V)
           /\ \A s \in DOMAIN w.node \ {seq} :
                 /\ W[s].key = x.key /\ Plain(W, s) /\ Younger(W, s) < w.wrinfo.idxdepth
                 => s = oldn \/ Younger(W, s) + 1 < w.wrinfo.idxdepth
           /\ oldn # 0 => /\ oldn \in DOMAIN w.node \ {seq}
                          /\ Plain(V, oldn)
                          /\ Younger(V, oldn) \in Nat /\ Younger(V, oldn) >= w.wrinfo.idxdepth
<1> DEFINE V == Append(W, x)
           key == x.key
           d == Added(w, seq, key)
           depth == w.wrinfo.idxdepth
           was == w.idx[key].headidx
           head == (was + 1) % depth
           oldn == w.idx[key].hist[head]
<1>1. Len(W) \in Nat /\ seq \in Nat /\ seq > 0 /\ depth \in Nat /\ depth > 0
    BY DEF Awaiting, Infos
<1>2. /\ Shape(d, seq) /\ d.wrinfo = w.wrinfo /\ d.node = w.node
      /\ head \in Positions(w) /\ DOMAIN d.idx = DOMAIN w.idx
      /\ d.idx[key].headidx = head /\ d.idx[key].hist[head] = seq
      /\ \A p \in Positions(w) : p # head => d.idx[key].hist[p] = w.idx[key].hist[p]
      /\ \A k \in DOMAIN w.idx : k # key => d.idx[k] = w.idx[k]
  <2>1. /\ Shape(w, seq) /\ w.wrinfo \in Infos /\ Indexed(w) /\ Counted(w) /\ seq \in DOMAIN w.node
        /\ w.wrinfo.idxdepth > 0 /\ key \in DOMAIN w.idx
    BY DEF Awaiting
  <2> HIDE DEF key
  <2> QED BY <1>1, <2>1, AddedIs, SMTT(40)
<1>3. was \in 0..(depth - 1) /\ HeadsIn(w)
    BY <1>1 DEF Awaiting, Awaits, HeadsIn, Positions
<1>4. V[seq] = x /\ Plain(V, seq) /\ Younger(V, seq) = 0
    BY LaterOfLast DEF Plain
<1>5. \A s \in 1..Len(W) :
         /\ V[s] = W[s]
         /\ Younger(V, s) = Younger(W, s) + IF key = W[s].key THEN 1 ELSE 0
         /\ Younger(W, s) \in Nat
         /\ Plain(V, s) <=> Plain(W, s)
    BY Appended
<1>6. head = IF was = depth - 1 THEN 0 ELSE was + 1
    BY <1>1, <1>3, ModNext
<1> HIDE DEF V, d, head, was, depth, key
<1>7. Positions(d) = Positions(w) /\ Positions(w) = 0..(depth - 1)
    BY <1>2 DEF Positions, depth
<1>8. ASSUME NEW k \in DOMAIN w.idx, NEW p \in Positions(w), w.idx[k].hist[p] # 0
      PROVE  LET s == w.idx[k].hist[p] IN
             /\ s \in 1..Len(W) /\ s \in DOMAIN w.node \ {seq} /\ W[s].key = k /\ Plain(W, s)
             /\ Younger(W, s) = (w.idx[k].headidx - p) % depth
  <2>1. w.idx[k].hist[p] \in 1..(seq - 1) /\ w.idx[k].hist[p] \in DOMAIN w.node
    BY <1>1, <1>8, EntryWritten
  <2>2. seq - 1 = Len(W)
    BY <1>1
  <2>3. w.idx[k].hist[p] # seq
    BY <1>1, <2>1
  <2> QED BY <1>8, <2>1, <2>2, <2>3 DEF Awaiting, Awaits, InPlace, depth
<1>9. HeadsIn(d)
  <2> SUFFICES ASSUME NEW k \in DOMAIN w.idx PROVE d.idx[k].headidx \in Positions(w)
    BY <1>2, <1>7 DEF HeadsIn
  <2>1. CASE k = key
    BY <1>2, <2>1
  <2>2. CASE k # key
    BY <1>1, <1>2, <1>3, <2>2 DEF HeadsIn, depth
  <2> QED BY <2>1, <2>2
<1>10. InPlace(d, V)
  <2> SUFFICES ASSUME NEW k \in DOMAIN w.idx, NEW p \in Positions(w), d.idx[k].hist[p] # 0
               PROVE  /\ V[d.idx[k].hist[p]].key = k /\ Plain(V, d.idx[k].hist[p])
                      /\ Younger(V, d.idx[k].hist[p]) = (d.idx[k].headidx - p) % depth
    BY <1>2, <1>7 DEF InPlace, depth
  <2>1. CASE k # key
    <3>1. d.idx[k] = w.idx[k]
      BY <1>2, <2>1
    <3> QED BY <1>5, <1>8, <2>1, <3>1
  <2>2. CASE k = key /\ p = head
    <3>1. d.idx[k].hist[p] = seq /\ d.idx[k].headidx = p
      BY <1>2, <2>2
    <3>2. (p - p) % depth = 0
      BY <1>1, <1>7
    <3> QED BY <1>4, <2>2, <3>1, <3>2 DEF key
  <2>3. CASE k = key /\ p # head
    <3>1. d.idx[k].hist[p] = w.idx[k].hist[p] /\ d.idx[k].headidx = head
      BY <1>2, <2>3
    <3>2. PICK s : s = w.idx[k].hist[p]
      OBVIOUS
    <3>3. /\ s \in 1..Len(W) /\ W[s].key = k /\ Plain(W, s)
          /\ Younger(W, s) = (was - p) % depth
      BY <1>8, <2>3, <3>1, <3>2 DEF was
    <3>4. p \in 0..(depth - 1) /\ head \in 0..(depth - 1)
      BY <1>2, <1>7
    <3>5. (was - p) % depth = IF p <= was THEN was - p ELSE was - p + depth
      BY <1>1, <1>3, <3>4, ModBack
    <3>6. (head - p) % depth = IF p <= head THEN head - p ELSE head - p + depth
      BY <1>1, <3>4, ModBack
    <3>7. (head - p) % depth = ((was - p) % depth) + 1
      BY <1>1, <1>3, <1>6, <2>3, <3>4, <3>5, <3>6
    <3>8. V[s] = W[s] /\ Younger(V, s) = Younger(W, s) + 1 /\ Plain(V, s)
      BY <1>5, <2>3, <3>3
    <3> QED BY <3>1, <3>2, <3>3, <3>7, <3>8
  <2> QED BY <2>1, <2>2, <2>3
<1>11. ASSUME oldn # 0
       PROVE  oldn \in DOMAIN w.node \ {seq} /\ Plain(V, oldn) /\ Younger(V, oldn) = depth
  <2>1. /\ oldn \in 1..Len(W) /\ oldn \in DOMAIN w.node \ {seq}
        /\ W[oldn].key = key /\ Plain(W, oldn)
        /\ Younger(W, oldn) = (was - head) % depth
    BY <1>2, <1>8, <1>11 DEF key, was, Awaiting
  <2>2. head \in 0..(depth - 1)
    BY <1>2, <1>7
  <2>3. (was - head) % depth = IF head <= was THEN was - head ELSE was - head + depth
    BY <1>1, <1>3, <2>2, ModBack
  <2>4. (was - head) % depth = depth - 1
    BY <1>1, <1>3, <1>6, <2>2, <2>3
  <2>5. Younger(V, oldn) = (depth - 1) + 1
    BY <1>5, <2>1, <2>4
  <2> QED BY <1>1, <1>5, <2>1, <2>5
<1>12. ASSUME NEW s \in DOMAIN d.node
       PROVE  /\ d.node[s].key = V[s].key
              /\ Plain(V, s) /\ Younger(V, s) < depth => Listed(d, V, s)
  <2>1. CASE s = seq
    <3>1. d.node[s].key = V[s].key
      BY <1>2, <1>4, <2>1 DEF Awaiting
    <3>2. Listed(d, V, s)
      BY <1>2, <1>4, <1>7, <2>1 DEF Listed, key
    <3> QED BY <3>1, <3>2
  <2>2. CASE s # seq
    <3>1. s \in DOMAIN w.node /\ s \in 1..Len(W)
      BY <1>1, <1>2, <2>2 DEF Awaiting, Shape
    <3>2. w.node[s].key = W[s].key /\ (Plain(W, s) /\ Younger(W, s) < depth => Listed(w, W, s))
      BY <2>2, <3>1 DEF Awaiting, Awaits, depth
    <3>3. ASSUME Plain(V, s), Younger(V, s) < depth PROVE Listed(d, V, s)
      <4>1. Plain(W, s) /\ Younger(W, s) < depth
        BY <1>1, <1>5, <3>1, <3>3
      <4>2. W[s].key \in DOMAIN w.idx
        BY <3>2, <4>1 DEF Listed
      <4>3. PICK p \in Positions(w) : w.idx[W[s].key].hist[p] = s
        BY <3>2, <4>1 DEF Listed
      <4>4. CASE W[s].key # key
        BY <1>2, <1>5, <1>7, <3>1, <4>2, <4>3, <4>4 DEF Listed
      <4>5. CASE W[s].key = key
        <5>1. p # head
          <6> SUFFICES ASSUME p = head PROVE FALSE
            OBVIOUS
          <6>1. s = oldn
            BY <4>3, <4>5 DEF key
          <6>2. Younger(V, s) = depth
            BY <1>1, <1>11, <3>1, <6>1
          <6> QED BY <1>1, <3>3, <6>2
        <5>2. d.idx[key].hist[p] = s
          BY <1>2, <4>3, <4>5, <5>1
        <5> QED BY <1>2, <1>5, <1>7, <3>1, <4>2, <4>5, <5>2 DEF Listed
      <4> QED BY <4>4, <4>5
    <3> QED BY <1>2, <1>5, <3>1, <3>2, <3>3
  <2> QED BY <2>1, <2>2
<1>13. Ringed(d, V)
    BY <1>2, <1>9, <1>10, <1>12 DEF Ringed, depth
<1>14. oldn # 0 => Younger(V, oldn) \in Nat /\ Younger(V, oldn) >= depth
    BY <1>1, <1>11
<1>15. ASSUME NEW s \in DOMAIN w.node \ {seq}, W[s].key = key, Plain(W, s), Younger(W, s) < depth, s # oldn
       PROVE  Younger(W, s) + 1 < depth
  <2>1. s \in 1..Len(W)
    BY <1>1 DEF Awaiting, Shape
  <2>2. Listed(w, W, s)
    BY <1>15 DEF Awaiting, Awaits, depth
  <2>3. PICK p \in Positions(w) : w.idx[key].hist[p] = s
    BY <1>15, <2>2 DEF Listed
  <2>4. p # head /\ key \in DOMAIN w.idx
    BY <1>15, <2>3 DEF key
  <2>5. d.idx[key].hist[p] = s /\ s # 0
    BY <1>2, <2>1, <2>3, <2>4
  <2>6. Younger(V, s) = (head - p) % depth
    BY <1>2, <1>7, <1>10, <2>3, <2>4, <2>5 DEF InPlace, depth
  <2>7. (head - p) % depth \in 0..(depth - 1)
    BY <1>1, <1>2, <1>7, ModRange
  <2>8. Younger(V, s) = Younger(W, s) + 1
    BY <1>5, <1>15, <2>1
  <2> QED BY <1>1, <2>6, <2>7, <2>8
<1> QED BY <1>11, <1>13, <1>14, <1>15 DEF V, d, head, was, depth, key

\* What an insertion leaves of the acknowledged samples of the instance.
Squeezed(d, w, W, x, m, seq) ==
    /\ \A s \in DOMAIN w.node \ DOMAIN d.node : s = seq \/ W[s].key = x.key
    /\ seq \in DOMAIN d.node <=> x.kind # "unregister" \/ ~(seq <= m)
    /\ \A s \in DOMAIN d.node \ {seq} :
          /\ s <= m /\ W[s].key = x.key /\ Plain(W, s) /\ Younger(W, s) < w.wrinfo.idxdepth
          => /\ x.kind # "unregister" /\ Younger(W, s) + 1 < w.wrinfo.idxdepth
             /\ seq <= m => Younger(W, s) + 1 # w.wrinfo.tldepth

LEMMA AddKeeps ==
    ASSUME NEW W \in Seq(Samples), NEW x \in Samples, x.kind # "unregister",
           NEW seq, seq = Len(W) + 1, NEW w, Awaiting(w, W, seq, x),
           w.wrinfo.idxdepth > 0, x.key \in DOMAIN w.idx, NEW m \in Nat
    PROVE  LET V == Append(W, x)
               d == AddToInstance(w, m, seq, x.key) IN
           /\ Ringed(d, V)
           /\ \A s \in DOMAIN w.node \ DOMAIN d.node : Dropped(w.wrinfo, V, s, m)
           /\ \A s \in DOMAIN d.node : d.node[s] = w.node[s]
           /\ DOMAIN d.node \subseteq DOMAIN w.node
           /\ w.wrinfo.tldepth > 0 => Squeezed(d, w, W, x, m, seq)
<1> DEFINE V == Append(W, x)
           key == x.key
           info == w.wrinfo
           head == (w.idx[key].headidx + 1) % info.idxdepth
           oldn == w.idx[key].hist[head]
           added == [w EXCEPT !.idx[key] = [headidx |-> head, hist |-> [@.hist EXCEPT ![head] = seq]]]
           overwrite == /\ oldn # 0
                        /\ info.hdepth > 0 \/ oldn <= m
                        /\ ~info.is_transient_local \/ info.tldepth > 0
           whc1 == IF overwrite THEN whc_delete(added, {oldn}) ELSE added
           pos == (head + info.idxdepth - info.tldepth) % info.idxdepth
           tail == whc1.idx[key].hist[pos]
           prune == seq <= m /\ info.tldepth > 0 /\ info.idxdepth > info.tldepth /\ tail # 0
           d == AddToInstance(w, m, seq, key)
<1>1. d = IF prune THEN whc_delete(whc1, {tail}) ELSE whc1
    BY Zenon DEF AddToInstance
<1>2. /\ info.idxdepth \in Nat /\ info.tldepth \in Nat /\ info.hdepth \in Nat
      /\ info.hdepth <= info.idxdepth /\ info.tldepth <= info.idxdepth
      /\ Len(W) \in Nat /\ seq \in Nat /\ seq > 0
    BY DEF Awaiting, Infos
<1>3. /\ Shape(added, seq) /\ added.wrinfo = w.wrinfo /\ added.node = w.node
      /\ Indexed(added) /\ Counted(added)
      /\ head \in Positions(w) /\ DOMAIN added.idx = DOMAIN w.idx
      /\ added.idx[key].headidx = head
      /\ Ringed(added, V)
      /\ oldn # 0 => /\ oldn \in DOMAIN w.node /\ Plain(V, oldn)
                      /\ Younger(V, oldn) \in Nat /\ Younger(V, oldn) >= info.idxdepth
  <2>1. added = Added(w, seq, key)
    BY DEF Added
  <2> HIDE DEF added
  <2>2. /\ Shape(added, seq) /\ added.wrinfo = w.wrinfo /\ added.node = w.node
        /\ After(added, w, seq)
        /\ head \in Positions(w) /\ DOMAIN added.idx = DOMAIN w.idx
        /\ added.idx[key].headidx = head
    BY <1>2, <2>1, AddedIs DEF Awaiting
  <2>3. /\ Ringed(added, V)
        /\ oldn # 0 => /\ oldn \in DOMAIN w.node /\ Plain(V, oldn)
                      /\ Younger(V, oldn) \in Nat /\ Younger(V, oldn) >= info.idxdepth
    <3>1. Ringed(Added(w, seq, key), V)
      BY AddedRing
    <3>2. oldn # 0 => oldn \in DOMAIN w.node \ {seq}
      BY AddedRing
    <3>3. oldn # 0 => Plain(V, oldn)
      BY AddedRing
    <3>4. oldn # 0 => Younger(V, oldn) \in Nat /\ Younger(V, oldn) >= info.idxdepth
      BY AddedRing
    <3> QED BY <2>1, <3>1, <3>2, <3>3, <3>4
  <2> QED BY <2>2, <2>3 DEF After
<1>3a. \A s \in DOMAIN w.node \ {seq} :
          W[s].key = key /\ Plain(W, s) /\ Younger(W, s) < info.idxdepth
             => s = oldn \/ Younger(W, s) + 1 < info.idxdepth
    BY AddedRing
<1>3b. oldn # 0 => oldn # seq /\ W[oldn].key = key
  <2>1. oldn # 0 => oldn # seq
    BY AddedRing
  <2> QED BY <1>3, <2>1 DEF Awaiting, Awaits, InPlace
<1>3c. \A s \in 1..Len(W) :
          /\ V[s] = W[s] /\ Younger(W, s) \in Nat
          /\ W[s].key = key => Younger(V, s) = Younger(W, s) + 1
          /\ Plain(V, s) <=> Plain(W, s)
    BY Appended
<1> HIDE DEF head, added, oldn, d, V
<1>4. overwrite => Dropped(info, V, oldn, m)
    BY <1>2, <1>3 DEF Dropped
<1>5. overwrite => oldn \in DOMAIN w.node
    BY <1>3
<1> HIDE DEF overwrite
<1>6. /\ Shape(whc1, seq) /\ whc1.wrinfo = w.wrinfo /\ Indexed(whc1) /\ Counted(whc1)
      /\ key \in DOMAIN whc1.idx /\ whc1.idx[key].headidx = head
      /\ Ringed(whc1, V)
      /\ DOMAIN whc1.node \subseteq DOMAIN w.node
      /\ \A s \in DOMAIN whc1.node : whc1.node[s] = w.node[s]
      /\ \A s \in DOMAIN w.node \ DOMAIN whc1.node : Dropped(info, V, s, m)
  <2>1. CASE ~overwrite
    BY <1>3, <2>1
  <2>2. CASE overwrite
    <3>1. whc1 = whc_delete(added, {oldn})
      BY <2>2
    <3>2. {oldn} \subseteq DOMAIN added.node
      BY <1>3, <1>5, <2>2
    <3> HIDE DEF whc1
    <3>3. /\ Shape(whc1, seq) /\ whc1.wrinfo = added.wrinfo
          /\ DOMAIN whc1.node = DOMAIN added.node \ {oldn}
          /\ \A s \in DOMAIN whc1.node : whc1.node[s] = added.node[s]
      BY <1>3, <3>1, DeleteShape DEF Part
    <3>4. /\ Indexed(whc1) /\ Counted(whc1) /\ DOMAIN whc1.idx = DOMAIN added.idx
          /\ \A k \in DOMAIN added.idx : whc1.idx[k].headidx = added.idx[k].headidx
      BY <1>2, <1>3, <3>1, <3>2, DeleteBook
    <3>5. Ringed(whc1, V)
      BY <1>2, <1>3, <3>1, <3>2, DeleteRing
    <3> QED BY <1>3, <1>4, <2>2, <3>3, <3>4, <3>5
  <2> QED BY <2>1, <2>2
<1>6a. \A s \in DOMAIN w.node : s \notin DOMAIN whc1.node <=> overwrite /\ s = oldn
  <2>1. CASE ~overwrite
    BY <1>3, <2>1
  <2>2. CASE overwrite
    <3>1. whc1 = whc_delete(added, {oldn})
      BY <2>2
    <3> HIDE DEF whc1
    <3>2. DOMAIN whc1.node = DOMAIN added.node \ {oldn}
      BY <1>3, <3>1, DeleteShape
    <3> QED BY <1>3, <2>2, <3>2
  <2> QED BY <2>1, <2>2
<1> HIDE DEF whc1
<1>6b. \A s \in DOMAIN w.node : s = seq \/ s \in 1..Len(W)
    BY <1>2 DEF Awaiting, Shape
<1>6c. seq \in DOMAIN whc1.node /\ seq \in DOMAIN w.node
  <2>1. seq \in DOMAIN w.node
    BY DEF Awaiting
  <2>2. overwrite => oldn # 0
    BY DEF overwrite
  <2> QED BY <1>3b, <1>6a, <2>1, <2>2
<1>6d. ASSUME info.tldepth > 0, NEW s \in DOMAIN whc1.node \ {seq},
              s <= m, W[s].key = key, Plain(W, s), Younger(W, s) < info.idxdepth
       PROVE  Younger(W, s) + 1 < info.idxdepth
  <2>1. s \in DOMAIN w.node /\ s # 0
    BY <1>2, <1>6, <1>6b, <1>6d
  <2>2. CASE s = oldn
    <3>1. overwrite
      BY <1>6d, <2>1, <2>2 DEF overwrite
    <3> QED BY <1>6a, <1>6d, <2>1, <2>2, <3>1
  <2>3. CASE s # oldn
    BY <1>3a, <1>6d, <2>1, <2>3
  <2> QED BY <2>2, <2>3
<1>6e. \A s \in DOMAIN w.node \ DOMAIN whc1.node : W[s].key = key
  <2>1. overwrite => oldn # 0
    BY DEF overwrite
  <2> QED BY <1>3b, <1>6a, <2>1
<1>6f. ASSUME info.tldepth > 0, seq <= m, NEW s \in DOMAIN whc1.node \ {seq},
              s <= m, W[s].key = key, Plain(W, s), Younger(W, s) < info.idxdepth,
              Younger(W, s) + 1 = info.tldepth
       PROVE  prune /\ s = tail
  <2>1. s \in DOMAIN w.node /\ s \in 1..Len(W) /\ s # 0
    BY <1>2, <1>6, <1>6b, <1>6f
  <2>2. Younger(V, s) = info.tldepth /\ Plain(V, s) /\ V[s].key = key /\ info.idxdepth > info.tldepth
    BY <1>2, <1>3c, <1>6d, <1>6f, <2>1
  <2>3. Listed(whc1, V, s)
    BY <1>2, <1>6, <1>6f, <2>2 DEF Ringed
  <2>4. PICK p \in Positions(whc1) : whc1.idx[key].hist[p] = s
    BY <2>2, <2>3 DEF Listed
  <2>5. (head - p) % info.idxdepth = info.tldepth
    BY <1>6, <2>1, <2>2, <2>4 DEF Ringed, InPlace
  <2>6. /\ head \in 0..(info.idxdepth - 1) /\ p \in 0..(info.idxdepth - 1)
        /\ info.idxdepth - info.tldepth \in 1..(info.idxdepth - 1)
    <3>1. Positions(whc1) = 0..(info.idxdepth - 1) /\ Positions(w) = 0..(info.idxdepth - 1)
      BY <1>6 DEF Positions
    <3> QED BY <1>2, <1>3, <1>6f, <2>2, <3>1
  <2>7. pos = (head + (info.idxdepth - info.tldepth)) % info.idxdepth
    BY <1>2, <2>6
  <2>8. (head - pos) % info.idxdepth = info.tldepth
    <3>1. (head - pos) % info.idxdepth = info.idxdepth - (info.idxdepth - info.tldepth)
      BY <1>2, <2>6, <2>7, ModAround
    <3> QED BY <1>2, <3>1
  <2>9. pos \in 0..(info.idxdepth - 1)
    BY <1>2, <2>6, <2>7, ModRange
  <2>10. p = pos
    <3> HIDE DEF pos
    <3> QED BY <1>2, <2>5, <2>6, <2>8, <2>9, ModUnique
  <2>11. tail = s
    BY <2>4, <2>10
  <2> HIDE DEF tail
  <2> QED BY <1>6f, <2>1, <2>2, <2>11
<1>7. CASE ~prune
  <2>1. d = whc1
    BY <1>1, <1>7
  <2>2. info.tldepth > 0 => Squeezed(d, w, W, x, m, seq)
    <3> HIDE DEF prune, tail
    <3> QED BY <1>6c, <1>6d, <1>6e, <1>6f, <1>7, <2>1 DEF Squeezed
  <2> QED BY <1>6, <2>1, <2>2 DEF d, V
<1>8. CASE prune
  <2>1. head \in 0..(info.idxdepth - 1) /\ info.idxdepth - info.tldepth \in 1..(info.idxdepth - 1)
    <3>1. head \in 0..(info.idxdepth - 1)
      BY <1>3 DEF Positions
    <3>2. info.tldepth > 0 /\ info.idxdepth > info.tldepth
      BY <1>8
    <3> QED BY <1>2, <3>1, <3>2
  <2>2. pos = (head + (info.idxdepth - info.tldepth)) % info.idxdepth
    BY <1>2, <2>1
  <2>3. (head - pos) % info.idxdepth = info.tldepth
    <3>1. (head - pos) % info.idxdepth = info.idxdepth - (info.idxdepth - info.tldepth)
      BY <1>2, <2>1, <2>2, ModAround
    <3> QED BY <1>2, <3>1
  <2>4. pos \in Positions(whc1)
    BY <1>2, <1>6, <2>1, <2>2, ModRange DEF Positions
  <2> HIDE DEF pos
  <2>5. tail \in DOMAIN whc1.node /\ Younger(V, tail) = info.tldepth
    BY <1>6, <1>8, <2>3, <2>4 DEF Indexed, Ringed, InPlace
  <2>6. tail <= m
    <3>1. tail \in 1..seq
      BY <1>6, <2>5 DEF Shape
    <3> QED BY <1>2, <1>8, <3>1
  <2>7. Dropped(info, V, tail, m)
    BY <1>2, <1>8, <2>5, <2>6 DEF Dropped
  <2>8. d = whc_delete(whc1, {tail})
    BY <1>1, <1>8
  <2> HIDE DEF tail, prune
  <2>9. /\ DOMAIN d.node = DOMAIN whc1.node \ {tail}
        /\ \A s \in DOMAIN d.node : d.node[s] = whc1.node[s]
    BY <1>6, <2>8, DeleteShape
  <2>10. Ringed(d, V)
    BY <1>2, <1>6, <2>5, <2>8, DeleteRing
  <2>11. tail # seq /\ W[tail].key = key
    <3>1. V[tail].key = key
      BY <1>6, <1>8, <2>4 DEF Ringed, InPlace, tail, prune
    <3>2. Younger(V, seq) = 0
      BY LaterOfLast DEF V
    <3>3. tail # seq
      BY <1>2, <1>8, <2>5, <3>2 DEF prune
    <3>4. tail \in 1..Len(W)
      BY <1>6, <1>6b, <2>5, <3>3
    <3> QED BY <1>3c, <3>1, <3>3, <3>4
  <2>12. info.tldepth > 0 => Squeezed(d, w, W, x, m, seq)
    BY <1>6c, <1>6d, <1>6e, <1>6f, <2>9, <2>11 DEF Squeezed
  <2> QED BY <1>6, <2>7, <2>9, <2>10, <2>12 DEF d, V
<1> QED BY <1>7, <1>8

LEMMA BoundRing ==
    ASSUME NEW W \in Seq(Samples), NEW x \in Samples, x.kind # "unregister",
           NEW seq, seq = Len(W) + 1, NEW w, Awaiting(w, W, seq, x), x.key \notin DOMAIN w.idx,
           NEW entry, entry.headidx = 0,
           \A p \in Positions(w) : entry.hist[p] = IF p = 0 THEN seq ELSE 0
    PROVE  LET d == [w EXCEPT !.idx = Bind(@, x.key, entry)] IN
           Ringed(d, Append(W, x)) /\ d.node = w.node
<1> DEFINE V == Append(W, x)
           key == x.key
           d == [w EXCEPT !.idx = Bind(@, x.key, entry)]
           depth == w.wrinfo.idxdepth
<1>1. Len(W) \in Nat /\ seq \in Nat /\ seq > 0 /\ depth \in Nat
    BY DEF Awaiting, Infos
<1>2. d.wrinfo = w.wrinfo /\ d.node = w.node /\ d.idx = Bind(w.idx, key, entry)
    BY DEF Awaiting, Shape
<1>3. V[seq] = x /\ Plain(V, seq) /\ Younger(V, seq) = 0
    BY LaterOfLast DEF Plain
<1>4. \A s \in 1..Len(W) :
         /\ V[s] = W[s]
         /\ Younger(V, s) = Younger(W, s) + IF key = W[s].key THEN 1 ELSE 0
         /\ Younger(W, s) \in Nat
         /\ Plain(V, s) <=> Plain(W, s)
    BY Appended
<1> HIDE DEF V, d, depth, key
<1>5. /\ DOMAIN d.idx = DOMAIN w.idx \cup {key} /\ d.idx[key] = entry
      /\ \A k \in DOMAIN w.idx : d.idx[k] = w.idx[k] /\ k # key
    BY <1>2 DEF Bind, key
<1>6. Positions(d) = Positions(w) /\ Positions(w) = 0..(depth - 1)
    BY <1>2 DEF Positions, depth
<1>7. HeadsIn(d)
    BY <1>1, <1>2, <1>5, <1>6 DEF HeadsIn, Awaiting, Awaits, depth
<1>8. InPlace(d, V)
  <2> SUFFICES ASSUME NEW k \in DOMAIN d.idx, NEW p \in Positions(w), d.idx[k].hist[p] # 0
               PROVE  /\ V[d.idx[k].hist[p]].key = k /\ Plain(V, d.idx[k].hist[p])
                      /\ Younger(V, d.idx[k].hist[p]) = (d.idx[k].headidx - p) % depth
    BY <1>2, <1>6 DEF InPlace, depth
  <2>1. CASE k = key
    <3>1. p = 0 /\ d.idx[k].hist[p] = seq /\ d.idx[k].headidx = 0
      BY <1>5, <2>1
    <3>2. (0 - 0) % depth = 0
      BY <1>1, <1>6, <3>1
    <3> QED BY <1>3, <2>1, <3>1, <3>2 DEF key
  <2>2. CASE k # key
    <3>1. k \in DOMAIN w.idx /\ d.idx[k] = w.idx[k]
      BY <1>5, <2>2
    <3>2. w.idx[k].hist[p] \in 1..(seq - 1)
      BY <1>1, <3>1, EntryWritten
    <3>3. w.idx[k].hist[p] \in 1..Len(W)
      BY <1>1, <3>2
    <3>4. /\ W[w.idx[k].hist[p]].key = k /\ Plain(W, w.idx[k].hist[p])
          /\ Younger(W, w.idx[k].hist[p]) = (w.idx[k].headidx - p) % depth
      BY <3>1 DEF Awaiting, Awaits, InPlace, depth
    <3> QED BY <1>4, <2>2, <3>1, <3>3, <3>4
  <2> QED BY <2>1, <2>2
<1>9. ASSUME NEW s \in DOMAIN d.node
      PROVE  /\ d.node[s].key = V[s].key
             /\ Plain(V, s) /\ Younger(V, s) < depth => Listed(d, V, s)
  <2>1. CASE s = seq
    <3>1. d.node[s].key = V[s].key
      BY <1>2, <1>3, <2>1 DEF Awaiting
    <3>2. ASSUME 0 < depth PROVE Listed(d, V, s)
      <4>1. 0 \in Positions(w)
        BY <1>1, <1>6, <3>2
      <4>2. d.idx[key].hist[0] = s
        BY <1>5, <2>1, <4>1
      <4>3. V[s].key = key /\ key \in DOMAIN d.idx
        BY <1>3, <1>5, <2>1 DEF key
      <4> QED BY <1>6, <4>1, <4>2, <4>3 DEF Listed
    <3> QED BY <1>3, <2>1, <3>1, <3>2
  <2>2. CASE s # seq
    <3>1. s \in DOMAIN w.node /\ s \in 1..Len(W)
      BY <1>1, <1>2, <2>2 DEF Awaiting, Shape
    <3>2. w.node[s].key = W[s].key /\ (Plain(W, s) /\ Younger(W, s) < depth => Listed(w, W, s))
      BY <2>2, <3>1 DEF Awaiting, Awaits, depth
    <3>3. ASSUME Plain(V, s), Younger(V, s) < depth PROVE Listed(d, V, s)
      <4>1. Plain(W, s) /\ Younger(W, s) < depth
        BY <1>1, <1>4, <3>1, <3>3
      <4>2. W[s].key \in DOMAIN w.idx
        BY <3>2, <4>1 DEF Listed
      <4>3. PICK p \in Positions(w) : w.idx[W[s].key].hist[p] = s
        BY <3>2, <4>1 DEF Listed
      <4> QED BY <1>4, <1>5, <1>6, <3>1, <4>2, <4>3 DEF Listed
    <3> QED BY <1>2, <1>4, <3>1, <3>2, <3>3
  <2> QED BY <2>1, <2>2
<1> QED BY <1>2, <1>7, <1>8, <1>9 DEF Ringed, depth, d, V

LEMMA UnindexedSqueezed ==
    ASSUME NEW w, NEW W, NEW seq, NEW x, Awaiting(w, W, seq, x), x.key \notin DOMAIN w.idx, NEW m,
           NEW d, DOMAIN d.node = DOMAIN w.node, x.kind # "unregister" \/ ~(seq <= m)
    PROVE  Squeezed(d, w, W, x, m, seq)
<1>1. ASSUME NEW s \in DOMAIN w.node \ {seq},
             W[s].key = x.key, Plain(W, s), Younger(W, s) < w.wrinfo.idxdepth
      PROVE  FALSE
    BY <1>1 DEF Awaiting, Awaits, Listed
<1>2. seq \in DOMAIN w.node
    BY DEF Awaiting
<1> QED BY <1>1, <1>2 DEF Squeezed

LEMMA UnregisteredRing ==
    ASSUME NEW W \in Seq(Samples), NEW x \in Samples, x.kind = "unregister",
           NEW seq, seq = Len(W) + 1, NEW w, Awaiting(w, W, seq, x),
           NEW v, v.wrinfo = w.wrinfo, v.node = w.node, DOMAIN v.idx = DOMAIN w.idx \ {x.key},
           \A k \in DOMAIN v.idx : v.idx[k] = w.idx[k]
    PROVE  Ringed(v, Append(W, x))
<1> DEFINE V == Append(W, x)
           key == x.key
           depth == w.wrinfo.idxdepth
<1>1. Len(W) \in Nat /\ seq \in Nat /\ seq > 0 /\ depth \in Nat
    BY DEF Awaiting, Infos
<1>2. V[seq] = x /\ ~Plain(V, seq)
    BY LaterOfLast DEF Plain
<1>3. \A s \in 1..Len(W) :
         /\ V[s] = W[s]
         /\ Younger(V, s) = Younger(W, s) + IF key = W[s].key THEN 1 ELSE 0
         /\ Younger(W, s) \in Nat
         /\ Plain(V, s) <=> Plain(W, s) /\ key # W[s].key
    BY Appended
<1> HIDE DEF V, depth, key
<1>4. Positions(v) = Positions(w)
    BY DEF Positions
<1>5. HeadsIn(v)
    BY <1>4 DEF HeadsIn, Awaiting, Awaits
<1>6. InPlace(v, V)
  <2> SUFFICES ASSUME NEW k \in DOMAIN v.idx, NEW p \in Positions(w), v.idx[k].hist[p] # 0
               PROVE  /\ V[v.idx[k].hist[p]].key = k /\ Plain(V, v.idx[k].hist[p])
                      /\ Younger(V, v.idx[k].hist[p]) = (v.idx[k].headidx - p) % depth
    BY <1>4 DEF InPlace, depth
  <2>1. k \in DOMAIN w.idx /\ v.idx[k] = w.idx[k] /\ k # key
    BY DEF key
  <2>2. w.idx[k].hist[p] \in 1..(seq - 1)
    BY <1>1, <2>1, EntryWritten
  <2>3. w.idx[k].hist[p] \in 1..Len(W)
    BY <1>1, <2>2
  <2>4. /\ W[w.idx[k].hist[p]].key = k /\ Plain(W, w.idx[k].hist[p])
        /\ Younger(W, w.idx[k].hist[p]) = (w.idx[k].headidx - p) % depth
    BY <2>1 DEF Awaiting, Awaits, InPlace, depth
  <2> QED BY <1>3, <2>1, <2>3, <2>4
<1>7. ASSUME NEW s \in DOMAIN v.node
      PROVE  /\ v.node[s].key = V[s].key
             /\ Plain(V, s) /\ Younger(V, s) < depth => Listed(v, V, s)
  <2>1. CASE s = seq
    BY <1>2, <2>1 DEF Awaiting
  <2>2. CASE s # seq
    <3>1. s \in DOMAIN w.node /\ s \in 1..Len(W)
      BY <1>1, <2>2 DEF Awaiting, Shape
    <3>2. w.node[s].key = W[s].key /\ (Plain(W, s) /\ Younger(W, s) < depth => Listed(w, W, s))
      BY <2>2, <3>1 DEF Awaiting, Awaits, depth
    <3>3. ASSUME Plain(V, s), Younger(V, s) < depth PROVE Listed(v, V, s)
      <4>1. Plain(W, s) /\ Younger(W, s) < depth /\ W[s].key # key
        BY <1>1, <1>3, <3>1, <3>3
      <4>2. W[s].key \in DOMAIN v.idx
        BY <3>2, <4>1 DEF Listed, key
      <4>3. PICK p \in Positions(w) : w.idx[W[s].key].hist[p] = s
        BY <3>2, <4>1 DEF Listed
      <4> QED BY <1>3, <1>4, <3>1, <4>2, <4>3 DEF Listed
    <3> QED BY <1>3, <3>1, <3>2, <3>3
  <2> QED BY <2>1, <2>2
<1> QED BY <1>5, <1>6, <1>7 DEF Ringed, depth, V

LEMMA UnregisterKeeps ==
    ASSUME NEW W \in Seq(Samples), NEW x \in Samples, x.kind = "unregister",
           NEW seq, seq = Len(W) + 1, NEW w, Awaiting(w, W, seq, x), NEW m \in Nat
    PROVE  LET V == Append(W, x)
               y == IF x.key \in DOMAIN w.idx THEN delete_one_instance_from_idx(w, m, x.key) ELSE w
               d == DropNew(y, m, seq) IN
           /\ Ringed(d, V)
           /\ \A s \in DOMAIN w.node \ DOMAIN d.node : Dropped(w.wrinfo, V, s, m)
           /\ \A s \in DOMAIN d.node : d.node[s] = w.node[s]
           /\ DOMAIN d.node \subseteq DOMAIN w.node
           /\ Squeezed(d, w, W, x, m, seq)
<1> DEFINE V == Append(W, x)
           key == x.key
           y == IF key \in DOMAIN w.idx THEN delete_one_instance_from_idx(w, m, key) ELSE w
           d == DropNew(y, m, seq)
<1>1. Len(W) \in Nat /\ seq \in Nat /\ seq > 0
    OBVIOUS
<1>2. ~Plain(V, seq)
    BY LaterOfLast DEF Plain
<1>3. \A s \in 1..Len(W) : W[s].key = key => ~Plain(V, s)
    BY Appended
<1> HIDE DEF V, d
<1>4. Shape(w, seq) /\ w.wrinfo \in Infos /\ Indexed(w) /\ Counted(w) /\ seq \in DOMAIN w.node
    BY DEF Awaiting
<1>5. /\ Shape(y, seq) /\ y.wrinfo = w.wrinfo /\ Indexed(y) /\ Counted(y)
      /\ Ringed(y, V) /\ seq \in DOMAIN y.node
      /\ DOMAIN y.node \subseteq DOMAIN w.node
      /\ \A s \in DOMAIN y.node : y.node[s] = w.node[s]
      /\ \A s \in DOMAIN w.node \ DOMAIN y.node : s <= m /\ ~Plain(V, s) /\ W[s].key = key
      /\ \A s \in DOMAIN y.node \ {seq} :
            ~(s <= m /\ W[s].key = key /\ Plain(W, s) /\ Younger(W, s) < w.wrinfo.idxdepth)
  <2>1. CASE key \notin DOMAIN w.idx
    <3>1. Ringed(w, V)
      BY <2>1, UnregisteredRing DEF V
    <3>2. ASSUME NEW s \in DOMAIN w.node \ {seq},
                 W[s].key = key, Plain(W, s), Younger(W, s) < w.wrinfo.idxdepth
          PROVE  FALSE
      BY <2>1, <3>2 DEF Awaiting, Awaits, Listed
    <3> QED BY <1>4, <2>1, <3>1, <3>2
  <2>2. CASE key \in DOMAIN w.idx
    <3> DEFINE bare == [w EXCEPT !.idx = Restrict(@, DOMAIN @ \ {key})]
               entries == {w.idx[key].hist[p] : p \in DOMAIN w.idx[key].hist} \ {0}
               gone == {s \in entries : s <= m}
    <3>1. y = whc_delete(bare, gone)
      BY <2>2 DEF delete_one_instance_from_idx
    <3>2. /\ Shape(bare, seq) /\ bare.node = w.node /\ bare.wrinfo = w.wrinfo
          /\ bare.unacked_bytes = w.unacked_bytes
          /\ bare.idx = [k \in DOMAIN w.idx \ {key} |-> w.idx[k]]
      BY <1>4 DEF Shape, Restrict
    <3> HIDE DEF bare, y
    <3>3. Indexed(bare) /\ Counted(bare)
      BY <1>4, <3>2 DEF Indexed, Positions, Counted, Unacked
    <3>4. Ringed(bare, V)
      BY <3>2, UnregisteredRing DEF V, key
    <3>5. DOMAIN w.idx[key].hist = Positions(w)
      BY <1>4, <2>2 DEF Indexed
    <3>6. ASSUME NEW s \in gone
          PROVE  s <= m /\ s \in DOMAIN w.node /\ s # seq /\ ~Plain(V, s) /\ W[s].key = key
      <4>1. PICK p \in Positions(w) : s = w.idx[key].hist[p] /\ s # 0 /\ s <= m
        BY <3>5, <3>6
      <4>2. s \in 1..(seq - 1) /\ s \in DOMAIN w.node
        BY <1>1, <2>2, <4>1, EntryWritten
      <4>3. W[s].key = key
        BY <2>2, <4>1 DEF Awaiting, Awaits, InPlace
      <4> QED BY <1>1, <1>3, <4>1, <4>2, <4>3
    <3>6a. ASSUME NEW s \in DOMAIN w.node \ {seq}, s <= m,
                  W[s].key = key, Plain(W, s), Younger(W, s) < w.wrinfo.idxdepth
           PROVE  s \in gone
      <4>1. Listed(w, W, s)
        BY <3>6a DEF Awaiting, Awaits
      <4>2. PICK p \in Positions(w) : w.idx[key].hist[p] = s
        BY <3>6a, <4>1 DEF Listed
      <4>3. s # 0
        BY <1>4 DEF Shape
      <4> QED BY <3>5, <3>6a, <4>2, <4>3
    <3> HIDE DEF gone
    <3>7. gone \subseteq DOMAIN bare.node /\ seq \notin gone
      BY <3>2, <3>6
    <3>8. /\ Shape(y, seq) /\ y.wrinfo = bare.wrinfo
          /\ DOMAIN y.node = DOMAIN bare.node \ gone
          /\ \A s \in DOMAIN y.node : y.node[s] = bare.node[s]
      BY <3>1, <3>2, DeleteShape DEF Part
    <3>9. Indexed(y) /\ Counted(y)
      BY <1>1, <3>1, <3>2, <3>3, <3>7, DeleteBook
    <3>10. Ringed(y, V)
      BY <1>1, <3>1, <3>2, <3>3, <3>4, <3>7, DeleteRing
    <3> QED BY <1>4, <3>2, <3>6, <3>6a, <3>7, <3>8, <3>9, <3>10
  <2> QED BY <2>1, <2>2
<1> HIDE DEF y
<1>6. CASE seq <= m
  <2> DEFINE z == whc_delete(y, {seq})
  <2>1. d = WithMaxSeq(z)
    BY <1>6 DEF d, DropNew
  <2>2. /\ Shape(z, seq) /\ DOMAIN z.node = DOMAIN y.node \ {seq}
        /\ \A s \in DOMAIN z.node : z.node[s] = y.node[s]
    BY <1>5, DeleteShape
  <2>3. Ringed(z, V)
    BY <1>1, <1>5, DeleteRing
  <2> HIDE DEF z
  <2>4. Ringed(d, V) /\ d.node = z.node
    BY <2>1, <2>2, <2>3, MaxSeqShape, MaxSeqRing
  <2>5. \A s \in DOMAIN w.node \ DOMAIN d.node : s <= m /\ ~Plain(V, s)
    BY <1>2, <1>5, <1>6, <2>2, <2>4
  <2>6. Squeezed(d, w, W, x, m, seq)
    BY <1>5, <1>6, <2>2, <2>4 DEF Squeezed
  <2> QED BY <1>5, <2>2, <2>4, <2>5, <2>6 DEF Dropped, d, V, y
<1>7. CASE ~(seq <= m)
  <2>1. d = y
    BY <1>7 DEF d, DropNew
  <2>2. Squeezed(d, w, W, x, m, seq)
    BY <1>5, <1>7, <2>1 DEF Squeezed
  <2> QED BY <1>5, <2>1, <2>2 DEF Dropped, d, V, y
<1> QED BY <1>6, <1>7

\* All ways through whc_insert.
LEMMA InsertKeeps ==
    ASSUME NEW W \in Seq(Samples), NEW x \in Samples, NEW seq, seq = Len(W) + 1,
           NEW w, Shape(w, Len(W)), w.wrinfo \in Infos, Indexed(w), Counted(w), Ringed(w, W),
           NEW m \in Nat
    PROVE  LET V == Append(W, x)
               d == whc_insert(w, m, seq, x.key, x.kind = "unregister") IN
           /\ Ringed(d, V)
           /\ \A s \in (DOMAIN w.node \cup {seq}) \ DOMAIN d.node : Dropped(w.wrinfo, V, s, m)
           /\ DOMAIN d.node \subseteq DOMAIN w.node \cup {seq}
           /\ \A s \in DOMAIN d.node \ {seq} : d.node[s].unacked <=> w.node[s].unacked
           /\ seq \in DOMAIN d.node => (d.node[seq].unacked <=> seq > m)
           /\ w.wrinfo.tldepth > 0 => Squeezed(d, w, W, x, m, seq)
<1> DEFINE V == Append(W, x)
           key == x.key
           new == whc_insert_seq(w, m, seq, key)
           depth == w.wrinfo.idxdepth
           entry == [headidx |-> 0, hist |-> [p \in 0..(depth - 1) |-> IF p = 0 THEN seq ELSE 0]]
           bound == [new EXCEPT !.idx = Bind(@, key, entry)]
           y == IF key \in DOMAIN w.idx THEN delete_one_instance_from_idx(new, m, key) ELSE new
           d == whc_insert(w, m, seq, key, x.kind = "unregister")
           Good(v) == /\ Ringed(v, V)
                      /\ \A s \in DOMAIN new.node \ DOMAIN v.node : Dropped(w.wrinfo, V, s, m)
                      /\ \A s \in DOMAIN v.node : v.node[s] = new.node[s]
                      /\ DOMAIN v.node \subseteq DOMAIN new.node
                      /\ new.wrinfo.tldepth > 0 => Squeezed(v, new, W, x, m, seq)
<1>1. /\ Awaiting(new, W, seq, x)
      /\ new.idx = w.idx /\ new.wrinfo = w.wrinfo /\ DOMAIN new.node = DOMAIN w.node \cup {seq}
      /\ \A s \in DOMAIN w.node : new.node[s] = w.node[s]
      /\ new.node[seq].unacked <=> seq > m
    BY InsertSeqAwaits
<1>2. seq \notin DOMAIN w.node /\ depth \in Nat
    BY DEF Shape, Infos
<1>3. d = IF x.kind = "unregister" THEN DropNew(y, m, seq)
          ELSE IF key \notin DOMAIN w.idx THEN bound
          ELSE IF depth > 0 THEN AddToInstance(new, m, seq, key) ELSE new
    BY DEF whc_insert
<1> HIDE DEF new, d
<1>4. ASSUME x.kind = "unregister" PROVE Good(d)
  <2>1. d = DropNew(IF key \in DOMAIN new.idx THEN delete_one_instance_from_idx(new, m, key) ELSE new, m, seq)
    BY <1>1, <1>3, <1>4
  <2> QED BY <1>1, <1>4, <2>1, UnregisterKeeps
<1>5. ASSUME x.kind # "unregister", key \notin DOMAIN w.idx PROVE Good(d)
  <2>1. d = bound
    BY <1>3, <1>5
  <2>2. entry.headidx = 0 /\ \A p \in Positions(new) : entry.hist[p] = IF p = 0 THEN seq ELSE 0
    BY <1>1 DEF Positions
  <2> HIDE DEF entry
  <2>3. Ringed(bound, V) /\ bound.node = new.node
    BY <1>1, <1>5, <2>2, BoundRing
  <2>4. Squeezed(bound, new, W, x, m, seq)
    BY <1>1, <1>5, <2>3, UnindexedSqueezed
  <2> QED BY <2>1, <2>3, <2>4
<1>6. ASSUME x.kind # "unregister", key \in DOMAIN w.idx, depth > 0 PROVE Good(d)
  <2>1. d = AddToInstance(new, m, seq, key)
    BY <1>3, <1>6
  <2> QED BY <1>1, <1>6, <2>1, AddKeeps
<1>7. ASSUME x.kind # "unregister", key \in DOMAIN w.idx, ~(depth > 0) PROVE Good(d)
  <2>1. d = new /\ depth = 0
    BY <1>2, <1>3, <1>7
  <2>2. Positions(new) = {}
    BY <1>1, <2>1 DEF Positions
  <2>3. Len(W) \in Nat /\ \A s \in DOMAIN new.node : s \in 1..seq
    BY <1>1 DEF Awaiting, Shape
  <2>4. ASSUME NEW s \in DOMAIN new.node
        PROVE  new.node[s].key = V[s].key /\ Younger(V, s) \in Nat
    <3>1. CASE s = seq
      BY <1>1, <3>1, LaterOfLast DEF Awaiting
    <3>2. CASE s # seq
      <4>1. s \in 1..Len(W)
        BY <2>3, <3>2
      <4>2. V[s] = W[s] /\ Younger(V, s) \in Nat
        BY <4>1, Appended
      <4> QED BY <1>1, <3>2, <4>2 DEF Awaiting, Awaits
    <3> QED BY <3>1, <3>2
  <2> HIDE DEF V
  <2>5. HeadsIn(new) /\ InPlace(new, V)
    BY <1>1, <2>1, <2>2 DEF HeadsIn, InPlace
  <2>6. Ringed(new, V)
    BY <1>1, <2>1, <2>4, <2>5 DEF Ringed
  <2>7. ~(new.wrinfo.tldepth > 0)
    BY <1>1, <2>1 DEF Infos
  <2> QED BY <2>1, <2>6, <2>7
<1>8. Good(d)
    BY <1>4, <1>5, <1>6, <1>7
<1> HIDE DEF V
<1>9. \A s \in DOMAIN d.node \ {seq} : d.node[s].unacked <=> w.node[s].unacked
    BY <1>1, <1>8, Zenon
<1>10. seq \in DOMAIN d.node => (d.node[seq].unacked <=> seq > m)
    BY <1>1, <1>8, Zenon
<1>11. w.wrinfo.tldepth > 0 => Squeezed(d, w, W, x, m, seq)
  <2>1. w.wrinfo.tldepth > 0 => Squeezed(d, new, W, x, m, seq)
    BY <1>1, <1>8
  <2> QED BY <1>1, <2>1 DEF Squeezed
<1> QED BY <1>1, <1>8, <1>9, <1>10, <1>11, Zenon DEF d, V

----------------------------------------------------------------------------
\* Samples that replaced s before its instance was unregistered.
Until(W, s) == {t \in Later(W, s) : \A u \in Unreg(W, s) : t < u}
Replaced(W, s) == Cardinality(Until(W, s))

LEMMA UntilFinite ==
    ASSUME NEW W \in Seq(Samples), NEW s \in 1..Len(W)
    PROVE  /\ IsFiniteSet(Until(W, s)) /\ Replaced(W, s) \in Nat
           /\ Plain(W, s) => Replaced(W, s) = Younger(W, s)
<1>1. IsFiniteSet(Later(W, s)) /\ Until(W, s) \in SUBSET Later(W, s)
    BY LaterFinite DEF Until
<1>2. IsFiniteSet(Until(W, s))
    BY <1>1, FS_Subset
<1>3. Plain(W, s) => Until(W, s) = Later(W, s)
    BY DEF Plain, Until
<1> QED BY <1>2, <1>3, FS_CardinalityType DEF Replaced, Younger

\* Dropped, in terms of what the readers have acknowledged; unlike the limit m
\* of one step it stays true for good.
Excused(i, W, s, f) ==
    /\ (\A r \in DOMAIN f : s <= f[r]) \/ (i.hdepth > 0 /\ Replaced(W, s) >= i.hdepth)
    /\ i.is_transient_local => ~Plain(W, s) \/ (i.tldepth > 0 /\ Younger(W, s) >= i.tldepth)

LEMMA DroppedIsExcused ==
    ASSUME NEW i, NEW W \in Seq(Samples), NEW s \in 1..Len(W), NEW m \in Nat, Dropped(i, W, s, m),
           NEW f, \A r \in DOMAIN f : f[r] \in Nat /\ m <= f[r]
    PROVE  Excused(i, W, s, f)
<1>1. CASE s <= m
  <2>1. \A r \in DOMAIN f : s <= f[r]
    BY <1>1
  <2> QED BY <2>1 DEF Dropped, Excused
<1>2. CASE ~(s <= m)
  <2>1. i.hdepth > 0 /\ Replaced(W, s) >= i.hdepth
    BY <1>2, UntilFinite DEF Dropped
  <2> QED BY <2>1 DEF Dropped, Excused
<1> QED BY <1>1, <1>2

LEMMA ExcusedStays ==
    ASSUME NEW i, i \in Infos, NEW W \in Seq(Samples), NEW x \in Samples, NEW s \in 1..Len(W),
           NEW f, Excused(i, W, s, f)
    PROVE  Excused(i, Append(W, x), s, f)
<1> DEFINE V == Append(W, x)
           n == Len(W) + 1
<1>1. V \in Seq(Samples) /\ s \in 1..Len(V) /\ Len(W) \in Nat
    BY SamplesWritten
<1>2. /\ Later(V, s) = Later(W, s) \cup (IF x.key = W[s].key THEN {n} ELSE {})
      /\ Unreg(V, s) = Unreg(W, s) \cup (IF x.key = W[s].key /\ x.kind = "unregister" THEN {n} ELSE {})
      /\ Younger(V, s) = Younger(W, s) + IF x.key = W[s].key THEN 1 ELSE 0
    BY LaterAppended
<1>3. Younger(W, s) \in Nat /\ (Plain(V, s) => Plain(W, s))
    BY Appended
<1> HIDE DEF V
<1>4. Until(W, s) \in SUBSET Until(V, s)
  <2>1. \A t \in Later(W, s) : t < n
    BY <1>1 DEF Later, n
  <2> HIDE DEF n
  <2>2. Later(W, s) \subseteq Later(V, s) /\ Unreg(V, s) \subseteq Unreg(W, s) \cup {n}
    BY <1>2
  <2> QED BY <2>1, <2>2 DEF Until
<1>5. Replaced(W, s) <= Replaced(V, s)
    BY <1>1, <1>4, UntilFinite, FS_Subset DEF Replaced
<1>6. Replaced(W, s) \in Nat /\ Replaced(V, s) \in Nat
    BY <1>1, UntilFinite
<1>7. i.hdepth \in Nat /\ i.tldepth \in Nat
    BY DEF Infos
<1>8. i.hdepth > 0 /\ Replaced(W, s) >= i.hdepth => i.hdepth > 0 /\ Replaced(V, s) >= i.hdepth
    BY <1>5, <1>6, <1>7
<1>9. i.tldepth > 0 /\ Younger(W, s) >= i.tldepth => i.tldepth > 0 /\ Younger(V, s) >= i.tldepth
    BY <1>2, <1>3, <1>7
<1> QED BY <1>3, <1>8, <1>9 DEF Excused, V

LEMMA RemoveNoidxKeeps ==
    ASSUME NEW w, NEW n \in Nat, Shape(w, n), MaxKnown(w), OneRun(w, n), NEW m \in 0..n
    PROVE  LET d == whc_remove_acked_messages_noidx(w, m) IN
           d.idx = w.idx /\ \A s \in DOMAIN w.node \ DOMAIN d.node : s <= m
<1> DEFINE first == OpenMin(w.node)
           last == IF m \in DOMAIN w.node THEN m ELSE w.maxseq_node
           rest == Restrict(w.node, DOMAIN w.node \ first..last)
           top == Max({w.max_drop_seq, m})
           cut == [w EXCEPT !.node = rest,
                            !.maxseq_node = IF last = @ THEN 0 ELSE @,
                            !.unacked_bytes = @ - (last - first + 1)]
           early == m <= w.max_drop_seq \/ w.maxseq_node = 0 \/ m < first
           d == whc_remove_acked_messages_noidx(w, m)
<1>1. cut.idx = w.idx /\ cut.node = rest /\ cut.max_drop_seq = w.max_drop_seq
  <2> HIDE DEF first, last, rest
  <2> QED BY DEF Shape
<1>2. d = IF early THEN [w EXCEPT !.max_drop_seq = top] ELSE [cut EXCEPT !.max_drop_seq = top]
    BY <1>1, Zenon DEF whc_remove_acked_messages_noidx
<1>3. CASE early
    BY <1>2, <1>3 DEF Shape
<1>4. CASE ~early
  <2>1. DOMAIN w.node # {}
    BY <1>4, MaxSeqIs DEF MaxKnown
  <2>2. first \in 1..n /\ DOMAIN w.node = first..n
    BY <2>1, RunIs
  <2>3. last = m
    BY <1>4, <2>2
  <2>4. d.idx = w.idx /\ d.node = rest
    <3>1. d.idx = cut.idx /\ d.node = cut.node
      <4>1. Shape(cut, n)
        <5> HIDE DEF first, last
        <5> QED BY DEF Shape, Restrict
      <4>2. d = [cut EXCEPT !.max_drop_seq = top]
        BY <1>2, <1>4
      <4> HIDE DEF d, cut, top
      <4> QED BY <4>1, <4>2 DEF Shape
    <3> QED BY <1>1, <3>1
  <2>5. DOMAIN rest = DOMAIN w.node \ first..m
    BY <2>3 DEF Restrict
  <2>6. \A s \in first..m : s <= m
    BY <2>2
  <2> QED BY <2>4, <2>5, <2>6
<1> QED BY <1>3, <1>4

----------------------------------------------------------------------------
\* A volatile cache holds nothing that is acknowledged.
Fresh == ~whc.wrinfo.is_transient_local => \A s \in Stored : whc.node[s].unacked

\* A written sample is stored, has expired, or may be missing.
NoneMissing == \A s \in 1..wrseq : s \in Stored \cup expired \/ Excused(whc.wrinfo, written, s, rn)

Kept == Ringed(whc, written) /\ Fresh /\ NoneMissing

\* The invariant: with the counts, because the deletions they count are those
\* that the rings and NoneMissing are about.
KeepInv == CountInv /\ (NoHoles => Kept)

\* One lemma for each way into the cache.
LEMMA InsertKeepsAll ==
    ASSUME Types, Book, Kept, NEW x \in Samples, Insert(x), rn' = rn, expired' = expired
    PROVE  Kept'
<1> DEFINE seq == wrseq + 1
           m == MaxDropSeq(rn, seq)
           d == whc_insert(whc, m, seq, x.key, x.kind = "unregister")
           V == Append(written, x)
<1>1. /\ wrseq \in Nat /\ wrseq = Len(written) /\ wrseq' = seq
      /\ written \in Seq(Samples) /\ V \in Seq(Samples) /\ Len(V) = seq /\ written' = V
    BY InsertTypes, SamplesWritten DEF Types, wrseq, Insert
<1>2. /\ Shape(whc, Len(written)) /\ whc.wrinfo \in Infos /\ Indexed(whc) /\ Counted(whc)
      /\ Ringed(whc, written)
    BY DEF Types, Book, Kept, wrseq
<1>3. whc'.wrinfo = whc.wrinfo
    BY InsertTypes
<1>4. rn \in [DOMAIN rn -> 0..wrseq]
    BY DEF Types, Matched
<1>5. /\ m \in 0..seq /\ \A r \in DOMAIN rn : m <= rn[r]
      /\ \A r \in DOMAIN rn : rn[r] \in Nat
    BY <1>1, <1>4, AckedTo
<1>6. CASE Matched # {} \/ whc.wrinfo.is_transient_local
  <2>1. whc' = d
    BY <1>6 DEF Insert, Store
  <2>2. m \in Nat
    BY <1>1, <1>5
  <2> HIDE DEF m
  <2>3. /\ Ringed(d, V)
        /\ \A s \in (DOMAIN whc.node \cup {seq}) \ DOMAIN d.node : Dropped(whc.wrinfo, V, s, m)
        /\ DOMAIN d.node \subseteq DOMAIN whc.node \cup {seq}
        /\ \A s \in DOMAIN d.node \ {seq} : d.node[s].unacked <=> whc.node[s].unacked
        /\ seq \in DOMAIN d.node => (d.node[seq].unacked <=> seq > m)
    <3>1. seq = Len(written) + 1
      BY <1>1
    <3> HIDE DEF seq
    <3>2. Ringed(d, V)
      BY <1>1, <1>2, <2>2, <3>1, InsertKeeps
    <3>3. \A s \in (DOMAIN whc.node \cup {seq}) \ DOMAIN d.node : Dropped(whc.wrinfo, V, s, m)
      BY <1>1, <1>2, <2>2, <3>1, InsertKeeps
    <3>4. DOMAIN d.node \subseteq DOMAIN whc.node \cup {seq}
      BY <1>1, <1>2, <2>2, <3>1, InsertKeeps
    <3>5. \A s \in DOMAIN d.node \ {seq} : d.node[s].unacked <=> whc.node[s].unacked
      BY <1>1, <1>2, <2>2, <3>1, InsertKeeps
    <3>6. seq \in DOMAIN d.node => (d.node[seq].unacked <=> seq > m)
      BY <1>1, <1>2, <2>2, <3>1, InsertKeeps
    <3> QED BY <3>2, <3>3, <3>4, <3>5, <3>6, Zenon
  <2> HIDE DEF d, V, seq
  <2>4. ASSUME ~whc.wrinfo.is_transient_local, NEW s \in DOMAIN d.node
        PROVE  d.node[s].unacked
    <3>1. CASE s = seq
      <4>1. PICK r \in DOMAIN rn : TRUE
        BY <1>6, <2>4 DEF Matched
      <4>2. seq > m
        BY <1>1, <1>4, <1>5, <4>1 DEF seq
      <4> QED BY <2>3, <3>1, <4>2
    <3>2. CASE s # seq
      <4>1. s \in DOMAIN whc.node
        BY <2>3, <3>2
      <4>2. whc.node[s].unacked
        BY <2>4, <4>1, Zenon DEF Kept, Fresh, Stored
      <4> QED BY <2>3, <3>2, <4>2
    <3> QED BY <3>1, <3>2
  <2>5. ASSUME NEW s \in 1..seq, s \notin DOMAIN d.node, s \notin expired
        PROVE  Excused(whc.wrinfo, V, s, rn)
    <3>1. CASE s \in DOMAIN whc.node \cup {seq}
      <4>1. Dropped(whc.wrinfo, V, s, m)
        BY <2>3, <2>5, <3>1
      <4> QED BY <1>1, <1>5, <2>2, <4>1, DroppedIsExcused
    <3>2. CASE s \notin DOMAIN whc.node \cup {seq}
      <4>1. s \in 1..wrseq
        BY <1>1, <3>2 DEF seq
      <4>2. Excused(whc.wrinfo, written, s, rn)
        BY <2>5, <3>2, <4>1 DEF Kept, NoneMissing, Stored
      <4> QED BY <1>1, <1>2, <4>1, <4>2, ExcusedStays DEF V
    <3> QED BY <3>1, <3>2
  <2>6. Fresh'
    BY <1>3, <2>1, <2>4, Zenon DEF Fresh, Stored
  <2>7. NoneMissing'
    BY <1>1, <1>3, <2>1, <2>5 DEF NoneMissing, Stored
  <2>8. Ringed(whc', written')
    BY <1>1, <2>1, <2>3
  <2> QED BY <2>6, <2>7, <2>8 DEF Kept
<1>7. CASE ~(Matched # {} \/ whc.wrinfo.is_transient_local)
  <2>1. whc' = whc
    BY <1>7 DEF Insert
  <2>2. DOMAIN whc.node = {}
    <3>1. Unacked(whc) = {}
      BY <1>7 DEF Book
    <3>2. \A s \in DOMAIN whc.node : whc.node[s].unacked
      BY <1>7, Zenon DEF Kept, Fresh, Stored
    <3> QED BY <3>1, <3>2, Zenon DEF Unacked
  <2> HIDE DEF V, seq
  <2>3. Ringed(whc, V)
    <3>1. \A k \in DOMAIN whc.idx : \A p \in Positions(whc) : whc.idx[k].hist[p] = 0
      BY <1>2, <2>2 DEF Indexed
    <3>2. InPlace(whc, V)
      BY <3>1 DEF InPlace
    <3> QED BY <1>2, <2>2, <3>2 DEF Ringed
  <2>4. Fresh'
    BY <2>1, <2>2 DEF Fresh, Stored
  <2>5. \A s : Excused(whc.wrinfo, V, s, rn)
    BY <1>7 DEF Excused, Matched
  <2> QED BY <1>1, <2>1, <2>3, <2>4, <2>5 DEF Kept, NoneMissing
<1> QED BY <1>6, <1>7

LEMMA RemoveKeepsAll ==
    ASSUME Types, Book, Kept, NEW f, f \in [DOMAIN f -> 0..wrseq],
           DOMAIN f \subseteq Matched, \A r \in DOMAIN f : rn[r] <= f[r],
           rn' = f, written' = written, expired' = expired, remove_acked_messages(f), Book'
    PROVE  Kept'
<1> DEFINE m == MaxDropSeq(f, wrseq)
           d == whc_remove_acked_messages(whc, m)
<1>1. /\ wrseq \in Nat /\ wrseq = Len(written) /\ written \in Seq(Samples)
      /\ wrseq' = wrseq /\ whc' = d /\ rn \in [Matched -> 0..wrseq]
    BY DEF Types, wrseq, remove_acked_messages, Store
<1>2. m \in 0..wrseq /\ \A r \in DOMAIN f : m <= f[r]
    BY <1>1, AckedTo
<1>3. m \in Nat /\ \A r \in DOMAIN f : f[r] \in Nat
    BY <1>1, <1>2
<1> HIDE DEF m
<1>4. /\ Shape(whc, wrseq) /\ whc.wrinfo \in Infos /\ Indexed(whc) /\ Counted(whc) /\ MaxKnown(whc)
      /\ Ringed(whc, written)
    BY DEF Types, Book, Kept
<1>5. Shape(d, wrseq) /\ Part(d, whc)
    BY <1>4, RemoveShape
<1>6. d.wrinfo = whc.wrinfo /\ DOMAIN d.node \subseteq DOMAIN whc.node
    BY <1>5 DEF Part
<1>7. /\ Ringed(d, written)
      /\ \A s \in DOMAIN whc.node \ DOMAIN d.node : Dropped(whc.wrinfo, written, s, m)
      /\ ~whc.wrinfo.is_transient_local => \A s \in DOMAIN d.node : d.node[s].unacked
  <2>1. CASE NoIndex
    <3>1. d = whc_remove_acked_messages_noidx(whc, m)
      BY <2>1 DEF NoIndex, whc_remove_acked_messages
    <3>2. OneRun(whc, wrseq) /\ ~whc.wrinfo.is_transient_local
      BY <2>1 DEF Book, NoIndex
    <3>3. d.idx = whc.idx /\ \A s \in DOMAIN whc.node \ DOMAIN d.node : s <= m
      BY <1>1, <1>2, <1>4, <3>1, <3>2, RemoveNoidxKeeps
    <3>4. NoIndex' /\ OneRun(d, wrseq)
      <4>1. NoIndex'
        BY <1>1, <1>6, <2>1 DEF NoIndex
      <4> QED BY <1>1, <4>1 DEF Book
    <3> HIDE DEF d
    <3>5. Ringed(d, written)
      BY <1>4, <1>5, <3>3, SameRing
    <3>6. \A s \in DOMAIN d.node : d.node[s].unacked
      BY <3>4, Zenon DEF OneRun
    <3>7. \A s \in DOMAIN whc.node \ DOMAIN d.node : Dropped(whc.wrinfo, written, s, m)
      BY <3>2, <3>3 DEF Dropped
    <3> QED BY <3>5, <3>6, <3>7
  <2>2. CASE ~NoIndex
    <3>1. d = whc_remove_acked_messages_full(whc, m)
      BY <2>2 DEF NoIndex, whc_remove_acked_messages
    <3> HIDE DEF d
    <3>2. /\ Ringed(d, written)
          /\ \A s \in DOMAIN whc.node \ DOMAIN d.node : Dropped(whc.wrinfo, written, s, m)
          /\ ~whc.wrinfo.is_transient_local =>
                \A s \in DOMAIN d.node : d.node[s].unacked <=> whc.node[s].unacked
      BY <1>1, <1>3, <1>4, <3>1, RemoveFullKeeps
    <3>3. ASSUME ~whc.wrinfo.is_transient_local, NEW s \in DOMAIN d.node
          PROVE  d.node[s].unacked
      <4>1. whc.node[s].unacked
        BY <1>6, <3>3, Zenon DEF Kept, Fresh, Stored
      <4> QED BY <3>2, <3>3, <4>1
    <3> QED BY <3>2, <3>3
  <2> QED BY <2>1, <2>2
<1> HIDE DEF d
<1>8. ASSUME NEW s \in 1..wrseq, s \notin DOMAIN d.node, s \notin expired
      PROVE  Excused(whc.wrinfo, written, s, f)
  <2>1. CASE s \in DOMAIN whc.node
    BY <1>1, <1>2, <1>3, <1>7, <1>8, <2>1, DroppedIsExcused
  <2>2. CASE s \notin DOMAIN whc.node
    <3>1. Excused(whc.wrinfo, written, s, rn)
      BY <1>8, <2>2 DEF Kept, NoneMissing, Stored
    <3>2. (\A r \in Matched : s <= rn[r]) => \A r \in DOMAIN f : s <= f[r]
      <4> SUFFICES ASSUME \A r \in Matched : s <= rn[r], NEW r \in DOMAIN f PROVE s <= f[r]
        OBVIOUS
      <4>1. r \in Matched /\ rn[r] \in Nat /\ f[r] \in Nat
        BY <1>1, <1>3
      <4> QED BY <4>1
    <3> QED BY <3>1, <3>2 DEF Excused, Matched
  <2> QED BY <2>1, <2>2
<1>9. Fresh'
    BY <1>1, <1>6, <1>7, Zenon DEF Fresh, Stored
<1>10. NoneMissing'
    BY <1>1, <1>6, <1>8 DEF NoneMissing, Stored
<1> QED BY <1>1, <1>7, <1>9, <1>10 DEF Kept

LEMMA SamePlaceKeeps ==
    ASSUME Kept, NEW d, whc' = d, DOMAIN d.node = Stored, d.idx = whc.idx, d.wrinfo = whc.wrinfo,
           \A s \in Stored : d.node[s].key = whc.node[s].key /\ (d.node[s].unacked <=> whc.node[s].unacked),
           UNCHANGED <<rn, written, expired>>
    PROVE  Kept'
<1>1. Ringed(d, written)
    BY DEF Kept, Ringed, HeadsIn, InPlace, Listed, Positions, Stored
<1>2. Fresh'
    BY Zenon DEF Kept, Fresh, Stored
<1>3. NoneMissing'
    BY DEF Kept, NoneMissing, Stored, wrseq
<1> QED BY <1>1, <1>2, <1>3 DEF Kept

LEMMA LoanKeepsAll ==
    ASSUME Types, Kept, NEW s \in Stored, NEW b \in BOOLEAN,
           whc' = [whc EXCEPT !.node[s].borrowed = b], UNCHANGED <<rn, written, expired>>
    PROVE  Kept'
<1> DEFINE d == [whc EXCEPT !.node[s].borrowed = b]
<1>1. s \in DOMAIN whc.node /\ Shape(whc, wrseq)
    BY DEF Stored, Types
<1>2. /\ d.wrinfo = whc.wrinfo /\ d.idx = whc.idx
      /\ DOMAIN d.node = DOMAIN whc.node
      /\ \A t \in DOMAIN whc.node : t # s => d.node[t] = whc.node[t]
      /\ d.node[s] = [whc.node[s] EXCEPT !.borrowed = b]
    BY <1>1, LoanShape
<1> HIDE DEF d
<1>3. d.node[s].key = whc.node[s].key /\ d.node[s].unacked = whc.node[s].unacked
  <2>1. whc.node[s] \in Node
    BY <1>1 DEF Shape
  <2> QED BY <1>2, <2>1 DEF Node
<1>4. \A t \in Stored : d.node[t].key = whc.node[t].key /\ (d.node[t].unacked <=> whc.node[t].unacked)
    BY <1>2, <1>3, Zenon DEF Stored
<1>5. whc' = d
    BY DEF d
<1> QED BY <1>2, <1>4, <1>5, SamePlaceKeeps DEF Stored

LEMMA ExpiryKeepsAll ==
    ASSUME Types, Book, Kept, Expire
    PROVE  Kept'
<1>1. PICK s : s = Min(Expirable)
    OBVIOUS
<1> DEFINE d == whc_delete(whc, {s})
           e == WithMaxSeq(d)
<1>2. /\ Shape(whc, wrseq) /\ wrseq \in Nat /\ Indexed(whc) /\ Counted(whc)
      /\ Ringed(whc, written)
    BY DEF Types, Book, wrseq, Kept
<1>3. s \in DOMAIN whc.node
  <2>1. Expirable \subseteq Nat /\ Expirable # {}
    BY <1>2 DEF Expire, Expirable, Shape
  <2> QED BY <1>1, <2>1, MinIsLeast DEF Expirable
<1>4. whc' = e /\ UNCHANGED <<written, rn>> /\ expired' = expired \cup {s}
    BY <1>1 DEF Expire, Store
<1>5. /\ Shape(d, wrseq) /\ d.wrinfo = whc.wrinfo
      /\ DOMAIN d.node = DOMAIN whc.node \ {s}
      /\ \A t \in DOMAIN d.node : d.node[t] = whc.node[t]
    BY <1>2, DeleteShape DEF Part
<1>6. Ringed(d, written)
    BY <1>2, <1>3, DeleteRing
<1> HIDE DEF d
<1>7. Ringed(e, written) /\ e.node = d.node /\ e.wrinfo = whc.wrinfo
    BY <1>5, <1>6, MaxSeqShape, MaxSeqRing DEF Part
<1> HIDE DEF e
<1>8. Fresh'
    BY <1>4, <1>5, <1>7, Zenon DEF Kept, Fresh, Stored
<1>9. NoneMissing'
    BY <1>4, <1>5, <1>7 DEF Kept, NoneMissing, Stored, wrseq
<1> QED BY <1>4, <1>7, <1>8, <1>9 DEF Kept

LEMMA InitKeep == Init => KeepInv
<1> SUFFICES ASSUME Init PROVE Kept
    BY InitCount DEF KeepInv
<1>1. PICK c \in Settings : lifespan = c.lifespan /\ whc = whc_new(c.wrinfo)
    BY DEF Init
<1>2. whc.node = <<>> /\ whc.idx = <<>>
    BY <1>1 DEF whc_new
<1>3. wrseq = 0
    BY DEF Init, wrseq
<1>4. DOMAIN whc.node = {} /\ DOMAIN whc.idx = {}
    BY <1>2
<1> QED BY <1>3, <1>4 DEF Kept, Ringed, HeadsIn, InPlace, Fresh, NoneMissing, Stored

LEMMA NextKeep == KeepInv /\ [Next]_vars => KeepInv'
<1> SUFFICES ASSUME CountInv, NoHoles, Types, Book, Book', Kept, [Next]_vars
             PROVE  Kept'
    BY NextCount, SameSettings DEF KeepInv, CountInv
<1>0. wrseq \in Nat /\ rn \in [Matched -> 0..wrseq]
    BY DEF Types, wrseq
<1>1. ASSUME UNCHANGED <<whc, rn, written, expired>>
      PROVE  Kept'
    BY <1>1 DEF Kept, Fresh, NoneMissing, Stored, wrseq
<1>2. ASSUME NEW w \in Samples, Write(w) \/ Throttled(w)
      PROVE  Kept'
    BY <1>1, <1>2, InsertKeepsAll DEF Write, Throttled
<1>3. CASE ThrottleTimeout \/ WaitForAcks \/ WaiterWakes \/ UNCHANGED vars
    BY <1>1, <1>3 DEF ThrottleTimeout, WaitForAcks, WaiterWakes, vars
<1>4. ASSUME NEW r \in Readers, NEW base \in 1..(MaxSeq + 1), Ack(r, base)
      PROVE  Kept'
  <2>1. base - 1 \in Nat /\ base - 1 > rn[r] /\ r \in Matched
    BY <1>4, HistoryAssumption DEF Ack
  <2> DEFINE x == Min({base - 1, wrseq})
             f == [rn EXCEPT ![r] = x]
  <2>2. x \in 0..wrseq /\ x \in {base - 1, wrseq}
    BY <1>0, <2>1, MinIsLeast
  <2>3. rn' = f /\ written' = written /\ expired' = expired /\ remove_acked_messages(f)
    BY <1>4 DEF Ack
  <2> HIDE DEF x
  <2>4. f \in [DOMAIN f -> 0..wrseq] /\ DOMAIN f \subseteq Matched
    BY <1>0, <2>2
  <2>5. \A q \in DOMAIN f : rn[q] <= f[q]
    BY <1>0, <2>1, <2>2
  <2> HIDE DEF f
  <2> QED BY <2>3, <2>4, <2>5, RemoveKeepsAll
<1>5. ASSUME NEW s \in 1..MaxSeq, Borrow(s)
      PROVE  Kept'
    BY <1>5, LoanKeepsAll DEF Borrow, Stored
<1>6. CASE Return
  <2>1. CASE lent \notin DOMAIN whc.node
    BY <1>1, <1>6, <2>1 DEF Return
  <2>2. CASE lent \in DOMAIN whc.node
    <3>1. PICK s : s = lent
      OBVIOUS
    <3>2. /\ s \in Stored /\ whc' = [whc EXCEPT !.node[s].borrowed = FALSE]
          /\ UNCHANGED <<rn, written, expired>>
      BY <1>6, <2>2, <3>1 DEF Return, Stored
    <3> QED BY <3>2, LoanKeepsAll
  <2> QED BY <2>1, <2>2
<1>7. CASE Expire
    BY <1>7, ExpiryKeepsAll
<1>8. ASSUME NEW r \in Readers, Match(r)
      PROVE  Kept'
  <2>1. /\ whc' = whc /\ written' = written /\ expired' = expired
        /\ r \notin Matched /\ rn' = Bind(rn, r, wrseq)
    BY <1>8 DEF Match
  <2>2. Matched' = Matched \cup {r} /\ \A q \in Matched' : rn'[q] = IF q = r THEN wrseq ELSE rn[q]
    BY <2>1 DEF Bind, Matched
  <2>3. ASSUME NEW s \in 1..wrseq, Excused(whc.wrinfo, written, s, rn)
        PROVE  Excused(whc.wrinfo, written, s, rn')
    <3>1. (\A q \in Matched : s <= rn[q]) => \A q \in Matched' : s <= rn'[q]
      BY <1>0, <2>2
    <3> QED BY <2>3, <3>1 DEF Excused, Matched
  <2>4. NoneMissing'
    BY <2>1, <2>3 DEF Kept, NoneMissing, Stored, wrseq
  <2> QED BY <2>1, <2>4 DEF Kept, Fresh, Stored
<1>9. ASSUME NEW r \in Readers, Unmatch(r)
      PROVE  Kept'
  <2> DEFINE f == Restrict(rn, Matched \ {r})
  <2>1. rn' = f /\ written' = written /\ expired' = expired /\ remove_acked_messages(f)
    BY <1>9 DEF Unmatch
  <2>2. /\ f \in [DOMAIN f -> 0..wrseq] /\ DOMAIN f \subseteq Matched
        /\ \A q \in DOMAIN f : rn[q] <= f[q]
    BY <1>0 DEF Restrict
  <2> HIDE DEF f
  <2> QED BY <2>1, <2>2, RemoveKeepsAll
<1> QED BY <1>2, <1>3, <1>4, <1>5, <1>6, <1>7, <1>8, <1>9 DEF Next

LEMMA KeptIsPromised ==
    ASSUME Types, Kept
    PROVE  UnackedIsKept /\ TransientLocalIsKept
<1>1. wrseq \in Nat /\ rn \in [Matched -> 0..wrseq]
    BY DEF Types, wrseq
<1>2. \A s \in 1..wrseq :
         /\ LaterOf(s) = Later(written, s)
         /\ Unregisters(s) = Unreg(written, s)
         /\ {t \in LaterOf(s) : \A u \in Unregisters(s) : t < u} = Until(written, s)
    BY DEF LaterOf, Later, Unregisters, Unreg, Until, wrseq
<1>3. UnackedIsKept
  <2> SUFFICES ASSUME NEW s \in 1..wrseq, NEW r \in Matched, rn[r] < s, s \notin Stored, s \notin expired
               PROVE  whc.wrinfo.hdepth > 0 /\ Replaced(written, s) >= whc.wrinfo.hdepth
    BY <1>2 DEF UnackedIsKept, Replaced
  <2>1. Excused(whc.wrinfo, written, s, rn)
    BY DEF Kept, NoneMissing
  <2>2. ~(s <= rn[r])
    BY <1>1
  <2> QED BY <2>1, <2>2 DEF Excused, Matched
<1>4. TransientLocalIsKept
  <2> SUFFICES ASSUME whc.wrinfo.is_transient_local, NEW s \in 1..wrseq, s \notin Stored \cup expired,
                      written[s].kind # "unregister", Unregisters(s) = {}
               PROVE  whc.wrinfo.tldepth > 0 /\ Cardinality(LaterOf(s)) >= whc.wrinfo.tldepth
    BY DEF TransientLocalIsKept
  <2>1. Excused(whc.wrinfo, written, s, rn)
    BY DEF Kept, NoneMissing
  <2>2. Plain(written, s)
    BY <1>2 DEF Plain
  <2> QED BY <1>2, <2>1, <2>2 DEF Excused, Younger
<1> QED BY <1>3, <1>4

\* whc_insert and whc_remove_acked_messages never lose a sample that a matched
\* reader still has to get: it leaves by expiry or when hdepth newer samples of
\* its instance replace it, for any depths, keys and readers.
THEOREM UnackedStays == Spec => [](NoHoles => UnackedIsKept)
<1>1. KeepInv => (NoHoles => UnackedIsKept)
    BY KeptIsPromised DEF KeepInv, CountInv
<1> QED BY <1>1, InitKeep, NextKeep, PTL DEF Spec

\* The cache holds what transient-local durability promises to readers that
\* come later, the last tldepth samples of every registered instance, though
\* the same ring also serves the deeper history of the writer.
THEOREM LateJoinersAreServed == Spec => []TransientLocalIsKept
<1>1. KeepInv => TransientLocalIsKept
  <2> SUFFICES ASSUME KeepInv, whc.wrinfo.is_transient_local PROVE TransientLocalIsKept
    BY DEF TransientLocalIsKept
  <2>1. NoHoles
    BY DEF NoHoles, NoIndex
  <2> QED BY <2>1, KeptIsPromised DEF KeepInv, CountInv
<1> QED BY <1>1, InitKeep, NextKeep, PTL DEF Spec

----------------------------------------------------------------------------
\* The youngest sample of an instance is not yet acknowledged: pruning beyond
\* the transient-local history waits for it.
LastUnacked(k) ==
    \E t \in Unacked(whc) : written[t].key = k /\ Plain(written, t) /\ Younger(written, t) = 0

\* What is acknowledged and still stored is of its instance's ring and was
\* acknowledged by all; beyond tldepth it is there only until the youngest
\* sample of the instance is acknowledged.
AckedInTl ==
    whc.wrinfo.tldepth > 0 => \A s \in Stored \ Unacked(whc) :
        /\ Plain(written, s) /\ Younger(written, s) < whc.wrinfo.idxdepth
        /\ \A r \in Matched : s <= rn[r]
        /\ Younger(written, s) < whc.wrinfo.tldepth \/ LastUnacked(written[s].key)

TrimInv == KeepInv /\ (~lifespan => AckedInTl)

\* A sample that is acknowledged at once prunes the one place behind tldepth
\* into which an older one has just moved; an acknowledgement prunes them all.
LEMMA InsertTrims ==
    ASSUME Types, Book, Kept, AckedInTl, NEW x \in Samples, Insert(x), rn' = rn
    PROVE  AckedInTl'
<1> DEFINE seq == wrseq + 1
           m == MaxDropSeq(rn, seq)
           d == whc_insert(whc, m, seq, x.key, x.kind = "unregister")
           V == Append(written, x)
           tl == whc.wrinfo.tldepth
           depth == whc.wrinfo.idxdepth
<1>1. /\ wrseq \in Nat /\ wrseq = Len(written) /\ wrseq' = seq
      /\ written \in Seq(Samples) /\ V \in Seq(Samples) /\ Len(V) = seq /\ written' = V
    BY InsertTypes, SamplesWritten DEF Types, wrseq, Insert
<1>2. /\ Shape(whc, Len(written)) /\ whc.wrinfo \in Infos /\ Indexed(whc) /\ Counted(whc)
      /\ Ringed(whc, written)
    BY DEF Types, Book, Kept, wrseq
<1>3. whc'.wrinfo = whc.wrinfo
    BY InsertTypes
<1> SUFFICES ASSUME tl > 0, NEW s \in Stored' \ Unacked(whc')
             PROVE  /\ Plain(written', s) /\ Younger(written', s) < depth
                    /\ \A r \in Matched' : s <= rn'[r]
                    /\ Younger(written', s) < tl \/ LastUnacked(written[s].key)'
    BY <1>1, <1>3 DEF AckedInTl
<1>4. rn \in [DOMAIN rn -> 0..wrseq]
    BY DEF Types, Matched
<1>5. /\ m \in 0..seq /\ \A r \in DOMAIN rn : m <= rn[r]
      /\ \A r \in DOMAIN rn : rn[r] \in 0..wrseq
      /\ DOMAIN rn # {} => \E r \in DOMAIN rn : m = rn[r]
      /\ DOMAIN rn = {} => m = seq
  <2>1. seq \in Nat /\ wrseq <= seq
    BY <1>1
  <2> HIDE DEF seq
  <2>2. m \in 0..seq /\ \A r \in DOMAIN rn : m <= rn[r]
    BY <1>1, <1>4, <2>1, AckedTo
  <2>3. ASSUME DOMAIN rn # {} PROVE \E r \in DOMAIN rn : m = rn[r]
    <3>1. PICK f, n : f = rn /\ n = wrseq
      OBVIOUS
    <3>2. f \in [DOMAIN f -> 0..n] /\ n \in Nat /\ n <= seq
      BY <1>1, <1>4, <2>1, <3>1
    <3>3. \E r \in DOMAIN f : MaxDropSeq(f, seq) = f[r]
      BY <2>1, <2>3, <3>1, <3>2, AckedTo
    <3> QED BY <3>1, <3>3
  <2>4. DOMAIN rn = {} => m = seq
    BY <1>1, <1>4, <2>1, AckedTo
  <2>5. \A r \in DOMAIN rn : rn[r] \in 0..wrseq
    BY <1>4
  <2> HIDE DEF m
  <2> QED BY <2>2, <2>3, <2>4, <2>5
<1>6. whc' = d
  <2>1. whc.wrinfo.is_transient_local
    BY <1>2 DEF Infos
  <2> QED BY <2>1 DEF Insert, Store
<1>7. m \in Nat /\ seq = Len(written) + 1 /\ depth \in Nat /\ tl \in Nat /\ tl <= depth
    BY <1>1, <1>2, <1>5 DEF Infos
<1> HIDE DEF m, seq
<1>8. /\ \A t \in DOMAIN d.node \ {seq} : d.node[t].unacked <=> whc.node[t].unacked
      /\ DOMAIN d.node \subseteq DOMAIN whc.node \cup {seq}
    BY <1>1, <1>2, <1>7, InsertKeeps
<1>9. seq \in DOMAIN d.node => (d.node[seq].unacked <=> seq > m)
    BY <1>1, <1>2, <1>7, InsertKeeps
<1>10. Squeezed(d, whc, written, x, m, seq)
    BY <1>1, <1>2, <1>7, InsertKeeps
<1>11. V[seq] = x /\ Younger(V, seq) = 0 /\ (x.kind # "unregister" => Plain(V, seq))
    BY <1>1, <1>7, LaterOfLast DEF Plain
<1>12. \A t \in 1..wrseq :
         /\ V[t] = written[t]
         /\ Younger(V, t) = Younger(written, t) + IF x.key = written[t].key THEN 1 ELSE 0
         /\ Younger(written, t) \in Nat
         /\ Plain(V, t) <=> Plain(written, t) /\ ~(x.key = written[t].key /\ x.kind = "unregister")
    BY <1>1, Appended
<1> HIDE DEF d, V
<1>13. s \in DOMAIN d.node /\ s \notin Unacked(d)
    BY <1>6 DEF Stored
<1>14. CASE s = seq
  <2>1. ~(seq > m)
    BY <1>9, <1>13, <1>14, Zenon DEF Unacked
  <2>2. seq <= m /\ x.kind # "unregister"
    BY <1>1, <1>7, <1>10, <1>13, <1>14, <2>1 DEF Squeezed
  <2>3. \A r \in DOMAIN rn : s <= rn[r]
    BY <1>1, <1>5, <1>7, <1>14, <2>2
  <2> QED BY <1>1, <1>7, <1>11, <1>14, <2>2, <2>3 DEF Matched
<1>15. CASE s # seq
  <2>1. s \in DOMAIN whc.node /\ s \notin Unacked(whc)
    <3>1. s \in DOMAIN whc.node
      BY <1>8, <1>13, <1>15
    <3> QED BY <1>8, <1>13, <1>15, <3>1, Zenon DEF Unacked
  <2>2. s \in 1..wrseq
    BY <1>1, <1>2, <2>1 DEF Shape
  <2>3. /\ Plain(written, s) /\ Younger(written, s) < depth
        /\ \A r \in Matched : s <= rn[r]
        /\ Younger(written, s) < tl \/ LastUnacked(written[s].key)
    BY <2>1 DEF AckedInTl, Stored
  <2>4. s <= m
    <3>1. CASE DOMAIN rn = {}
      BY <1>1, <1>5, <1>7, <2>2, <3>1
    <3>2. CASE DOMAIN rn # {}
      BY <1>5, <2>3, <3>2 DEF Matched
    <3> QED BY <3>1, <3>2
  <2>5. \A r \in Matched' : s <= rn'[r]
    BY <2>3 DEF Matched
  <2>6. CASE written[s].key # x.key
    <3>1. Plain(V, s) /\ Younger(V, s) = Younger(written, s) /\ V[s].key = written[s].key
      BY <1>12, <2>2, <2>3, <2>6
    <3>2. ASSUME LastUnacked(written[s].key)
          PROVE  LastUnacked(written[s].key)'
      <4>1. PICK t \in Unacked(whc) : /\ written[t].key = written[s].key
                                      /\ Plain(written, t) /\ Younger(written, t) = 0
        BY <3>2 DEF LastUnacked
      <4>2. t \in DOMAIN whc.node /\ t \in 1..wrseq /\ t # seq
        BY <1>1, <1>2, <1>7, <4>1 DEF Unacked, Shape
      <4>3. t \in DOMAIN d.node
        BY <1>10, <2>6, <4>1, <4>2 DEF Squeezed
      <4>4. t \in Unacked(d)
        BY <1>8, <4>1, <4>2, <4>3, Zenon DEF Unacked
      <4>5. V[t].key = V[s].key /\ Plain(V, t) /\ Younger(V, t) = 0
        BY <1>12, <2>2, <2>6, <4>1, <4>2
      <4> QED BY <1>1, <1>6, <4>4, <4>5 DEF LastUnacked
    <3> QED BY <1>1, <2>3, <2>5, <3>1, <3>2
  <2>7. CASE written[s].key = x.key
    <3>1. /\ x.kind # "unregister" /\ Younger(written, s) + 1 < depth
          /\ seq <= m => Younger(written, s) + 1 # tl
      BY <1>10, <1>13, <1>15, <2>3, <2>4, <2>7 DEF Squeezed
    <3>2. Plain(V, s) /\ Younger(V, s) = Younger(written, s) + 1 /\ V[s].key = x.key
      BY <1>12, <2>2, <2>3, <2>7, <3>1
    <3>3. CASE ~(seq <= m)
      <4>1. seq \in DOMAIN d.node /\ seq > m
        BY <1>1, <1>7, <1>10, <3>3 DEF Squeezed
      <4>2. seq \in Unacked(d)
        BY <1>9, <4>1, Zenon DEF Unacked
      <4>3. LastUnacked(written[s].key)'
        BY <1>1, <1>6, <1>11, <3>1, <3>2, <4>2 DEF LastUnacked
      <4> QED BY <1>1, <2>5, <3>1, <3>2, <4>3
    <3>4. CASE seq <= m
      <4>1. DOMAIN rn = {}
        <5> SUFFICES ASSUME NEW r \in DOMAIN rn PROVE FALSE
          OBVIOUS
        <5>1. m <= rn[r] /\ rn[r] \in 0..wrseq /\ seq = wrseq + 1
          BY <1>1, <1>5, <1>7
        <5> QED BY <1>1, <1>7, <3>4, <5>1
      <4>2. ~LastUnacked(written[s].key)
        BY <4>1 DEF LastUnacked, Book, Matched
      <4>3. Younger(written, s) + 1 < tl
        BY <1>7, <1>12, <2>2, <2>3, <3>1, <3>4, <4>2
      <4> QED BY <1>1, <2>5, <3>1, <3>2, <4>3
    <3> QED BY <3>3, <3>4
  <2> QED BY <2>6, <2>7
<1> QED BY <1>14, <1>15

LEMMA RemoveTrims ==
    ASSUME Types, Book, Kept, AckedInTl, NEW f, f \in [DOMAIN f -> 0..wrseq],
           DOMAIN f \subseteq Matched, \A r \in DOMAIN f : rn[r] <= f[r],
           rn' = f, written' = written, remove_acked_messages(f)
    PROVE  AckedInTl'
<1> DEFINE m == MaxDropSeq(f, wrseq)
           d == whc_remove_acked_messages(whc, m)
           tl == whc.wrinfo.tldepth
           depth == whc.wrinfo.idxdepth
           acked == {s \in DOMAIN whc.node : whc.max_drop_seq < s /\ s <= m}
<1>1. /\ wrseq \in Nat /\ wrseq = Len(written) /\ written \in Seq(Samples)
      /\ whc' = d /\ rn \in [Matched -> 0..wrseq]
    BY DEF Types, wrseq, remove_acked_messages, Store
<1>2. m \in 0..wrseq /\ \A r \in DOMAIN f : m <= f[r] /\ f[r] \in 0..wrseq
    BY <1>1, AckedTo
<1>3. m \in Nat
    BY <1>1, <1>2
<1> HIDE DEF m
<1>4. /\ Shape(whc, wrseq) /\ whc.wrinfo \in Infos /\ Indexed(whc) /\ Counted(whc)
      /\ Ringed(whc, written) /\ tl \in Nat /\ depth \in Nat
    BY DEF Types, Book, Kept, Infos
<1>5. d.wrinfo = whc.wrinfo /\ DOMAIN d.node \subseteq DOMAIN whc.node
    BY <1>4, RemoveShape DEF Part
<1> SUFFICES ASSUME tl > 0, NEW s \in Stored' \ Unacked(whc')
             PROVE  /\ Plain(written, s) /\ Younger(written, s) < depth
                    /\ \A r \in Matched' : s <= rn'[r]
                    /\ Younger(written, s) < tl \/ LastUnacked(written[s].key)'
    BY <1>1, <1>5 DEF AckedInTl
<1>6. Trimmed(d, whc, written, m)
  <2>1. d = whc_remove_acked_messages_full(whc, m)
    BY <1>4 DEF whc_remove_acked_messages, Infos
  <2> HIDE DEF d
  <2> QED BY <1>1, <1>3, <1>4, <2>1, RemoveFullKeeps
<1> HIDE DEF d
<1>7. \A t \in DOMAIN d.node : d.node[t].unacked <=> whc.node[t].unacked /\ t \notin acked
    BY <1>6, Zenon DEF Trimmed
<1>8. /\ \A t \in DOMAIN d.node \cap acked : Plain(written, t) /\ Younger(written, t) < tl
      /\ \A t \in DOMAIN whc.node \ acked : Younger(written, t) < tl => t \in DOMAIN d.node
      /\ \A t \in acked, u \in DOMAIN d.node :
            /\ written[t].key = written[u].key /\ Plain(written, t) /\ Younger(written, t) < tl
            /\ Plain(written, u) /\ Younger(written, u) < depth
            => Younger(written, u) < tl
    BY <1>6 DEF Trimmed
<1>9. \A t \in acked : t <= m
    OBVIOUS
<1> HIDE DEF acked
<1>10. /\ s \in DOMAIN d.node /\ s \in DOMAIN whc.node /\ s \notin Unacked(d)
       /\ s \in 1..wrseq /\ Younger(written, s) \in Nat
    BY <1>1, <1>4, <1>5, LaterFinite DEF Stored, Shape
<1>11. CASE s \in acked
  <2>1. \A r \in Matched' : s <= rn'[r]
    BY <1>1, <1>2, <1>3, <1>9, <1>10, <1>11 DEF Matched
  <2>2. Plain(written, s) /\ Younger(written, s) < tl
    BY <1>8, <1>10, <1>11
  <2>3. Younger(written, s) < depth
    BY <1>4, <1>10, <2>2 DEF Infos
  <2> QED BY <2>1, <2>2, <2>3
<1>12. CASE s \notin acked
  <2>1. s \notin Unacked(whc)
    BY <1>7, <1>10, <1>12, Zenon DEF Unacked
  <2>2. /\ Plain(written, s) /\ Younger(written, s) < depth
        /\ \A r \in Matched : s <= rn[r]
        /\ Younger(written, s) < tl \/ LastUnacked(written[s].key)
    BY <1>10, <2>1 DEF AckedInTl, Stored
  <2>3. \A r \in Matched' : s <= rn'[r]
    <3> SUFFICES ASSUME NEW r \in DOMAIN f PROVE s <= f[r]
      BY DEF Matched
    <3>1. r \in Matched /\ rn[r] \in 0..wrseq /\ f[r] \in 0..wrseq
      BY <1>1, <1>2
    <3> QED BY <1>1, <1>10, <2>2, <3>1
  <2>4. ASSUME ~(Younger(written, s) < tl)
        PROVE  LastUnacked(written[s].key)'
    <3>1. PICK t \in Unacked(whc) : /\ written[t].key = written[s].key
                                    /\ Plain(written, t) /\ Younger(written, t) = 0
      BY <2>2, <2>4 DEF LastUnacked
    <3>2. t \in DOMAIN whc.node
      BY DEF Unacked
    <3>3. t \notin acked
      BY <1>4, <1>8, <1>10, <2>2, <2>4, <3>1
    <3>4. t \in DOMAIN d.node
      BY <1>4, <1>8, <3>1, <3>2, <3>3
    <3>5. t \in Unacked(d)
      BY <1>7, <3>3, <3>4, Zenon DEF Unacked
    <3> QED BY <1>1, <3>1, <3>5 DEF LastUnacked
  <2> QED BY <2>2, <2>3, <2>4
<1> QED BY <1>11, <1>12

LEMMA LoanTrims ==
    ASSUME Types, AckedInTl, NEW s \in Stored, NEW b \in BOOLEAN,
           whc' = [whc EXCEPT !.node[s].borrowed = b], UNCHANGED <<rn, written>>
    PROVE  AckedInTl'
<1> DEFINE d == [whc EXCEPT !.node[s].borrowed = b]
<1>1. s \in DOMAIN whc.node /\ Shape(whc, wrseq)
    BY DEF Stored, Types
<1>2. /\ d.wrinfo = whc.wrinfo
      /\ DOMAIN d.node = DOMAIN whc.node
      /\ \A t \in DOMAIN whc.node : t # s => d.node[t] = whc.node[t]
      /\ d.node[s] = [whc.node[s] EXCEPT !.borrowed = b]
    BY <1>1, LoanShape
<1> HIDE DEF d
<1>3. d.node[s].unacked = whc.node[s].unacked
  <2>1. whc.node[s] \in Node
    BY <1>1 DEF Shape
  <2> QED BY <1>2, <2>1 DEF Node
<1>4. Unacked(d) = Unacked(whc)
    BY <1>2, <1>3, Zenon DEF Unacked
<1>5. whc' = d
    BY DEF d
<1> QED BY <1>2, <1>4, <1>5 DEF AckedInTl, LastUnacked, Stored, Matched

LEMMA InitTrim == Init => TrimInv
<1> SUFFICES ASSUME Init PROVE AckedInTl
    BY InitKeep DEF TrimInv
<1>1. PICK c \in Settings : lifespan = c.lifespan /\ whc = whc_new(c.wrinfo)
    BY DEF Init
<1>2. whc.node = <<>>
    BY <1>1 DEF whc_new
<1>3. Stored = {}
    BY <1>2 DEF Stored
<1> QED BY <1>3 DEF AckedInTl

LEMMA NextTrim == TrimInv /\ [Next]_vars => TrimInv'
<1> SUFFICES ASSUME ~lifespan, Types, Book, Kept, AckedInTl, [Next]_vars
             PROVE  AckedInTl'
  <2>1. [Next]_vars => lifespan' = lifespan
    BY DEF Next, Write, Throttled, ThrottleTimeout, WaitForAcks, WaiterWakes, Ack, Borrow, Return,
           Expire, Match, Unmatch, vars
  <2>2. ~lifespan => NoHoles
    BY DEF NoHoles
  <2> QED BY <2>1, <2>2, NextKeep DEF TrimInv, KeepInv, CountInv
<1>0. wrseq \in Nat /\ rn \in [Matched -> 0..wrseq] /\ Shape(whc, wrseq)
    BY DEF Types, wrseq
<1>1. ASSUME UNCHANGED <<whc, rn, written>>
      PROVE  AckedInTl'
    BY <1>1 DEF AckedInTl, LastUnacked, Stored, Matched
<1>2. ASSUME NEW w \in Samples, Write(w) \/ Throttled(w)
      PROVE  AckedInTl'
    BY <1>1, <1>2, InsertTrims DEF Write, Throttled
<1>3. CASE ThrottleTimeout \/ WaitForAcks \/ WaiterWakes \/ UNCHANGED vars
    BY <1>1, <1>3 DEF ThrottleTimeout, WaitForAcks, WaiterWakes, vars
<1>4. ASSUME NEW r \in Readers, NEW base \in 1..(MaxSeq + 1), Ack(r, base)
      PROVE  AckedInTl'
  <2>1. base - 1 \in Nat /\ base - 1 > rn[r] /\ r \in Matched
    BY <1>4, HistoryAssumption DEF Ack
  <2> DEFINE x == Min({base - 1, wrseq})
             f == [rn EXCEPT ![r] = x]
  <2>2. x \in 0..wrseq /\ x \in {base - 1, wrseq}
    BY <1>0, <2>1, MinIsLeast
  <2>3. rn' = f /\ written' = written /\ remove_acked_messages(f)
    BY <1>4 DEF Ack
  <2> HIDE DEF x
  <2>4. f \in [DOMAIN f -> 0..wrseq] /\ DOMAIN f \subseteq Matched
    BY <1>0, <2>2
  <2>5. \A q \in DOMAIN f : rn[q] <= f[q]
    BY <1>0, <2>1, <2>2
  <2> HIDE DEF f
  <2> QED BY <2>3, <2>4, <2>5, RemoveTrims
<1>5. ASSUME NEW s \in 1..MaxSeq, Borrow(s)
      PROVE  AckedInTl'
    BY <1>5, LoanTrims DEF Borrow, Stored
<1>6. CASE Return
  <2>1. CASE lent \notin DOMAIN whc.node
    BY <1>1, <1>6, <2>1 DEF Return
  <2>2. CASE lent \in DOMAIN whc.node
    <3>1. PICK s : s = lent
      OBVIOUS
    <3>2. s \in Stored /\ whc' = [whc EXCEPT !.node[s].borrowed = FALSE] /\ UNCHANGED <<rn, written>>
      BY <1>6, <2>2, <3>1 DEF Return, Stored
    <3> QED BY <3>2, LoanTrims
  <2> QED BY <2>1, <2>2
<1>7. CASE Expire
    BY <1>7 DEF Expire
<1>8. ASSUME NEW r \in Readers, Match(r)
      PROVE  AckedInTl'
  <2>1. whc' = whc /\ written' = written /\ r \notin Matched /\ rn' = Bind(rn, r, wrseq)
    BY <1>8 DEF Match
  <2>2. Matched' = Matched \cup {r} /\ \A q \in Matched' : rn'[q] = IF q = r THEN wrseq ELSE rn[q]
    BY <2>1 DEF Bind, Matched
  <2>3. \A s \in Stored : s <= wrseq
    BY <1>0 DEF Stored, Shape
  <2> QED BY <2>1, <2>2, <2>3 DEF AckedInTl, LastUnacked, Stored
<1>9. ASSUME NEW r \in Readers, Unmatch(r)
      PROVE  AckedInTl'
  <2> DEFINE f == Restrict(rn, Matched \ {r})
  <2>1. rn' = f /\ written' = written /\ remove_acked_messages(f)
    BY <1>9 DEF Unmatch
  <2>2. /\ f \in [DOMAIN f -> 0..wrseq] /\ DOMAIN f \subseteq Matched
        /\ \A q \in DOMAIN f : rn[q] <= f[q]
    BY <1>0 DEF Restrict
  <2> HIDE DEF f
  <2> QED BY <2>1, <2>2, RemoveTrims
<1> QED BY <1>2, <1>3, <1>4, <1>5, <1>6, <1>7, <1>8, <1>9 DEF Next

\* With everything acknowledged no instance is waited for.
LEMMA TrimmedIsAll ==
    ASSUME Types, Book, Kept, AckedInTl
    PROVE  NothingElseIsKept
<1> SUFFICES ASSUME whc.unacked_bytes = 0,
                    ~(whc.wrinfo.is_transient_local /\ whc.wrinfo.tldepth = 0), NEW s \in Stored
             PROVE  /\ whc.wrinfo.tldepth > 0
                    /\ Cardinality({t \in Stored : t > s /\ whc.node[t].key = whc.node[s].key})
                          < whc.wrinfo.tldepth
    BY DEF NothingElseIsKept
<1>1. /\ wrseq \in Nat /\ wrseq = Len(written) /\ written \in Seq(Samples)
      /\ Shape(whc, wrseq) /\ whc.wrinfo.tldepth \in Nat
      /\ Stored \subseteq 1..wrseq
    BY DEF Types, wrseq, Infos, Shape, Stored
<1>2. Unacked(whc) = {}
  <2>1. Cardinality(Unacked(whc)) = 0 /\ IsFiniteSet(Unacked(whc))
    BY <1>1, FiniteNodes DEF Book, Counted
  <2> QED BY <2>1, FS_EmptySet
<1>3. whc.wrinfo.is_transient_local
  <2> SUFFICES ASSUME ~whc.wrinfo.is_transient_local PROVE FALSE
    OBVIOUS
  <2>1. whc.node[s].unacked
    BY Zenon DEF Kept, Fresh
  <2> QED BY <1>2, <2>1, Zenon DEF Unacked, Stored
<1>4. whc.wrinfo.tldepth > 0
    BY <1>1, <1>3
<1>5. Younger(written, s) < whc.wrinfo.tldepth
    BY <1>2, <1>4 DEF AckedInTl, LastUnacked
<1>6. {t \in Stored : t > s /\ whc.node[t].key = whc.node[s].key} \in SUBSET Later(written, s)
  <2>1. \A t \in Stored : whc.node[t].key = written[t].key
    BY DEF Kept, Ringed, Stored
  <2> SUFFICES ASSUME NEW t \in Stored, t > s, whc.node[t].key = whc.node[s].key
               PROVE  t \in Later(written, s)
    OBVIOUS
  <2>2. t \in (s + 1)..Len(written)
    BY <1>1
  <2>3. written[t].key = written[s].key
    BY <2>1
  <2> QED BY <2>2, <2>3 DEF Later
<1>7. s \in 1..Len(written)
    BY <1>1
<1>8. IsFiniteSet(Later(written, s)) /\ Younger(written, s) \in Nat
    BY <1>1, <1>7, LaterFinite
<1> DEFINE T == {t \in Stored : t > s /\ whc.node[t].key = whc.node[s].key}
<1> HIDE DEF T
<1>9. Cardinality(T) <= Younger(written, s) /\ Cardinality(T) \in Nat
    BY <1>6, <1>8, FS_Subset, FS_CardinalityType DEF T, Younger
<1>10. Cardinality(T) < whc.wrinfo.tldepth
    BY <1>1, <1>5, <1>8, <1>9
<1> QED BY <1>4, <1>10 DEF T

\* Once everything is acknowledged the cache holds no more than the last
\* tldepth samples of each instance, nothing if it is volatile: memory does not
\* grow with the deeper history.  With a lifespan this is false: the place that
\* whc_insert prunes may be empty and those behind it not.
THEOREM KeepsNoMore == Spec => [](~lifespan => NothingElseIsKept)
<1>1. TrimInv => (~lifespan => NothingElseIsKept)
  <2>1. ~lifespan => NoHoles
    BY DEF NoHoles
  <2> QED BY <2>1, TrimmedIsAll DEF TrimInv, KeepInv, CountInv
<1> QED BY <1>1, InitTrim, NextTrim, PTL DEF Spec
=============================================================================
