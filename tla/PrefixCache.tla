----------------------------- MODULE PrefixCache -----------------------------
(* The prefix cache of the MLX runner, mlxrunner/prefix_cache.go and          *)
(* cache_trie.go, with the two kinds of cache that differ for it: a KVCache,  *)
(* whose snapshots are ranges that can be cut (cache/kvcache.go), and a       *)
(* RecurrentCache, whose snapshots are whole states (cache/recurrent.go).     *)
(*                                                                            *)
(* A node of the trie is the token sequence from the root to its end, so its  *)
(* parent is the longest node that begins it.  Cached data is modelled by     *)
(* what it was computed from: an entry of a KVCache is the sequence that ends *)
(* with its token, a recurrent state the sequence it has read.                *)
(*                                                                            *)
(* One request at a time is served, so the steps below are those of one       *)
(* thread; what is nondeterministic is the requests, where a prefill is cut   *)
(* or cancelled, what is generated, and which nodes memory pressure evicts.   *)
EXTENDS Integers, SequencesExt

CONSTANTS
  Prompts,   \* requests: [tokens |-> their tokens, items |-> their non-causal
             \* media items, each <<position, length>>]
  Generated, \* tokens that can be generated
  MaxTokens  \* bound: tokens of a prompt and its answer

ASSUME PromptsAssumption ==
  /\ \A p \in Prompts : /\ p.tokens \in Seq(Int) /\ p.tokens # <<>> /\ Len(p.tokens) <= MaxTokens
                       /\ \A i \in p.items : i[1] \in Nat /\ i[2] \in Nat
  /\ Generated \subseteq Int /\ MaxTokens \in Nat

\* A prompt's items do not overlap (bindItems refuses that), and their positions
\* carry the fold value of the item, which no token has (foldValue,
\* effectiveKeyTokens): prompts that agree up to the first token of an item have
\* the whole item in common, and none is generated.
ASSUME ItemsAssumption ==
  \A p \in Prompts : \A i \in p.items :
    /\ i[2] > 0 /\ i[1] + i[2] <= Len(p.tokens)
    /\ \A j \in p.items : i = j \/ i[1] + i[2] <= j[1] \/ j[1] + j[2] <= i[1]
    /\ p.tokens[i[1] + 1] \notin Generated
    /\ \A q \in Prompts : IsPrefix(SubSeq(p.tokens, 1, i[1] + 1), q.tokens) =>
         i \in q.items /\ IsPrefix(SubSeq(p.tokens, 1, i[1] + i[2]), q.tokens)

VARIABLES
  scoring,  \* whose cache it is: of the scoring requests, or of generation
  trie,     \* kv, state: the snapshots of each node; user: restore points;
            \* path: the active path
  live,     \* what the two live caches hold: kv, rec
  prompt,   \* cacheSession.inputs and items
  reuse,    \* how much of the prompt may be reused (maxReuse)
  outputs,  \* cacheSession.outputs
  pending,  \* cacheSession.pendingSnapshots: offset |-> user
  captured, \* what the caches captured of it, offset |-> kv, rec
  base,     \* pendingSnapshots.base: where the next capture starts
  todo,     \* the nodes that are still to be paged in
  pc,       \* where the session is
  ret       \* where it goes on after an eviction

vars == <<scoring, trie, live, prompt, reuse, outputs, pending, captured, base, todo, pc,
          ret>>

Lesser(x, y) == IF x < y THEN x ELSE y
Cut(s, n) == SubSeq(s, 1, n)
With(f, x, v) == [y \in DOMAIN f \cup {x} |-> IF y = x THEN v ELSE f[y]]
Longest(S) == CHOOSE x \in S : \A y \in S : Len(y) <= Len(x)
Stored == prompt.tokens \o outputs             \* storedKeys

-----------------------------------------------------------------------------
(* The trie.                                                               *)

Root == <<>>
NoKV == [from |-> 0, ent |-> <<>>]             \* no snapshot of a KVCache
NoState == <<>>                                \* no snapshot of a RecurrentCache

Nodes(t) == DOMAIN t.kv
Ancestors(t, n) == {m \in Nodes(t) : IsStrictPrefix(m, n)}
Start(t, n) == IF n = Root THEN 0 ELSE Len(Longest(Ancestors(t, n)))
Children(t, n) == {c \in Nodes(t) : c # Root /\ IsStrictPrefix(n, c) /\ Start(t, c) = Len(n)}
Frontier(t) == Longest(t.path)
Common(x, y) == Len(LongestCommonPrefix({x, y}))

\* findBestMatch from a node: the nodes walked, the last perhaps in part, and
\* how much of s they match.
Match(t, from, s) ==
  LET below == {n \in Nodes(t) : IsPrefix(from, n)}
      whole == {n \in below : IsPrefix(n, s)}
      matched == Max({Common(n, s) : n \in below})
      last == Longest(whole)
  IN [path |-> whole \cup {c \in Children(t, last) : matched > Len(last) /\ Common(c, s) = matched},
      matched |-> matched]

\* KVCache.Split
Head_(s, at) ==
  IF at <= s.from THEN NoKV ELSE [s EXCEPT !.ent = Cut(@, Lesser(at - s.from, Len(@)))]
Tail_(s, at) ==
  IF at <= s.from THEN s
  ELSE IF at >= s.from + Len(s.ent) THEN NoKV
  ELSE [from |-> at, ent |-> SubSeq(s.ent, at - s.from + 1, Len(s.ent))]

\* appendChild
Append_(t, n) == [t EXCEPT !.kv = With(@, n, NoKV), !.state = With(@, n, NoState)]

\* removeNode
Removed(t, n) ==
  [t EXCEPT !.kv = Restrict(@, Nodes(t) \ {n}), !.state = Restrict(@, Nodes(t) \ {n}),
            !.user = @ \ {n}]

\* splitNode: the new parent takes the head of the edge; a recurrent snapshot
\* stays with the tail.
Split(t, n, at) ==
  LET m == Cut(n, at) IN
    [t EXCEPT !.kv = With(With(@, n, Tail_(t.kv[n], at)), m, Head_(t.kv[n], at)),
              !.state = With(@, m, NoState)]

\* Mutant of Joined: the snapshot of the child alone.
JoinedChild(s, c) == c

\* KVCache.Merge
Joined(s, c) ==
  IF s = NoKV \/ c = NoKV THEN NoKV ELSE [s EXCEPT !.ent = @ \o c.ent]

\* mergeWithChild: the node takes the place of its child c.
Merge(t, n, c) ==
  LET merged == [t EXCEPT !.kv[c] = Joined(t.kv[n], @),
                          !.path = IF n \in @ THEN (@ \ {n}) \cup {c} ELSE @]
  IN Removed(merged, n)

-----------------------------------------------------------------------------
(* The live caches.                                                        *)

Freed == [kv |-> <<>>, rec |-> <<>>]
Offset(l) == Lesser(Len(l.kv), Len(l.rec))     \* minCacheOffset

\* Mutant of Rewound: the caches are left where they are.
RewoundNot(l, target) == l

\* Restore(nil, target), and Free when that fails.
Rewound(l, target) ==
  [kv |-> IF target <= Len(l.kv) THEN Cut(l.kv, target) ELSE <<>>,
   rec |-> IF target = Len(l.rec) THEN l.rec ELSE <<>>]

\* The caches brought to one offset; a recurrent cache cannot be rewound.
Aligned(l) ==
  IF Len(l.rec) > Len(l.kv) THEN Freed ELSE [l EXCEPT !.kv = Cut(@, Len(l.rec))]

\* The path cut off at an offset, its last node split there.
Trimmed(t, path, offset) ==
  LET kept == {n \in path : n = Root \/ Start(t, n) < offset}
      last == Longest(kept)
  IN IF Len(last) > offset
     THEN [Split(t, last, offset) EXCEPT !.path = (kept \ {last}) \cup {Cut(last, offset)}]
     ELSE [t EXCEPT !.path = kept]

-----------------------------------------------------------------------------
(* beginAt.                                                                *)

\* Offsets strictly inside a media item (insideAtomicItem).
Inside(p, n) == \E i \in p.items : i[1] < n /\ n < i[1] + i[2]
Before(p, n) == (CHOOSE i \in p.items : i[1] < n /\ n < i[1] + i[2])[1]
After(p, n) == LET i == CHOOSE j \in p.items : j[1] < n /\ n < j[1] + j[2] IN i[1] + i[2]

\* Mutant of BestMatch: a match may end inside a media item.
BestMatchAnywhere(p, most) == Match(trie, Root, Cut(p.tokens, most))

\* The match, shortened to what may be reused and to before an item it ends in.
BestMatch(p, most) ==
  LET m == Match(trie, Root, Cut(p.tokens, most)) IN
    IF Inside(p, m.matched) THEN Match(trie, Root, Cut(p.tokens, Before(p, m.matched))) ELSE m

\* Generation leaves a token to seed the decoder with, scoring does not.
MaxReuse(p) == IF scoring THEN Len(p.tokens) ELSE Len(p.tokens) - 1

\* The match of the request in hand; the trie does not change before it is
\* paged in.
Matched == BestMatch(prompt, reuse)

\* switchToPath: the caches go back to what the two paths share.
Begin(p) ==
  /\ pc = "idle"
  /\ LET m == BestMatch(p, MaxReuse(p))
         shared == Longest((trie.path \cap m.path) \cup {Root})
     IN /\ live' = Rewound(live, Lesser(Len(shared), m.matched))
        /\ todo' = m.path
  /\ prompt' = p /\ reuse' = MaxReuse(p)
  /\ outputs' = <<>> /\ pending' = <<>> /\ captured' = <<>>
  /\ pc' = "page"
  /\ UNCHANGED <<scoring, trie, base, ret>>

Shallowest(S) == CHOOSE x \in S : \A y \in S : Len(x) <= Len(y)

\* Mutant of PageIn: a layer without a snapshot ends it, too.
PageInStops ==
  /\ pc = "page" /\ todo # {}
  /\ LET n == Shallowest(todo)
         s == trie.kv[n]
         target == Lesser(Len(n), Matched.matched)
         kvWanted == s # NoKV /\ Len(live.kv) < target
         recWanted == trie.state[n] # NoState /\ Len(live.rec) < target
     IN /\ live' = [kv |-> IF kvWanted THEN Cut(Cut(live.kv, s.from) \o s.ent, target) ELSE live.kv,
                    rec |-> IF recWanted THEN trie.state[n] ELSE live.rec]
        /\ todo' = IF n # Root /\ (s = NoKV \/ trie.state[n] = NoState) THEN {} ELSE todo \ {n}
  /\ UNCHANGED <<scoring, trie, prompt, reuse, outputs, pending, captured, base, pc, ret>>

\* One node of the page-in: each cache restores its snapshot, if it has one
\* that brings it forward, and a restore that fails ends the page-in.
PageIn ==
  /\ pc = "page" /\ todo # {}
  /\ LET n == Shallowest(todo)
         s == trie.kv[n]
         target == Lesser(Len(n), Matched.matched)
         kvWanted == s # NoKV /\ Len(live.kv) < target
         kvFails == kvWanted /\ (target > s.from + Len(s.ent) \/ Len(live.kv) < s.from)
         recWanted == trie.state[n] # NoState /\ Len(live.rec) < target
         recFails == recWanted /\ target # Len(trie.state[n])
     IN /\ live' = [kv |-> IF kvWanted /\ ~kvFails
                           THEN Cut(Cut(live.kv, s.from) \o s.ent, target) ELSE live.kv,
                    rec |-> IF recWanted /\ ~kvFails /\ ~recFails
                            THEN trie.state[n] ELSE live.rec]
        /\ todo' = IF kvFails \/ recFails THEN {} ELSE todo \ {n}
  /\ UNCHANGED <<scoring, trie, prompt, reuse, outputs, pending, captured, base, pc, ret>>

\* The end of switchToPath and of beginAt: the caches are aligned, the path is
\* cut off there, and the end of the match is to be captured.
Switched ==
  /\ pc = "page" /\ todo = {}
  /\ LET offset == Offset(Aligned(live))
     IN /\ trie' = Trimmed(trie, Matched.path, Offset(live))
        /\ live' = Aligned(live)
        /\ pending' = IF offset < Matched.matched THEN With(<<>>, Matched.matched, FALSE) ELSE <<>>
        /\ base' = offset
  /\ pc' = "evict" /\ ret' = "schedule"
  /\ UNCHANGED <<scoring, prompt, reuse, outputs, captured, todo>>

-----------------------------------------------------------------------------
(* enforceEvictionPolicy: as long as the snapshots are too many bytes, one    *)
(* node after another is evicted, least recently used first.  Sizes and times *)
(* are left out: any order, and any number.                                   *)

\* Mutant of Evictable: the active frontier is evicted like any other node.
EvictableAny(n) == n # Root /\ Cardinality(Children(trie, n)) <= 1

Evictable(n) ==
  n # Root /\ n # Frontier(trie) /\ Cardinality(Children(trie, n)) <= 1

Evict(n) ==
  /\ pc = "evict" /\ Evictable(n)
  /\ trie' = IF Children(trie, n) = {} THEN Removed(trie, n)
             ELSE Merge(trie, n, CHOOSE c \in Children(trie, n) : TRUE)
  /\ UNCHANGED <<scoring, live, prompt, reuse, outputs, pending, captured, base, todo, pc, ret>>

Enough ==
  /\ pc = "evict"
  /\ pc' = ret /\ ret' = "idle"
  /\ UNCHANGED <<scoring, trie, live, prompt, reuse, outputs, pending, captured, base, todo>>

-----------------------------------------------------------------------------
(* The session.                                                            *)

Here == UNCHANGED <<scoring, prompt, reuse, todo, ret>>

\* schedulePrefillSnapshots, for any one offset of the prompt: one inside an
\* item moves past it, and one that is not ahead is dropped.
Schedule(n) ==
  /\ pc = "schedule"
  /\ LET o == IF Inside(prompt, n) THEN After(prompt, n) ELSE n
     IN pending' = IF o <= base \/ o > Len(prompt.tokens) THEN pending
                   ELSE With(pending, o, TRUE)
  /\ pc' = "prefill"
  /\ Here /\ UNCHANGED <<trie, live, outputs, captured, base>>

\* A forward over the tokens of the session up to an offset.
Forward(to) ==
  /\ to <= Len(Stored)
  /\ live' = [kv |-> live.kv \o [i \in 1 .. to - Len(live.kv) |-> Cut(Stored, Len(live.kv) + i)],
              rec |-> live.rec \o SubSeq(Stored, Len(live.rec) + 1, to)]

\* What the caches capture in a write: the range since the last capture, and
\* the state at the offset.
Captures(to) ==
  LET crossed == {o \in DOMAIN pending : Len(live.kv) < o /\ o <= to}
      from(o) == Max({base} \cup {c \in crossed : c < o})
  IN /\ captured' = [o \in crossed \cup DOMAIN captured |->
                      IF o \in crossed
                      THEN [kv |-> [from |-> from(o), ent |-> SubSeq(live'.kv, from(o) + 1, o)],
                            rec |-> Cut(live'.rec, o)]
                      ELSE captured[o]]
     /\ base' = Max({base} \cup crossed)

\* extendChunk: a chunk does not end inside an item, unless the item ends the
\* prompt and only its last token is left out.
Whole(to) ==
  Inside(prompt, to) =>
    to = Len(prompt.tokens) - 1 /\ Before(prompt, to) <= Offset(live)

\* A chunk of the prompt.
Prefill(to) ==
  /\ pc = "prefill"
  /\ Offset(live) < to /\ to <= reuse /\ Whole(to)
  /\ Forward(to) /\ Captures(to)
  /\ Here /\ UNCHANGED <<trie, outputs, pending, pc>>

\* Mutant of PrefillEnds: a session that is to be closed does not attach.
PrefillEndsUndrained ==
  /\ pc = "prefill"
  /\ \/ Offset(live) >= reuse /\ ~scoring /\ pc' = "attach" /\ ret' = "decode"
     \/ pc' = "close" /\ UNCHANGED ret
  /\ UNCHANGED <<scoring, trie, live, prompt, reuse, outputs, pending, captured, base, todo>>

\* The prompt is read and generation starts; or the session is closed, because
\* scoring is over, the request is cancelled between two chunks, or its prompt
\* is read and its grammar is refused (resolve).
PrefillEnds ==
  /\ pc = "prefill"
  /\ pc' = "attach"
  /\ \/ Offset(live) >= reuse /\ ~scoring /\ ret' = "decode"
     \/ ret' = "close"
  /\ UNCHANGED <<scoring, trie, live, prompt, reuse, outputs, pending, captured, base, todo>>

\* advancePath: down the trie as far as s matches, a partial match split, and
\* what is left appended.
Advanced(t, s) ==
  LET m == Match(t, Frontier(t), s)
      last == Longest(m.path)
      split == IF Len(last) > m.matched THEN Split(t, last, m.matched) ELSE t
      with == [split EXCEPT !.path =
                @ \cup IF Len(last) > m.matched
                       THEN (m.path \ {last}) \cup {Cut(last, m.matched)} ELSE m.path]
  IN IF m.matched = Len(s) THEN with ELSE [Append_(with, s) EXCEPT !.path = @ \cup {s}]

\* attachCapturedSnapshots: clipped to the edge, and what is there is kept.
Attached(t, n, snaps) ==
  [t EXCEPT !.kv[n] = IF @ # NoKV THEN @ ELSE Tail_(snaps.kv, Start(t, n)),
            !.state[n] = IF @ # NoState THEN @ ELSE snaps.rec]

\* compactPath
Compacted(t) ==
  LET n == Frontier(t) IN
    IF n = Root THEN t
    ELSE LET above == Longest(t.path \ {n}) IN
      IF above = Root \/ above \in t.user \/ Children(t, above) # {n}
      THEN t ELSE Merge(t, above, n)

\* attachPrefillSnapshots, one pending offset after another.
Attach ==
  /\ pc = "attach" /\ DOMAIN pending # {}
  /\ LET o == Min(DOMAIN pending)
         t == IF Len(Frontier(trie)) < o
              THEN Advanced(trie, Frontier(trie) \o SubSeq(Stored, Len(Frontier(trie)) + 1, o))
              ELSE trie
         n == Frontier(t)
         marked == IF pending[o] THEN [t EXCEPT !.user = @ \cup {n}] ELSE t
     IN /\ trie' = IF o > Offset(live) THEN trie
                   ELSE Compacted(IF o \in DOMAIN captured
                                  THEN Attached(marked, n, captured[o]) ELSE marked)
        /\ pending' = [x \in DOMAIN pending \ {o} |-> pending[x]]
        /\ captured' = [x \in DOMAIN captured \ {o} |-> captured[x]]
  /\ Here /\ UNCHANGED <<live, outputs, base, pc>>

AttachEnds ==
  /\ pc = "attach" /\ DOMAIN pending = {}
  /\ pc' = "evict"
  /\ UNCHANGED <<scoring, trie, live, prompt, reuse, outputs, pending, captured, base, todo, ret>>

\* A decoder forwards the last token of the prompt when it is made, ...
Seed ==
  /\ pc = "decode" /\ Offset(live) < Len(Stored)
  /\ Forward(Len(Stored))
  /\ Here /\ UNCHANGED <<trie, outputs, pending, captured, base, pc>>

\* ... and then each token that it has sampled.
Decode(tok) ==
  /\ pc = "decode" /\ Offset(live) = Len(Stored) /\ Len(Stored) < MaxTokens
  /\ outputs' = Append(outputs, tok)
  /\ live' = [kv |-> Append(live.kv, Append(Stored, tok)), rec |-> Append(live.rec, tok)]
  /\ Here /\ UNCHANGED <<trie, pending, captured, base, pc>>

DecodeEnds ==
  /\ pc = "decode" /\ Offset(live) = Len(Stored)
  /\ pc' = "close"
  /\ Here /\ UNCHANGED <<trie, live, outputs, pending, captured, base>>

\* pageOut: what the node has not is taken from the live caches.
PagedOut(t, n) ==
  [t EXCEPT !.kv[n] = IF @ # NoKV THEN @
                      ELSE [from |-> Start(t, n), ent |-> SubSeq(live.kv, Start(t, n) + 1, Len(live.kv))],
            !.state[n] = IF @ # NoState THEN @ ELSE live.rec]

\* The session object is gone.
NoPrompt == [tokens |-> <<>>, items |-> {}]
SessionOver ==
  /\ prompt' = NoPrompt /\ reuse' = 0 /\ outputs' = <<>> /\ base' = 0
  /\ pc' = "idle" /\ ret' = "idle"

\* close, after attach: the trie is brought to where the caches are.
Close ==
  /\ pc = "close"
  /\ IF Offset(live) > Len(Frontier(trie))
     THEN LET t == Advanced(trie, Frontier(trie) \o
                     SubSeq(Stored, Len(Frontier(trie)) + 1, Offset(live)))
          IN /\ trie' = PagedOut(t, Frontier(t)) /\ pc' = "evict" /\ ret' = "compact"
             /\ UNCHANGED <<prompt, reuse, outputs, base>>
     ELSE SessionOver /\ UNCHANGED trie
  /\ UNCHANGED <<scoring, live, pending, captured, todo>>

\* The last step of close; the session is over.
Compact ==
  /\ pc = "compact"
  /\ trie' = Compacted(trie) /\ SessionOver
  /\ UNCHANGED <<scoring, live, pending, captured, todo>>

-----------------------------------------------------------------------------
Init ==
  /\ scoring \in BOOLEAN
  /\ trie = [kv |-> [n \in {Root} |-> NoKV], state |-> [n \in {Root} |-> NoState],
             user |-> {}, path |-> {Root}]
  /\ live = Freed
  /\ prompt = NoPrompt /\ reuse = 0 /\ outputs = <<>>
  /\ pending = <<>> /\ captured = <<>> /\ base = 0
  /\ todo = {} /\ pc = "idle" /\ ret = "idle"

Next ==
  \/ \E p \in Prompts : Begin(p)
  \/ PageIn \/ Switched
  \/ \E n \in Nodes(trie) : Evict(n)
  \/ Enough
  \/ \E n \in 1 .. Len(prompt.tokens) : Schedule(n) \/ Prefill(n)
  \/ PrefillEnds \/ Attach \/ AttachEnds
  \/ Seed
  \/ \E tok \in Generated : Decode(tok)
  \/ DecodeEnds \/ Close \/ Compact

Spec == Init /\ [][Next]_vars

-----------------------------------------------------------------------------
(* Properties.                                                             *)

\* Types; and a session leaves no schedule behind, which PrepareSnapshots
\* would refuse (cache/cache.go:85).
TypeOK ==
  /\ DOMAIN trie.state = Nodes(trie)
  /\ trie.user \subseteq Nodes(trie) /\ Root \notin trie.user
  /\ trie.path \subseteq Nodes(trie)
  /\ DOMAIN captured \subseteq DOMAIN pending
  /\ pc = "idle" => DOMAIN pending = {}
  /\ DOMAIN pending \subseteq 1 .. Len(prompt.tokens)
  /\ reuse \in 0 .. Len(prompt.tokens)
  /\ pc \in {"idle", "page", "evict", "schedule", "prefill", "attach", "decode", "close", "compact"}

\* What the model attends to is the request's own prefix: whatever was
\* restored, from however many snapshots of other conversations, each entry
\* and the recurrent state were computed from the tokens of this session, and
\* every layer is at the same offset.
LiveTrue ==
  pc \notin {"idle", "page"} =>
    /\ Len(live.kv) = Len(live.rec) /\ Len(live.rec) <= Len(Stored)
    /\ live.rec = Cut(Stored, Len(live.rec))
    /\ \A i \in DOMAIN live.kv : live.kv[i] = Cut(Stored, i)

\* "Sliceable snapshots cover their node's edge", and "what a node holds is
\* the state at its end offset" (prefix_cache.go:9-12), through every split,
\* merge and eviction.
SnapshotsTrue ==
  \A n \in Nodes(trie) :
    /\ trie.state[n] \in {NoState, n}
    /\ LET s == trie.kv[n] IN
         n # Root =>
           /\ s.from = Start(trie, n) /\ s.from + Len(s.ent) = Len(n)
           /\ \A i \in DOMAIN s.ent : s.ent[i] = Cut(n, s.from + i)

\* "Only one path through the trie is active (backed by live arrays)" (:7):
\* through every eviction and split it is the path of its frontier, between
\* requests the caches are at its end, and what two nodes have in common is a
\* node ("Sibling edges must not share a common token prefix", :22).
PathLive ==
  /\ trie.path = {n \in Nodes(trie) : IsPrefix(n, Frontier(trie))}
  /\ pc = "idle" => live.rec = Frontier(trie)
  /\ \A x, y \in Nodes(trie) : LongestCommonPrefix({x, y}) \in Nodes(trie)

\* "no node boundary or resume point lies strictly inside" a non-causal media
\* item (:20-21), except for what extendChunk keeps back: a prompt that ends with
\* an item is read up to its last token, and a session that is closed there,
\* because its grammar is refused or scoring is cancelled, leaves a node at that
\* offset, where a later request may resume.  No other step, be it a match, a
\* split where two texts part, or a snapshot, makes a node inside an item of any
\* prompt, and no request resumes inside one but at such a node.
ItemsWhole ==
  [][/\ \A p \in Prompts, n \in Nodes(trie') \ Nodes(trie) :
          IsPrefix(n, p.tokens) /\ Inside(p, Len(n)) =>
            pc = "close" /\ n = Cut(prompt.tokens, Len(prompt.tokens) - 1)
     /\ Switched /\ Inside(prompt, Offset(live')) =>
          Cut(prompt.tokens, Offset(live')) \in Nodes(trie)]_vars

\* "A request resumes at the deepest node at or below its match that holds
\* whole-state" (:16): a snapshot that could be used is used.
ResumesDeepest ==
  [][Switched =>
       \A n \in Nodes(trie) :
         trie.state[n] = n /\ IsPrefix(n, Cut(prompt.tokens, reuse)) /\ ~Inside(prompt, Len(n))
           => Len(n) <= Offset(live')]_vars

=============================================================================
