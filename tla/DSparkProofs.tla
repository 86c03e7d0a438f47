------------------------- MODULE DSparkProofs -------------------------
(***************************************************************************)
(* Proofs about DSparkScheduler for every pool, batch, drafter and set of    *)
(* requests: whatever the drafter proposes and the pool preempts, the output *)
(* is the target's own text.                                               *)
(***************************************************************************)
EXTENDS DSparkScheduler, SequenceTheorems, FiniteSetTheorems, WellFoundedInduction, TLAPS

\* The place of EOS in r's output, or a place max_tokens never reaches.
EosIn(r) == IF EosAt[r] > PromptLen[r] THEN EosAt[r] - PromptLen[r] ELSE MaxTokens[r] + 2

\* The first g tokens of the text the target gives r's prompt.
Output(r, g) == [i \in 1..g |-> Token(r, PromptLen[r] + i)]

\* A request emitted the target's text, neither past EOS nor past max_tokens, and
\* has a reason exactly when it ended.
Emitted(r, gen, why, st) ==
    /\ gen = Output(r, Len(gen)) /\ Len(gen) \in Nat
    /\ Len(gen) < EosIn(r) /\ Len(gen) <= MaxTokens[r]
    /\ st # "done" => Len(gen) < MaxTokens[r]
    /\ why = "none" <=> st # "done"

\* The state of the drafter for a request it has not drafted for.
Undrafted(sp, text) ==
    sp = [cache |-> <<>>, context |-> text, anchor |-> None, offered |-> None, start |-> None]

Unseated(gen, pre, pend, sp, text) ==
    gen = <<>> /\ pre = 0 /\ pend = None /\ sp = None /\ text = <<>>

Prefills(r, gen, pre, pend, sp, text) ==
    /\ gen = <<>> /\ pend = None
    /\ pre \in Nat /\ pre < PromptLen[r]
    /\ text = Text(r, pre)
    /\ sp # None => Undrafted(sp, text)

\* A decoder whose next token the last forward left, or with that token in flight.
Plain(r, g, pend, last, text, busy) ==
    \/ /\ ~busy /\ pend = None
       /\ last = Token(r, PromptLen[r] + g + 1)
       /\ text = Text(r, PromptLen[r] + g)
    \/ /\ g > 0 /\ pend = Token(r, PromptLen[r] + g)
       /\ text = Text(r, PromptLen[r] + g - 1)

\* A proposal for the n tokens after position k.
Offers(r, k, offered) ==
    /\ offered \in Seq(TokenIds)
    /\ \A i \in 1..Len(offered) : offered[i] \in {Token(r, k + i), Bad}

\* A speculator with its first token to sample, or an anchored one with a context
\* to fold or a proposal in flight.
Speculating(r, g, last, sp, text, busy) ==
    \/ /\ ~busy /\ Undrafted(sp, text)
       /\ last = Token(r, PromptLen[r] + g + 1)
       /\ text = Text(r, PromptLen[r] + g)
    \/ /\ g > 0 /\ sp \in SpecDecodeState
       /\ text = Text(r, PromptLen[r] + g - 1)
       /\ sp.anchor = Token(r, PromptLen[r] + g)
       /\ sp.start = PromptLen[r] + g - 1
       /\ \/ ~busy /\ sp.offered = None /\ sp.cache \o sp.context = text
          \/ sp.cache = text /\ Offers(r, PromptLen[r] + g, sp.offered)

\* What the slot and the drafter of a request hold in each of its states.
Ready(r, st, gen, pre, pend, last, sp, text, busy) ==
    /\ st \in {"new", "waiting"} => Unseated(gen, pre, pend, sp, text)
    /\ st = "prefilling" => Prefills(r, gen, pre, pend, sp, text)
    /\ st = "decoding" /\ sp = None => Plain(r, Len(gen), pend, last, text, busy)
    /\ st = "decoding" /\ sp # None => Speculating(r, Len(gen), last, sp, text, busy)

States == {"new", "waiting", "prefilling", "decoding", "done"}
Reasons == {"none", "length", "stop", "cancelled"}

\* The values of a request.
Typed(st, gen, why, pre, pend, last, sp, text) ==
    /\ st \in States /\ why \in Reasons /\ pre \in Nat
    /\ gen \in Seq(TokenIds) /\ text \in Seq(TokenIds)
    /\ pend \in TokenIds \cup {None} /\ last \in TokenIds \cup {None}
    /\ sp \in SpecDecodeState \cup {None}

Good(r, st, gen, why, pre, pend, last, sp, text, busy) ==
    /\ Typed(st, gen, why, pre, pend, last, sp, text)
    /\ Emitted(r, gen, why, st)
    /\ Ready(r, st, gen, pre, pend, last, sp, text, busy)

\* Types of the state.
TypeOK ==
    /\ waiting \in Seq(Request) /\ running \in Seq(Request)
    /\ cancel_event \in [Request -> BOOLEAN]
    /\ state \in [Request -> States] /\ finish_reason \in [Request -> Reasons]
    /\ prefilled \in [Request -> Nat]
    /\ generated \in [Request -> Seq(TokenIds)] /\ kv \in [Request -> Seq(TokenIds)]
    /\ pending \in [Request -> TokenIds \cup {None}]
    /\ last_logits \in [Request -> TokenIds \cup {None}]
    /\ spec \in [Request -> SpecDecodeState \cup {None}]
    /\ pc \in {"idle", "admit", "forward"}

\* No element is twice in a sequence.
Distinct(q) == \A i, j \in 1..Len(q) : q[i] = q[j] => i = j

\* A request is in one place of the queue while it waits, and in the batch from
\* its admission to its end.
Places ==
    /\ \A i \in 1..Len(waiting) : state[waiting[i]] = "waiting"
    /\ Distinct(waiting)
    /\ \A r \in ToSet(running) : state[r] \notin {"new", "waiting"}
    /\ \A r \in Request : Prefilling(r) \/ Decoding(r) => r \in ToSet(running)
    /\ pc = "forward" => \A r \in ToSet(running) : Prefilling(r) \/ Decoding(r)

\* What holds of request r in its state.
RequestInv(r) ==
    /\ Emitted(r, generated[r], finish_reason[r], state[r])
    /\ Ready(r, state[r], generated[r], prefilled[r], pending[r], last_logits[r], spec[r], kv[r],
             pc # "idle")

\* The inductive invariant.
IInv == TypeOK /\ Places /\ \A r \in Request : RequestInv(r)

\* The functions of the state have the requests for domain.
Domains ==
    /\ waiting \in Seq(Request) /\ running \in Seq(Request)
    /\ cancel_event \in [Request -> BOOLEAN] /\ pc \in {"idle", "admit", "forward"}
    /\ state = [r \in Request |-> state[r]] /\ finish_reason = [r \in Request |-> finish_reason[r]]
    /\ prefilled = [r \in Request |-> prefilled[r]]
    /\ generated = [r \in Request |-> generated[r]] /\ kv = [r \in Request |-> kv[r]]
    /\ pending = [r \in Request |-> pending[r]]
    /\ last_logits = [r \in Request |-> last_logits[r]] /\ spec = [r \in Request |-> spec[r]]

\* IInv, request by request.
GoodNow(r) ==
    Good(r, state[r], generated[r], finish_reason[r], prefilled[r], pending[r], last_logits[r],
         spec[r], kv[r], pc # "idle")

GoodState == Domains /\ Places /\ \A r \in Request : GoodNow(r)

\* A request's output moves as GreedyDecoding lets it, or not at all.
Advances(r, gen, why, gen2, why2) ==
    \/ gen2 = gen /\ why2 = why
    \/ /\ why = "none" /\ why2 \in Reasons
       /\ \E n \in Len(gen)..MaxTokens[r] :
             /\ n < EosIn(r) /\ gen2 = Output(r, n)
             /\ why2 = "length" => n = MaxTokens[r]
             /\ why2 = "stop" => n + 1 = EosIn(r)

Step == \A r \in Request :
           Advances(r, generated[r], finish_reason[r], generated'[r], finish_reason'[r])

-----------------------------------------------------------------------------
(* Numbers and sequences.                                                  *)

\* A set of numbers with an element has a least one.
LEMMA Least ==
    ASSUME NEW S \in SUBSET Nat, S # {}
    PROVE  \E x \in S : \A y \in S : x <= y
  <1>1. PICK x \in S : \A y \in S : ~(<<y, x>> \in OpToRel(<, Nat))
    BY NatLessThanWellFounded, WFMin
  <1>2. \A y \in S : ~(y < x)
    BY <1>1 DEF OpToRel
  <1>3. \A y \in S : x <= y
    BY <1>2
  <1> QED BY <1>3

\* A sequence and its elements.
LEMMA SeqFacts ==
    ASSUME NEW S, NEW s \in Seq(S)
    PROVE  /\ Len(s) \in Nat /\ DOMAIN s = 1..Len(s)
           /\ ToSet(s) = {s[i] : i \in 1..Len(s)} /\ ToSet(s) \subseteq S
           /\ s = <<>> <=> Len(s) = 0
  <1>1. Len(s) \in Nat /\ DOMAIN s = 1..Len(s) /\ \A i \in 1..Len(s) : s[i] \in S
    BY LenProperties, ElementOfSeq
  <1>2. ToSet(s) = {s[i] : i \in 1..Len(s)}
    BY <1>1 DEF ToSet
  <1>3. ToSet(s) \subseteq S
    BY <1>1, <1>2
  <1>4. s = <<>> <=> Len(s) = 0
    BY <1>1, EmptySeq
  <1> QED BY <1>1, <1>2, <1>3, <1>4

\* The elements of a sequence of a given length.
LEMMA Elements ==
    ASSUME NEW S, NEW s \in Seq(S), NEW n, Len(s) = n
    PROVE  /\ \A i \in 1..n : s[i] \in ToSet(s)
           /\ \A x \in ToSet(s) : \E i \in 1..n : x = s[i]
  BY SeqFacts

\* The empty sequence has no element.
LEMMA NoElements == ToSet(<<>>) = {}
  <1>1. Len(<<>>) = 0 /\ DOMAIN <<>> = 1..0
    BY EmptySeq
  <1> QED BY <1>1 DEF ToSet

\* A function on 1..n is a sequence of length n.
LEMMA FunctionIsSeq ==
    ASSUME NEW S, NEW n \in Nat, NEW f \in [1..n -> S]
    PROVE  f \in Seq(S) /\ Len(f) = n
  OBVIOUS

\* The first n elements of a sequence.
LEMMA PrefixFacts ==
    ASSUME NEW S, NEW s \in Seq(S), NEW n \in Nat, n <= Len(s)
    PROVE  /\ SubSeq(s, 1, n) \in Seq(S) /\ Len(SubSeq(s, 1, n)) = n
           /\ \A i \in 1..n : SubSeq(s, 1, n)[i] = s[i]
  <1>1. Len(s) \in Nat /\ \A i \in 1..n : s[i] \in S
    BY LenProperties, ElementOfSeq
  <1>2. /\ SubSeq(s, 1, n) \in Seq(S)
        /\ Len(SubSeq(s, 1, n)) = IF 1 <= n THEN n - 1 + 1 ELSE 0
        /\ \A i \in 1..(n - 1 + 1) : SubSeq(s, 1, n)[i] = s[1 + i - 1]
    BY <1>1, SubSeqProperties
  <1> QED BY <1>2

\* The elements of a sequence from place m to place n.
LEMMA SliceFacts ==
    ASSUME NEW S, NEW s \in Seq(S), NEW m \in Nat, NEW n \in Nat, m <= n, n <= Len(s)
    PROVE  /\ SubSeq(s, m + 1, n) \in Seq(S) /\ Len(SubSeq(s, m + 1, n)) = n - m
           /\ \A i \in 1..(n - m) : SubSeq(s, m + 1, n)[i] = s[m + i]
  <1>1. Len(s) \in Nat /\ \A i \in 1..Len(s) : s[i] \in S
    BY LenProperties, ElementOfSeq
  <1>2. \A i \in (m + 1)..n : s[i] \in S
    BY <1>1
  <1>3. /\ SubSeq(s, m + 1, n) \in Seq(S)
        /\ Len(SubSeq(s, m + 1, n)) = IF m + 1 <= n THEN n - (m + 1) + 1 ELSE 0
        /\ \A i \in 1..(n - (m + 1) + 1) : SubSeq(s, m + 1, n)[i] = s[m + 1 + i - 1]
    BY <1>2, SubSeqProperties
  <1>4. Len(SubSeq(s, m + 1, n)) = n - m
    BY <1>3
  <1>5. \A i \in 1..(n - m) : i \in 1..(n - (m + 1) + 1) /\ m + 1 + i - 1 = m + i
    OBVIOUS
  <1> QED BY <1>3, <1>4, <1>5

\* The end of a sequence.
LEMMA AppendFacts ==
    ASSUME NEW S, NEW s \in Seq(S), NEW e \in S
    PROVE  /\ Append(s, e) \in Seq(S) /\ Len(Append(s, e)) = Len(s) + 1
           /\ \A i \in 1..Len(s) : Append(s, e)[i] = s[i]
           /\ Append(s, e)[Len(s) + 1] = e
           /\ ToSet(Append(s, e)) = ToSet(s) \cup {e}
  <1>1. /\ Append(s, e) \in Seq(S) /\ Len(Append(s, e)) = Len(s) + 1 /\ Len(s) \in Nat
        /\ \A i \in 1..Len(s) : Append(s, e)[i] = s[i]
        /\ Append(s, e)[Len(s) + 1] = e
    OBVIOUS
  <1>2. ToSet(Append(s, e)) = {Append(s, e)[i] : i \in 1..(Len(s) + 1)}
    BY <1>1, SeqFacts
  <1>3. ToSet(s) = {s[i] : i \in 1..Len(s)}
    BY SeqFacts
  <1>4. \A i \in 1..(Len(s) + 1) : i \in 1..Len(s) \/ i = Len(s) + 1
    BY <1>1
  <1>5. 1..Len(s) \subseteq 1..(Len(s) + 1) /\ Len(s) + 1 \in 1..(Len(s) + 1)
    BY <1>1
  <1> QED BY <1>1, <1>2, <1>3, <1>4, <1>5

\* The elements of two sequences one after the other.
LEMMA ConcatFacts ==
    ASSUME NEW S, NEW s \in Seq(S), NEW t \in Seq(S)
    PROVE  /\ s \o t \in Seq(S) /\ Len(s \o t) = Len(s) + Len(t)
           /\ \A i \in 1..Len(s) : (s \o t)[i] = s[i]
           /\ \A i \in 1..Len(t) : (s \o t)[Len(s) + i] = t[i]
           /\ ToSet(s \o t) = ToSet(s) \cup ToSet(t)
  <1>1. Len(s) \in Nat /\ Len(t) \in Nat
    BY LenProperties
  <1>2. /\ s \o t \in Seq(S) /\ Len(s \o t) = Len(s) + Len(t)
        /\ \A i \in 1..(Len(s) + Len(t)) :
              (s \o t)[i] = IF i <= Len(s) THEN s[i] ELSE t[i - Len(s)]
    BY ConcatProperties
  <1>3. \A i \in 1..Len(s) : (s \o t)[i] = s[i]
    BY <1>1, <1>2
  <1>4. \A i \in 1..Len(t) : (s \o t)[Len(s) + i] = t[i]
    <2> TAKE i \in 1..Len(t)
    <2>1. Len(s) + i \in 1..(Len(s) + Len(t)) /\ ~(Len(s) + i <= Len(s)) /\ Len(s) + i - Len(s) = i
      BY <1>1
    <2> QED BY <1>2, <2>1
  <1>5. ToSet(s \o t) = ToSet(s) \cup ToSet(t)
    <2>1. /\ ToSet(s \o t) = {(s \o t)[i] : i \in 1..(Len(s) + Len(t))}
          /\ ToSet(s) = {s[i] : i \in 1..Len(s)} /\ ToSet(t) = {t[i] : i \in 1..Len(t)}
      BY <1>2, SeqFacts
    <2>2. ASSUME NEW x \in ToSet(s \o t) PROVE x \in ToSet(s) \cup ToSet(t)
      <3>1. PICK i \in 1..(Len(s) + Len(t)) : x = (s \o t)[i]
        BY <2>1
      <3>2. CASE i <= Len(s)
        <4>1. i \in 1..Len(s)
          BY <1>1, <3>2
        <4> QED BY <1>3, <2>1, <3>1, <4>1
      <3>3. CASE ~(i <= Len(s))
        <4>1. i - Len(s) \in 1..Len(t)
          BY <1>1, <3>3
        <4> QED BY <1>2, <2>1, <3>1, <3>3, <4>1
      <3> QED BY <3>2, <3>3
    <2>3. ASSUME NEW x \in ToSet(s) PROVE x \in ToSet(s \o t)
      <3>1. PICK i \in 1..Len(s) : x = s[i]
        BY <2>1
      <3>2. i \in 1..(Len(s) + Len(t))
        BY <1>1
      <3> QED BY <1>3, <2>1, <3>1, <3>2
    <2>4. ASSUME NEW x \in ToSet(t) PROVE x \in ToSet(s \o t)
      <3>1. PICK i \in 1..Len(t) : x = t[i]
        BY <2>1
      <3>2. Len(s) + i \in 1..(Len(s) + Len(t))
        BY <1>1
      <3> QED BY <1>4, <2>1, <3>1, <3>2
    <2> QED BY <2>2, <2>3, <2>4
  <1> QED BY <1>2, <1>3, <1>4, <1>5

\* The same, the first sequence's length given.
LEMMA ConcatAt ==
    ASSUME NEW S, NEW s \in Seq(S), NEW t \in Seq(S)
    PROVE  \A n : Len(s) = n =>
              /\ s \o t \in Seq(S) /\ Len(s \o t) = n + Len(t)
              /\ \A i \in 1..n : (s \o t)[i] = s[i]
              /\ \A i \in 1..Len(t) : (s \o t)[n + i] = t[i]
  <1>1. /\ s \o t \in Seq(S) /\ Len(s \o t) = Len(s) + Len(t)
        /\ \A i \in 1..Len(s) : (s \o t)[i] = s[i]
        /\ \A i \in 1..Len(t) : (s \o t)[Len(s) + i] = t[i]
    BY ConcatFacts
  <1> QED BY <1>1

\* A sequence without some elements.
LEMMA WithoutFacts ==
    ASSUME NEW S, NEW s \in Seq(S), NEW R, NEW t \in Without(s, R)
    PROVE  t \in Seq(S) /\ ToSet(t) = ToSet(s) \ R
  <1>1. t \in SeqOf(ToSet(s) \ R, Len(s)) /\ ToSet(t) = ToSet(s) \ R
    BY DEF Without
  <1>2. PICK m \in 0..Len(s) : t \in [1..m -> ToSet(s) \ R]
    BY <1>1 DEF SeqOf
  <1>3. ToSet(s) \ R \subseteq S /\ m \in Nat
    BY SeqFacts
  <1>4. t \in Seq(S)
    BY <1>2, <1>3
  <1> QED BY <1>1, <1>4

-----------------------------------------------------------------------------
(* Tokens and texts.                                                       *)

\* The constants of a request.
LEMMA Sizes ==
    ASSUME NEW r \in Request
    PROVE  /\ PromptLen[r] \in Nat /\ PromptLen[r] > 0
           /\ MaxTokens[r] \in Nat /\ MaxTokens[r] > 0
           /\ EosAt[r] \in Nat /\ EosIn(r) \in Nat /\ EosIn(r) > 0
           /\ r # None
  <1>1. /\ PromptLen[r] \in Nat \ {0} /\ MaxTokens[r] \in Nat \ {0} /\ EosAt[r] \in Nat
        /\ r # None
    BY DSparkAssumption
  <1> QED BY <1>1 DEF EosIn

\* The tokens of a text are none of the others.
LEMMA TokenFacts ==
    ASSUME NEW r \in Request, NEW n \in Nat
    PROVE  /\ Token(r, n) \in TokenIds /\ Token(r, n) # Bad /\ Token(r, n) # None
           /\ Bad \in TokenIds
           /\ Token(r, n).req = r /\ Token(r, n).pos = n
  <1>1. r # None /\ None \notin TokenIds
    BY DSparkAssumption
  <1>2. Token(r, n) \in TokenIds /\ Bad \in TokenIds
    BY DEF Token, Bad, TokenIds
  <1>3. Token(r, n).req = r /\ Token(r, n).pos = n /\ Bad.req = None
    BY DEF Token, Bad
  <1> QED BY <1>1, <1>2, <1>3

\* A text is a sequence of tokens.
LEMMA TextFacts ==
    ASSUME NEW r \in Request, NEW n \in Nat
    PROVE  /\ Text(r, n) \in Seq(TokenIds) /\ Len(Text(r, n)) = n
           /\ \A i \in 1..n : Text(r, n)[i] = Token(r, i)
  <1>1. Text(r, n) \in [1..n -> TokenIds] /\ \A i \in 1..n : Text(r, n)[i] = Token(r, i)
    BY TokenFacts DEF Text
  <1> QED BY <1>1, FunctionIsSeq

\* A sequence of a text's tokens is the text.
LEMMA IsText ==
    ASSUME NEW r \in Request, NEW s \in Seq(TokenIds),
           \A i \in 1..Len(s) : s[i] = Token(r, i)
    PROVE  s = Text(r, Len(s))
  <1>1. Len(s) \in Nat
    BY LenProperties
  <1> QED BY <1>1, TextFacts, SeqEqual

\* The text goes on.
LEMMA TextGrows ==
    ASSUME NEW r \in Request, NEW n \in Nat, NEW s \in Seq(TokenIds),
           \A i \in 1..Len(s) : s[i] = Token(r, n + i)
    PROVE  Text(r, n) \o s = Text(r, n + Len(s))
  <1> DEFINE t == Text(r, n) \o s
  <1>1. Len(s) \in Nat /\ Text(r, n) \in Seq(TokenIds) /\ Len(Text(r, n)) = n
    BY LenProperties, TextFacts
  <1>2. /\ t \in Seq(TokenIds) /\ Len(t) = n + Len(s)
        /\ \A i \in 1..n : t[i] = Text(r, n)[i]
        /\ \A i \in 1..Len(s) : t[n + i] = s[i]
    BY <1>1, ConcatAt
  <1>3. ASSUME NEW i \in 1..Len(t) PROVE t[i] = Token(r, i)
    <2>1. CASE i <= n
      <3>1. i \in 1..n
        BY <2>1, <1>1, <1>2
      <3> QED BY <3>1, <1>2, TextFacts
    <2>2. CASE ~(i <= n)
      <3>1. i - n \in 1..Len(s) /\ n + (i - n) = i
        BY <2>2, <1>1, <1>2
      <3>2. t[n + (i - n)] = s[i - n] /\ s[i - n] = Token(r, n + (i - n))
        BY <3>1, <1>2
      <3> QED BY <3>1, <3>2
    <2> QED BY <2>1, <2>2
  <1> HIDE DEF t
  <1>4. t = Text(r, Len(t))
    BY <1>2, <1>3, IsText
  <1> QED BY <1>2, <1>4 DEF t

\* One token more.
LEMMA NextToken ==
    ASSUME NEW r \in Request, NEW n \in Nat
    PROVE  Text(r, n) \o <<Token(r, n + 1)>> = Text(r, n + 1)
  <1> DEFINE s == <<Token(r, n + 1)>>
  <1>1. s \in Seq(TokenIds) /\ Len(s) = 1 /\ s[1] = Token(r, n + 1)
    BY TokenFacts
  <1> HIDE DEF s
  <1>2. \A i \in 1..Len(s) : s[i] = Token(r, n + i)
    BY <1>1
  <1>3. Text(r, n) \o s = Text(r, n + Len(s))
    BY <1>1, <1>2, TextGrows
  <1> QED BY <1>1, <1>3 DEF s

\* The target continues a text, and answers with a token in any case.
LEMMA ArgmaxFacts ==
    /\ \A s \in Seq(TokenIds) : Argmax(s) \in TokenIds
    /\ \A r \in Request, n \in Nat : n > 0 => Argmax(Text(r, n)) = Token(r, n + 1)
  <1>1. ASSUME NEW s \in Seq(TokenIds) PROVE Argmax(s) \in TokenIds
    <2>1. CASE s = <<>>
      BY <2>1 DEF Argmax, Bad, Token, TokenIds
    <2>2. CASE s # <<>>
      <3>1. Len(s) \in Nat /\ Len(s) \in 1..Len(s)
        BY <2>2, EmptySeq
      <3>2. s[Len(s)] \in TokenIds
        BY <3>1, ElementOfSeq
      <3>3. Last(s).req \in Request \cup {None} /\ Len(s) + 1 \in Nat
        BY <3>1, <3>2 DEF Last, TokenIds
      <3> QED BY <3>3 DEF Argmax, Bad, Token, TokenIds
    <2> QED BY <2>1, <2>2
  <1>2. ASSUME NEW r \in Request, NEW n \in Nat, n > 0
        PROVE  Argmax(Text(r, n)) = Token(r, n + 1)
    <2>1. Text(r, n) \in Seq(TokenIds) /\ Len(Text(r, n)) = n /\ Text(r, n)[n] = Token(r, n)
      BY <1>2, TextFacts
    <2>2. Text(r, n) # <<>>
      BY <1>2, <2>1, SeqFacts
    <2>3. Last(Text(r, n)).req = r
      BY <2>1, TokenFacts DEF Last
    <2> QED BY <2>1, <2>2, <2>3 DEF Argmax
  <1> QED BY <1>1, <1>2

\* The first tokens of an output, and one part more.
LEMMA OutputFacts ==
    ASSUME NEW r \in Request, NEW g \in Nat
    PROVE  /\ Output(r, g) \in Seq(TokenIds) /\ Len(Output(r, g)) = g
           /\ \A i \in 1..g : Output(r, g)[i] = Token(r, PromptLen[r] + i)
  <1>1. \A i \in 1..g : Token(r, PromptLen[r] + i) \in TokenIds
    BY Sizes, TokenFacts
  <1>2. Output(r, g) \in [1..g -> TokenIds]
        /\ \A i \in 1..g : Output(r, g)[i] = Token(r, PromptLen[r] + i)
    BY <1>1 DEF Output
  <1> QED BY <1>2, FunctionIsSeq

\* An output goes on with the text's next tokens.
LEMMA OutputGrows ==
    ASSUME NEW r \in Request, NEW g \in Nat, NEW s \in Seq(TokenIds),
           \A i \in 1..Len(s) : s[i] = Token(r, PromptLen[r] + g + i)
    PROVE  Output(r, g) \o s = Output(r, g + Len(s))
  <1> DEFINE t == Output(r, g) \o s
             u == Output(r, g + Len(s))
  <1>1. /\ Len(s) \in Nat /\ g + Len(s) \in Nat /\ PromptLen[r] \in Nat
        /\ Output(r, g) \in Seq(TokenIds) /\ Len(Output(r, g)) = g
    BY LenProperties, OutputFacts, Sizes
  <1>2. /\ t \in Seq(TokenIds) /\ Len(t) = g + Len(s)
        /\ \A i \in 1..g : t[i] = Output(r, g)[i]
        /\ \A i \in 1..Len(s) : t[g + i] = s[i]
    BY <1>1, ConcatAt
  <1>3. /\ u \in Seq(TokenIds) /\ Len(u) = g + Len(s)
        /\ \A i \in 1..(g + Len(s)) : u[i] = Token(r, PromptLen[r] + i)
    BY <1>1, OutputFacts
  <1>4. ASSUME NEW i \in 1..Len(t) PROVE t[i] = u[i]
    <2>1. i \in 1..(g + Len(s))
      BY <1>2
    <2>2. CASE i <= g
      <3>1. i \in 1..g
        BY <2>1, <2>2
      <3> QED BY <2>1, <3>1, <1>2, <1>3, OutputFacts
    <2>3. CASE ~(i <= g)
      <3>1. PICK j \in 1..Len(s) : i = g + j
        <4>1. i - g \in 1..Len(s) /\ i = g + (i - g)
          BY <2>1, <2>3, <1>1
        <4> QED BY <4>1
      <3>2. t[g + j] = s[j] /\ s[j] = Token(r, PromptLen[r] + g + j)
        BY <1>2
      <3>3. PromptLen[r] + g + j = PromptLen[r] + (g + j)
        BY <1>1
      <3> QED BY <2>1, <3>1, <3>2, <3>3, <1>3
    <2> QED BY <2>2, <2>3
  <1> HIDE DEF t, u
  <1>5. t = u
    BY <1>2, <1>3, <1>4, SeqEqual
  <1> QED BY <1>5 DEF t, u

-----------------------------------------------------------------------------
(* What a request commits.                                                 *)

\* EOS within max_tokens is where EosIn says.
LEMMA EosFacts ==
    ASSUME NEW r \in Request, NEW n \in Nat, n > 0, n <= MaxTokens[r]
    PROVE  IsEos(Token(r, PromptLen[r] + n)) <=> n = EosIn(r)
  <1>1. /\ PromptLen[r] \in Nat /\ PromptLen[r] + n \in Nat /\ EosAt[r] \in Nat
        /\ MaxTokens[r] \in Nat
    BY Sizes
  <1>2. IsEos(Token(r, PromptLen[r] + n)) <=> PromptLen[r] + n = EosAt[r]
    BY <1>1, TokenFacts DEF IsEos
  <1>3. CASE EosAt[r] > PromptLen[r]
    BY <1>1, <1>2, <1>3 DEF EosIn
  <1>4. CASE ~(EosAt[r] > PromptLen[r])
    BY <1>1, <1>2, <1>4 DEF EosIn
  <1> QED BY <1>3, <1>4

\* A request that takes some tokens of its text emits the first c of them, up to
\* EOS and max_tokens, and says why it stops.
LEMMA OutcomeFacts ==
    ASSUME NEW r \in Request, NEW g \in Nat, NEW s \in Seq(TokenIds),
           generated[r] = Output(r, g), g < MaxTokens[r], g < EosIn(r), s # <<>>,
           \A i \in 1..Len(s) : s[i] = Token(r, PromptLen[r] + g + i)
    PROVE  \E c \in 0..Len(s) :
              /\ Outcome(r, s).emitted \in Seq(TokenIds)
              /\ Len(Outcome(r, s).emitted) = c
              /\ generated[r] \o Outcome(r, s).emitted = Output(r, g + c)
              /\ g + c < EosIn(r) /\ g + c <= MaxTokens[r]
              /\ Outcome(r, s).reason \in {"none", "length", "stop"}
              /\ Outcome(r, s).reason = "none" => c = Len(s) /\ g + c < MaxTokens[r]
              /\ Outcome(r, s).reason = "length" => g + c = MaxTokens[r]
              /\ Outcome(r, s).reason = "stop" => g + c + 1 = EosIn(r)
  <1> DEFINE p == PromptLen[r]
             max == MaxTokens[r]
             end == EosIn(r)
             l == Len(s)
             room == max - Len(generated[r])
             m == IF room < l THEN room ELSE l
             taken == SubSeq(s, 1, m)
             eos == {i \in DOMAIN taken : IsEos(taken[i])}
             cut == IF eos = {} THEN Len(taken) ELSE (CHOOSE i \in eos : \A j \in eos : i <= j) - 1
             emitted == SubSeq(taken, 1, cut)
  <1>1. /\ p \in Nat /\ max \in Nat /\ end \in Nat /\ l \in Nat /\ l > 0
        /\ Len(generated[r]) = g
    BY Sizes, SeqFacts, OutputFacts
  <1>2. /\ Outcome(r, s).emitted = emitted
        /\ Outcome(r, s).reason = IF eos # {} THEN "stop" ELSE IF g + cut >= max THEN "length" ELSE "none"
    <2>1. Outcome(r, s) = [emitted |-> emitted,
                           reason |-> IF eos # {} THEN "stop"
                                      ELSE IF Len(generated[r]) + cut >= max THEN "length" ELSE "none"]
      BY DEF Outcome
    <2> HIDE DEF emitted, eos, cut, max
    <2> QED BY <1>1, <2>1
  <1>3. g < max /\ g < end
    OBVIOUS
  <1>4. \A i \in 1..l : s[i] = Token(r, p + g + i)
    OBVIOUS
  <1> HIDE DEF p, max, end, l, room, m
  <1>5. m \in 1..l /\ m <= l /\ m \in Nat /\ g + m <= max /\ (m < l => g + m = max)
    BY <1>1, <1>3 DEF m, room
  <1>6. /\ taken \in Seq(TokenIds) /\ Len(taken) = m
        /\ \A i \in 1..m : taken[i] = s[i]
    BY <1>5, PrefixFacts DEF l
  <1>7. \A i \in 1..m : taken[i] = Token(r, p + g + i)
    <2> TAKE i \in 1..m
    <2>1. i \in 1..l
      BY <1>1, <1>5
    <2> QED BY <2>1, <1>4, <1>6
  <1>8. DOMAIN taken = 1..m
    BY <1>6, SeqFacts
  <1>9. \A i \in 1..m : IsEos(taken[i]) <=> g + i = end
    <2> TAKE i \in 1..m
    <2>1. g + i \in Nat /\ g + i > 0 /\ g + i <= max /\ p + g + i = p + (g + i)
      BY <1>1, <1>5
    <2>2. IsEos(Token(r, p + (g + i))) <=> g + i = end
      BY <2>1, EosFacts DEF p, max, end
    <2> QED BY <1>7, <2>1, <2>2
  <1>10. eos = {i \in 1..m : g + i = end}
    BY <1>8, <1>9
  <1> HIDE DEF taken, eos
  <1>11. cut \in 0..m /\ g + cut < end
         /\ (eos # {} => g + cut + 1 = end) /\ (eos = {} => cut = m)
    <2>1. CASE eos = {}
      <3>1. cut = m
        BY <2>1, <1>6
      <3>2. \A i \in 1..m : g + i # end
        BY <2>1, <1>10
      <3>3. ~(g + m >= end)
        <4> SUFFICES ASSUME g + m >= end PROVE FALSE
          OBVIOUS
        <4>1. end - g \in 1..m /\ g + (end - g) = end
          BY <1>1, <1>3, <1>5
        <4> QED BY <4>1, <3>2
      <3>4. m \in 0..m /\ g + m < end
        BY <1>1, <1>5, <3>3
      <3> QED BY <2>1, <3>1, <3>4
    <2>2. CASE eos # {}
      <3>1. PICK i \in 1..m : g + i = end
        BY <2>2, <1>10
      <3>2. eos = {i}
        BY <3>1, <1>1, <1>10
      <3>3. (CHOOSE k \in eos : \A j \in eos : k <= j) = i
        BY <3>2, <1>5
      <3>4. cut = i - 1
        BY <2>2, <3>3
      <3> HIDE DEF cut
      <3> QED BY <2>2, <3>1, <3>4, <1>1, <1>5
    <2> QED BY <2>1, <2>2
  <1> HIDE DEF cut
  <1>12. cut \in Nat /\ cut <= m
    BY <1>11, <1>5
  <1>13. /\ emitted \in Seq(TokenIds) /\ Len(emitted) = cut
         /\ \A i \in 1..cut : emitted[i] = taken[i]
    BY <1>6, <1>12, PrefixFacts
  <1>14. \A i \in 1..Len(emitted) : emitted[i] = Token(r, PromptLen[r] + g + i)
    <2> TAKE i \in 1..Len(emitted)
    <2>1. i \in 1..cut /\ i \in 1..m
      BY <1>5, <1>12, <1>13
    <2> QED BY <2>1, <1>7, <1>13 DEF p
  <1> HIDE DEF emitted
  <1>15. generated[r] \o emitted = Output(r, g + cut)
    BY <1>13, <1>14, OutputGrows
  <1>16. cut \in 0..Len(s) /\ g + cut <= max
    BY <1>1, <1>5, <1>12 DEF l
  <1> DEFINE o == Outcome(r, s)
             Ends(c) == /\ g + c < EosIn(r) /\ g + c <= MaxTokens[r]
                        /\ o.reason \in {"none", "length", "stop"}
                        /\ o.reason = "none" => c = Len(s) /\ g + c < MaxTokens[r]
                        /\ o.reason = "length" => g + c = MaxTokens[r]
                        /\ o.reason = "stop" => g + c + 1 = EosIn(r)
  <1>17. Ends(cut)
    <2> HIDE DEF o
    <2>1. g + cut < EosIn(r) /\ g + cut <= MaxTokens[r]
      BY <1>11, <1>16 DEF end, max
    <2>2. o.reason = IF eos # {} THEN "stop" ELSE IF g + cut >= max THEN "length" ELSE "none"
      BY <1>2 DEF o
    <2>3. CASE eos # {}
      <3>1. o.reason = "stop" /\ g + cut + 1 = EosIn(r)
        BY <2>2, <2>3, <1>11 DEF end
      <3> QED BY <2>1, <3>1
    <2>4. CASE eos = {} /\ g + cut >= max
      <3>1. o.reason = "length" /\ g + cut = MaxTokens[r]
        BY <1>1, <1>12, <1>16, <2>2, <2>4 DEF max
      <3> QED BY <2>1, <3>1
    <2>5. CASE eos = {} /\ ~(g + cut >= max)
      <3>1. o.reason = "none" /\ cut = Len(s) /\ g + cut < MaxTokens[r]
        BY <1>1, <1>5, <1>11, <1>12, <2>2, <2>5 DEF max, l
      <3> QED BY <2>1, <3>1
    <2> QED BY <2>3, <2>4, <2>5
  <1>18. o.emitted = emitted
    BY <1>2
  <1> HIDE DEF o
  <1>19. /\ o.emitted \in Seq(TokenIds) /\ Len(o.emitted) = cut
         /\ generated[r] \o o.emitted = Output(r, g + cut)
    BY <1>13, <1>15, <1>18
  <1> QED BY <1>16, <1>17, <1>19 DEF o

-----------------------------------------------------------------------------
(* The rows of a packed forward.                                           *)

\* What Offset counts, for rows of f[1], f[2], ... tokens.
Cells(f, i) == UNION {{k} \X (1..f[k]) : k \in 1..(i - 1)}

\* A cell is a row and a place in it.
LEMMA CellFacts ==
    ASSUME NEW f, NEW i, NEW x
    PROVE  x \in Cells(f, i) <=> \E k \in 1..(i - 1) : \E j \in 1..f[k] : x = <<k, j>>
  BY DEF Cells

\* Each row adds its tokens to the offset.
LEMMA Offsets ==
    ASSUME NEW n \in Nat, NEW f \in [1..n -> Nat]
    PROVE  /\ \A i \in 1..(n + 1) : Cardinality(Cells(f, i)) \in Nat
           /\ \A i \in 1..n : Cardinality(Cells(f, i + 1)) = Cardinality(Cells(f, i)) + f[i]
           /\ \A i, k \in 1..(n + 1) : i <= k => Cardinality(Cells(f, i)) <= Cardinality(Cells(f, k))
  <1>1. \A i \in 1..(n + 1) : IsFiniteSet(Cells(f, i))
    <2> TAKE i \in 1..(n + 1)
    <2> DEFINE at == [k \in 1..(i - 1) |-> {k} \X (1..f[k])]
               S == {{k} \X (1..f[k]) : k \in 1..(i - 1)}
    <2>1. IsFiniteSet(S)
      <3>1. at \in Surjection(1..(i - 1), S)
        BY DEF Surjection
      <3>2. IsFiniteSet(1..(i - 1))
        BY FS_Interval
      <3> QED BY <3>1, <3>2, FS_Surjection
    <2>2. \A T \in S : IsFiniteSet(T)
      <3> SUFFICES ASSUME NEW k \in 1..(i - 1) PROVE IsFiniteSet({k} \X (1..f[k]))
        OBVIOUS
      <3>1. IsFiniteSet({k})
        BY FS_Singleton
      <3>2. f[k] \in Nat
        OBVIOUS
      <3>3. IsFiniteSet(1..f[k])
        BY <3>2, FS_Interval
      <3> QED BY <3>1, <3>3, FS_Product
    <2>3. IsFiniteSet(UNION S)
      BY <2>1, <2>2, FS_UNION
    <2> QED BY <2>3 DEF Cells
  <1>2. \A i \in 1..(n + 1) : Cardinality(Cells(f, i)) \in Nat
    BY <1>1, FS_CardinalityType
  <1>3. ASSUME NEW i \in 1..n
        PROVE  Cardinality(Cells(f, i + 1)) = Cardinality(Cells(f, i)) + f[i]
    <2> DEFINE row == {i} \X (1..f[i])
    <2>1. f[i] \in Nat /\ i \in 1..(n + 1) /\ i + 1 \in 1..(n + 1)
      OBVIOUS
    <2>2. IsFiniteSet(row) /\ Cardinality(row) = f[i]
      <3>1. IsFiniteSet({i}) /\ Cardinality({i}) = 1
        BY FS_Singleton
      <3>2. IsFiniteSet(1..f[i]) /\ Cardinality(1..f[i]) = f[i]
        BY <2>1, FS_Interval
      <3>3. IsFiniteSet(row) /\ Cardinality(row) = Cardinality({i}) * Cardinality(1..f[i])
        BY <3>1, <3>2, FS_Product
      <3>4. 1 * f[i] = f[i]
        BY <2>1
      <3> HIDE DEF row
      <3> QED BY <3>1, <3>2, <3>3, <3>4
    <2>3. Cells(f, i + 1) = Cells(f, i) \cup row
      <3>1. \A k : k \in 1..(i + 1 - 1) <=> k \in 1..(i - 1) \/ k = i
        OBVIOUS
      <3>2. ASSUME NEW x PROVE x \in Cells(f, i + 1) <=> x \in Cells(f, i) \/ x \in row
        <4>1. x \in row <=> \E j \in 1..f[i] : x = <<i, j>>
          OBVIOUS
        <4>2. x \in Cells(f, i) <=> \E k \in 1..(i - 1) : \E j \in 1..f[k] : x = <<k, j>>
          BY CellFacts
        <4>3. x \in Cells(f, i + 1) <=> \E k \in 1..(i + 1 - 1) : \E j \in 1..f[k] : x = <<k, j>>
          BY CellFacts
        <4> HIDE DEF row
        <4> QED BY <3>1, <4>1, <4>2, <4>3
      <3> HIDE DEF row
      <3> QED BY <3>2
    <2>4. Cells(f, i) \cap row = {}
      <3> SUFFICES ASSUME NEW x \in Cells(f, i), x \in row PROVE FALSE
        OBVIOUS
      <3>1. PICK k \in 1..(i - 1) : \E j \in 1..f[k] : x = <<k, j>>
        BY CellFacts
      <3>2. x[1] = k /\ x[1] = i
        BY <3>1
      <3> QED BY <3>1, <3>2
    <2> HIDE DEF row
    <2>5. Cardinality(Cells(f, i) \cup row)
              = Cardinality(Cells(f, i)) + Cardinality(row) - Cardinality(Cells(f, i) \cap row)
      BY <1>1, <2>1, <2>2, FS_Union
    <2>6. Cardinality(Cells(f, i) \cap row) = 0
      BY <2>4, FS_EmptySet
    <2>7. Cardinality(Cells(f, i)) \in Nat
      BY <1>2, <2>1
    <2>8. Cardinality(Cells(f, i + 1)) = Cardinality(Cells(f, i)) + f[i] - 0
      BY <2>2, <2>3, <2>5, <2>6
    <2> QED BY <2>1, <2>7, <2>8
  <1>4. ASSUME NEW i \in 1..(n + 1), NEW k \in 1..(n + 1), i <= k
        PROVE  Cardinality(Cells(f, i)) <= Cardinality(Cells(f, k))
    <2>1. \A x : x \in 1..(i - 1) => x \in 1..(k - 1)
      BY <1>4
    <2>2. Cells(f, i) \in SUBSET Cells(f, k)
      BY <2>1, CellFacts
    <2> QED BY <1>1, <2>2, FS_Subset
  <1> QED BY <1>2, <1>3, <1>4

\* Every request of a batch finds its own rows.
LEMMA Windows ==
    ASSUME running \in Seq(Request), \A q \in ToSet(running) : Feed(q) \in Seq(TokenIds),
           kv \in [Request -> Seq(TokenIds)], NEW r \in ToSet(running)
    PROVE  /\ Window(Taps, r) = Feed(r)
           /\ Window(PackedLogits, r) \in Seq(TokenIds)
           /\ Len(Window(PackedLogits, r)) = Len(Feed(r))
           /\ \A j \in 1..Len(Feed(r)) :
                 Window(PackedLogits, r)[j] = Argmax(kv[r] \o SubSeq(Feed(r), 1, j))
  <1>1. PICK n \in Nat : n = Len(running)
    BY LenProperties
  <1>2. ToSet(running) = {running[k] : k \in 1..n} /\ ToSet(running) \subseteq Request
    BY <1>1, SeqFacts
  <1>3. \A k \in 1..n : running[k] \in ToSet(running)
    BY <1>2
  <1>4. PICK f \in [1..n -> Nat] : \A k \in 1..n : f[k] = Len(Feed(running[k]))
    <2>1. \A k \in 1..n : Len(Feed(running[k])) \in Nat
      BY <1>3, LenProperties
    <2>2. [k \in 1..n |-> Len(Feed(running[k]))] \in [1..n -> Nat]
      BY <2>1
    <2> QED BY <2>2
  <1>5. PICK l \in Nat : l = Len(Feed(r))
    BY LenProperties
  <1>6. Feed(r) \in Seq(TokenIds) /\ \A j \in 1..l : Feed(r)[j] \in TokenIds
    BY <1>5, ElementOfSeq
  <1>7. PICK i \in 1..n : i = Slot(r) /\ running[i] = r
    BY <1>1, <1>2 DEF Slot
  <1>8. \A k \in 1..(n + 1) : Offset(k) = Cardinality(Cells(f, k))
    <2> TAKE k \in 1..(n + 1)
    <2>1. \A m \in 1..(k - 1) : f[m] = Len(Feed(running[m]))
      BY <1>4
    <2>2. UNION {{m} \X (1..Len(Feed(running[m]))) : m \in 1..(k - 1)}
             = UNION {{m} \X (1..f[m]) : m \in 1..(k - 1)}
      BY <2>1
    <2> QED BY <2>2 DEF Offset, Cells
  <1>9. f[i] = l
    BY <1>4, <1>5, <1>7
  <1>10. /\ \A k \in 1..(n + 1) : Offset(k) \in Nat
         /\ \A k \in 1..n : Offset(k + 1) = Offset(k) + f[k]
         /\ \A k, m \in 1..(n + 1) : k <= m => Offset(k) <= Offset(m)
    <2>1. \A k \in 1..n : k \in 1..(n + 1) /\ k + 1 \in 1..(n + 1)
      OBVIOUS
    <2>2. /\ \A k \in 1..(n + 1) : Cardinality(Cells(f, k)) \in Nat
          /\ \A k \in 1..n : Cardinality(Cells(f, k + 1)) = Cardinality(Cells(f, k)) + f[k]
          /\ \A k, m \in 1..(n + 1) : k <= m => Cardinality(Cells(f, k)) <= Cardinality(Cells(f, m))
      BY Offsets
    <2> QED BY <1>8, <2>1, <2>2
  <1>11. PICK o \in Nat : o = Offset(i)
    <2>1. i \in 1..(n + 1)
      OBVIOUS
    <2> QED BY <1>10, <2>1
  <1>12. Offset(i + 1) = o + l
    BY <1>9, <1>10, <1>11
  <1>13. ASSUME NEW j \in 1..l PROVE \E m \in Rows : m = o + j /\ Owner(m) = i /\ m - o = j
    <2>1. Offset(i + 1) <= Offset(n + 1) /\ Offset(n + 1) \in Nat
      <3>1. i + 1 \in 1..(n + 1) /\ n + 1 \in 1..(n + 1) /\ i + 1 <= n + 1
        OBVIOUS
      <3> QED BY <3>1, <1>10
    <2>2. PICK m \in Nat : m = o + j
      OBVIOUS
    <2>3. m \in Rows
      <3>1. m \in 1..Offset(n + 1)
        BY <1>12, <2>1, <2>2
      <3> QED BY <1>1, <3>1 DEF Rows
    <2>4. Offset(i) < m /\ m <= Offset(i + 1)
      BY <1>11, <1>12, <2>2
    <2>5. \A k \in 1..n : Offset(k) < m /\ m <= Offset(k + 1) => k = i
      <3> SUFFICES ASSUME NEW k \in 1..n, Offset(k) < m, m <= Offset(k + 1), k # i PROVE FALSE
        OBVIOUS
      <3>1. /\ k \in 1..(n + 1) /\ k + 1 \in 1..(n + 1) /\ i \in 1..(n + 1) /\ i + 1 \in 1..(n + 1)
            /\ k + 1 <= i \/ i + 1 <= k
        OBVIOUS
      <3>2. /\ Offset(k) \in Nat /\ Offset(k + 1) \in Nat /\ Offset(i) \in Nat /\ Offset(i + 1) \in Nat
            /\ k + 1 <= i => Offset(k + 1) <= Offset(i)
            /\ i + 1 <= k => Offset(i + 1) <= Offset(k)
        BY <3>1, <1>10
      <3>3. CASE k + 1 <= i
        <4>1. Offset(k + 1) <= Offset(i) /\ Offset(i) < m /\ m <= Offset(k + 1)
          BY <2>4, <3>2, <3>3
        <4> QED BY <3>2, <4>1
      <3>4. CASE i + 1 <= k
        <4>1. Offset(i + 1) <= Offset(k) /\ Offset(k) < m /\ m <= Offset(i + 1)
          BY <2>4, <3>2, <3>4
        <4> QED BY <3>2, <4>1
      <3> QED BY <3>1, <3>3, <3>4
    <2>6. Owner(m) = CHOOSE k \in 1..n : Offset(k) < m /\ m <= Offset(k + 1)
      BY <1>1 DEF Owner
    <2>7. Owner(m) = i
      BY <2>4, <2>5, <2>6
    <2> QED BY <2>2, <2>3, <2>7
  <1>14. ASSUME NEW j \in 1..l
         PROVE  /\ Taps[o + j] = Feed(r)[j]
                /\ PackedLogits[o + j] = Argmax(kv[r] \o SubSeq(Feed(r), 1, j))
    <2>1. PICK m \in Rows : m = o + j /\ Owner(m) = i /\ m - o = j
      BY <1>13
    <2>2. Taps[m] = Feed(running[Owner(m)])[m - Offset(Owner(m))]
      BY DEF Taps
    <2>3. PackedLogits[m] = Argmax(kv[running[Owner(m)]]
                                   \o SubSeq(Feed(running[Owner(m)]), 1, m - Offset(Owner(m))))
      BY DEF PackedLogits
    <2> QED BY <1>7, <1>11, <2>1, <2>2, <2>3
  <1>15. ASSUME NEW p, \A j \in 1..l : p[o + j] \in TokenIds
         PROVE  /\ Window(p, r) \in Seq(TokenIds) /\ Len(Window(p, r)) = l
                /\ \A j \in 1..l : Window(p, r)[j] = p[o + j]
    <2>1. PICK a \in Int : a = o + 1
      OBVIOUS
    <2>2. PICK b \in Int : b = o + l
      OBVIOUS
    <2>3. Window(p, r) = SubSeq(p, a, b)
      BY <1>5, <1>7, <1>11, <2>1, <2>2 DEF Window
    <2>4. \A m \in a..b : p[m] \in TokenIds
      <3> TAKE m \in a..b
      <3>1. m - o \in 1..l /\ o + (m - o) = m
        BY <2>1, <2>2
      <3> QED BY <1>15, <3>1
    <2>5. /\ SubSeq(p, a, b) \in Seq(TokenIds)
          /\ Len(SubSeq(p, a, b)) = IF a <= b THEN b - a + 1 ELSE 0
          /\ \A m \in 1..(b - a + 1) : SubSeq(p, a, b)[m] = p[a + m - 1]
      BY <2>4, SubSeqProperties
    <2>6. (IF a <= b THEN b - a + 1 ELSE 0) = l
      BY <2>1, <2>2
    <2>7. \A j \in 1..l : j \in 1..(b - a + 1) /\ a + j - 1 = o + j
      BY <2>1, <2>2
    <2> QED BY <2>3, <2>5, <2>6, <2>7
  <1>16. Window(Taps, r) = Feed(r)
    <2>1. \A j \in 1..l : Taps[o + j] = Feed(r)[j] /\ Taps[o + j] \in TokenIds
      BY <1>6, <1>14
    <2>2. /\ Window(Taps, r) \in Seq(TokenIds) /\ Len(Window(Taps, r)) = l
          /\ \A j \in 1..l : Window(Taps, r)[j] = Taps[o + j]
      BY <2>1, <1>15
    <2> QED BY <1>5, <1>6, <2>1, <2>2, SeqEqual
  <1>17. /\ Window(PackedLogits, r) \in Seq(TokenIds) /\ Len(Window(PackedLogits, r)) = l
         /\ \A j \in 1..l : Window(PackedLogits, r)[j] = PackedLogits[o + j]
    <2>1. \A j \in 1..l : PackedLogits[o + j] \in TokenIds
      <3> TAKE j \in 1..l
      <3>1. kv[r] \in Seq(TokenIds)
        BY <1>2
      <3>2. SubSeq(Feed(r), 1, j) \in Seq(TokenIds)
        BY <1>5, <1>6, PrefixFacts
      <3>3. kv[r] \o SubSeq(Feed(r), 1, j) \in Seq(TokenIds)
        BY <3>1, <3>2, ConcatFacts
      <3> QED BY <1>14, <3>3, ArgmaxFacts
    <2> QED BY <2>1, <1>15
  <1> QED BY <1>5, <1>14, <1>16, <1>17

-----------------------------------------------------------------------------
(* Proposals and their verification.                                       *)

\* The front of three sequences one after the other.
LEMMA FrontOfThree ==
    ASSUME NEW S, NEW s \in Seq(S), NEW t \in Seq(S), NEW u \in Seq(S)
    PROVE  SubSeq(s \o t \o u, 1, Len(s)) = s
  <1>1. PICK n \in Nat : n = Len(s)
    BY LenProperties
  <1>2. /\ s \o t \in Seq(S) /\ Len(s \o t) = n + Len(t) /\ Len(t) \in Nat
        /\ \A i \in 1..n : (s \o t)[i] = s[i]
    BY <1>1, ConcatFacts, LenProperties
  <1>3. PICK v \in Seq(S) : v = s \o t
    BY <1>2
  <1>4. Len(v) \in Nat /\ n <= Len(v) /\ \A i \in 1..n : v[i] = s[i] /\ i \in 1..Len(v)
    BY <1>2, <1>3
  <1>5. /\ v \o u \in Seq(S) /\ Len(v \o u) = Len(v) + Len(u) /\ Len(u) \in Nat
        /\ \A i \in 1..Len(v) : (v \o u)[i] = v[i]
    BY ConcatFacts, LenProperties
  <1>6. n <= Len(v \o u)
    BY <1>4, <1>5
  <1>7. /\ SubSeq(v \o u, 1, n) \in Seq(S) /\ Len(SubSeq(v \o u, 1, n)) = n
        /\ \A i \in 1..n : SubSeq(v \o u, 1, n)[i] = (v \o u)[i]
    BY <1>5, <1>6, PrefixFacts
  <1>8. SubSeq(v \o u, 1, n) = s
    BY <1>1, <1>4, <1>5, <1>7, SeqEqual
  <1> QED BY <1>1, <1>3, <1>8

\* One element, then a sequence.
LEMMA OneThen ==
    ASSUME NEW S, NEW e \in S, NEW t \in Seq(S)
    PROVE  /\ <<e>> \o t \in Seq(S) /\ Len(<<e>> \o t) = Len(t) + 1
           /\ (<<e>> \o t)[1] = e
           /\ \A i \in 1..Len(t) : (<<e>> \o t)[1 + i] = t[i]
  <1>1. PICK a \in Seq(S) : a = <<e>> /\ Len(a) = 1 /\ a[1] = e
    <2>1. <<e>> \in Seq(S) /\ Len(<<e>>) = 1 /\ <<e>>[1] = e
      OBVIOUS
    <2> QED BY <2>1
  <1>2. Len(t) \in Nat
    BY LenProperties
  <1>3. /\ a \o t \in Seq(S) /\ Len(a \o t) = Len(a) + Len(t)
        /\ \A i \in 1..Len(a) : (a \o t)[i] = a[i]
        /\ \A i \in 1..Len(t) : (a \o t)[Len(a) + i] = t[i]
    BY ConcatFacts
  <1> QED BY <1>1, <1>2, <1>3

\* A proposal offers tokens for the places after the anchor.
LEMMA ProposalFacts ==
    ASSUME NEW r \in Request, NEW n \in Nat, NEW R, NEW confident \in 0..DraftBlock, NEW room \in Nat
    PROVE  Offers(r, n + 1, Proposal(r, n, R, confident, room))
  <1> DEFINE block == [i \in 1..DraftBlock |-> IF i \in R THEN Token(r, n + 1 + i) ELSE Bad]
             m == IF confident < room THEN confident ELSE room
  <1>1. DraftBlock \in Nat
    BY DSparkAssumption
  <1>2. \A i \in 1..DraftBlock : block[i] \in {Token(r, n + 1 + i), Bad}
    OBVIOUS
  <1>3. \A i \in 1..DraftBlock : block[i] \in TokenIds
    <2> TAKE i \in 1..DraftBlock
    <2>1. n + 1 + i \in Nat
      OBVIOUS
    <2> QED BY <1>2, <2>1, TokenFacts
  <1>4. block \in [1..DraftBlock -> TokenIds]
    BY <1>3
  <1> HIDE DEF block
  <1>5. block \in Seq(TokenIds) /\ Len(block) = DraftBlock
    BY <1>1, <1>4, FunctionIsSeq
  <1>6. m \in Nat /\ m <= DraftBlock
    BY <1>1
  <1> HIDE DEF m
  <1>7. /\ SubSeq(block, 1, m) \in Seq(TokenIds) /\ Len(SubSeq(block, 1, m)) = m
        /\ \A i \in 1..m : SubSeq(block, 1, m)[i] = block[i]
    BY <1>5, <1>6, PrefixFacts
  <1>8. \A i \in 1..m : i \in 1..DraftBlock
    BY <1>1, <1>6
  <1>9. Proposal(r, n, R, confident, room) = SubSeq(block, 1, m)
    BY DEF Proposal, block, m
  <1> QED BY <1>2, <1>7, <1>8, <1>9 DEF Offers

\* A drafter whose cache and context are the slot's text, anchored at its end.
Anchors(s, text) == s.anchor \in TokenIds /\ s.start = Len(text) /\ s.cache \o s.context = text

\* Drafting folds the context into the drafter's cache, and no more.
LEMMA DraftedFacts ==
    ASSUME NEW s \in SpecDecodeState, NEW text \in Seq(TokenIds), NEW offered \in Seq(TokenIds),
           Anchors(s, text)
    PROVE  /\ Drafted(s, offered) \in SpecDecodeState
           /\ Drafted(s, offered).cache = text /\ Drafted(s, offered).offered = offered
           /\ Drafted(s, offered).anchor = s.anchor /\ Drafted(s, offered).start = s.start
  <1> DEFINE c == SubSeq(s.cache \o s.context \o <<s.anchor>> \o offered, 1, s.start)
  <1> DEFINE a == <<s.anchor>>
  <1>1. a \in Seq(TokenIds)
    BY DEF Anchors
  <1> HIDE DEF a
  <1>2. /\ s.context \in Seq(TokenIds) /\ s.start \in Nat \cup {None}
        /\ s = [cache |-> s.cache, context |-> s.context, anchor |-> s.anchor,
                offered |-> s.offered, start |-> s.start]
    BY DEF SpecDecodeState
  <1>3. SubSeq(text \o a \o offered, 1, Len(text)) = text
    BY <1>1, FrontOfThree
  <1>4. c = text
    BY <1>3 DEF a, Anchors
  <1> HIDE DEF c
  <1>5. Drafted(s, offered) = [s EXCEPT !.offered = offered, !.cache = c]
    BY DEF Drafted, c
  <1> HIDE <1>2
  <1>6. Drafted(s, offered) = [cache |-> text, context |-> s.context, anchor |-> s.anchor,
                               offered |-> offered, start |-> s.start]
    BY <1>2, <1>4, <1>5
  <1> QED BY <1>2, <1>6 DEF SpecDecodeState

\* The room of a proposal.
LEMMA RoomFacts ==
    ASSUME NEW r \in Request, NEW n \in Nat
    PROVE  Room(r, n) \in Nat
  BY Sizes DEF Room

\* The accepted drafts are those the target would have given.
LEMMA AcceptedFacts ==
    ASSUME NEW offered \in Seq(TokenIds), NEW window
    PROVE  /\ Accepted(window, offered) \in 0..Len(offered)
           /\ \A i \in 1..Accepted(window, offered) : window[i] = offered[i]
  <1> DEFINE wrong == {i \in DOMAIN offered : window[i] # offered[i]}
  <1>1. Len(offered) \in Nat /\ DOMAIN offered = 1..Len(offered)
    BY SeqFacts
  <1>2. CASE wrong = {}
    <2>1. Accepted(window, offered) = Len(offered)
      BY <1>2 DEF Accepted
    <2> QED BY <1>1, <1>2, <2>1
  <1>3. CASE wrong # {}
    <2>1. wrong \in SUBSET Nat
      BY <1>1
    <2>2. \E x \in wrong : \A y \in wrong : x <= y
      <3> HIDE DEF wrong
      <3> QED BY <1>3, <2>1, Least
    <2> DEFINE f == CHOOSE i \in wrong : \A j \in wrong : i <= j
    <2>3. f \in wrong /\ \A j \in wrong : f <= j
      <3> HIDE DEF wrong
      <3> QED BY <2>2
    <2>4. Accepted(window, offered) = f - 1
      BY <1>3 DEF Accepted
    <2> HIDE DEF f
    <2>5. f \in 1..Len(offered)
      BY <1>1, <2>3
    <2>6. \A i \in 1..(f - 1) : i \in 1..Len(offered) /\ i \notin wrong
      <3> TAKE i \in 1..(f - 1)
      <3>1. i \in 1..Len(offered) /\ ~(f <= i)
        BY <1>1, <2>5
      <3> HIDE DEF wrong
      <3> QED BY <2>3, <3>1
    <2>7. \A i \in 1..(f - 1) : window[i] = offered[i]
      BY <1>1, <2>6
    <2> QED BY <1>1, <2>4, <2>5, <2>7
  <1> QED BY <1>2, <1>3

\* The window w verifies a proposal, fed after q tokens of r's text.
Judges(r, q, offered, feed, w) ==
    /\ Offers(r, q + 1, offered) /\ feed = <<Token(r, q + 1)>> \o offered
    /\ \A j \in 1..Len(feed) : w[j] = Argmax(Text(r, q) \o SubSeq(feed, 1, j))

\* The first n drafts and the bonus are the text's next tokens, and so are the
\* positions that stay.
Judged(r, q, offered, feed, w, n) ==
    /\ \A i \in 1..n : offered[i] = Token(r, q + 1 + i)
    /\ w[n + 1] = Token(r, q + 1 + n + 1)
    /\ Text(r, q) \o SubSeq(feed, 1, n + 1) = Text(r, q + n + 1)

\* Verified from a slot with q tokens of the text, the accepted drafts and the
\* bonus are the text's next tokens, and so are the positions that stay.
LEMMA Verified ==
    ASSUME NEW r \in Request, NEW q \in Nat, NEW offered, NEW feed, NEW window,
           Judges(r, q, offered, feed, window)
    PROVE  /\ feed \in Seq(TokenIds) /\ Len(feed) = Len(offered) + 1
           /\ \E n \in 0..Len(offered) :
                 n = Accepted(window, offered) /\ Judged(r, q, offered, feed, window, n)
  <1>1. offered \in Seq(TokenIds) /\ \A i \in 1..Len(offered) : offered[i] \in {Token(r, q + 1 + i), Bad}
    BY DEF Judges, Offers
  <1>2. PICK l \in Nat : l = Len(offered)
    BY <1>1, LenProperties
  <1>3. PICK n \in 0..l : n = Accepted(window, offered) /\ \A i \in 1..n : window[i] = offered[i]
    BY <1>1, <1>2, AcceptedFacts
  <1>4. /\ feed \in Seq(TokenIds) /\ Len(feed) = l + 1
        /\ feed[1] = Token(r, q + 1)
        /\ \A i \in 1..l : feed[1 + i] = offered[i]
    <2>1. PICK e \in TokenIds : e = Token(r, q + 1)
      BY TokenFacts
    <2>2. feed = <<e>> \o offered
      BY <2>1 DEF Judges
    <2> QED BY <1>1, <1>2, <2>1, <2>2, OneThen
  <1>5. ASSUME NEW m \in 0..l, \A i \in 1..m : offered[i] = Token(r, q + 1 + i)
        PROVE  /\ Text(r, q) \o SubSeq(feed, 1, m + 1) = Text(r, q + m + 1)
               /\ window[m + 1] = Token(r, q + 1 + m + 1)
    <2>1. m + 1 \in Nat /\ m + 1 <= l + 1 /\ m + 1 \in 1..(l + 1)
      OBVIOUS
    <2>2. PICK s : s = SubSeq(feed, 1, m + 1)
      OBVIOUS
    <2>3. s \in Seq(TokenIds) /\ Len(s) = m + 1 /\ \A i \in 1..(m + 1) : s[i] = feed[i]
      BY <1>4, <2>1, <2>2, PrefixFacts
    <2>4. \A i \in 1..Len(s) : s[i] = Token(r, q + i)
      <3> SUFFICES ASSUME NEW i \in 1..(m + 1) PROVE s[i] = Token(r, q + i)
        BY <2>3
      <3>1. CASE i = 1
        BY <1>4, <2>3, <3>1
      <3>2. CASE i # 1
        <4>1. PICK j \in 1..m : i = 1 + j
          <5>1. i - 1 \in 1..m /\ i = 1 + (i - 1)
            BY <3>2
          <5> QED BY <5>1
        <4>2. j \in 1..l /\ q + 1 + j = q + i
          BY <4>1
        <4>3. s[i] = feed[1 + j] /\ feed[1 + j] = offered[j] /\ offered[j] = Token(r, q + 1 + j)
          BY <1>4, <1>5, <2>3, <4>1, <4>2
        <4> QED BY <4>2, <4>3
      <3> QED BY <3>1, <3>2
    <2>5. Text(r, q) \o s = Text(r, q + (m + 1))
      BY <2>3, <2>4, TextGrows
    <2>6. q + (m + 1) = q + m + 1 /\ q + m + 1 \in Nat /\ q + m + 1 > 0 /\ q + m + 1 + 1 = q + 1 + m + 1
      OBVIOUS
    <2>7. window[m + 1] = Argmax(Text(r, q) \o s)
      BY <1>4, <2>1, <2>2 DEF Judges
    <2>8. Argmax(Text(r, q + m + 1)) = Token(r, q + m + 1 + 1)
      BY <2>6, ArgmaxFacts
    <2> QED BY <2>2, <2>5, <2>6, <2>7, <2>8
  <1>6. \A i \in 1..n : offered[i] = Token(r, q + 1 + i)
    <2> DEFINE B == {i \in 1..n : offered[i] # Token(r, q + 1 + i)}
    <2> SUFFICES ASSUME B # {} PROVE FALSE
      OBVIOUS
    <2>1. B \in SUBSET Nat
      OBVIOUS
    <2>2. PICK b \in B : \A i \in B : b <= i
      <3> HIDE DEF B
      <3> QED BY <2>1, Least
    <2>3. b \in 1..n /\ offered[b] # Token(r, q + 1 + b) /\ b \in 1..l
      BY <1>3
    <2>4. PICK m \in 0..l : b = m + 1
      <3>1. b - 1 \in 0..l /\ b = b - 1 + 1
        BY <2>3
      <3> QED BY <3>1
    <2>5. \A i \in 1..m : offered[i] = Token(r, q + 1 + i)
      <3> SUFFICES ASSUME NEW i \in 1..m, offered[i] # Token(r, q + 1 + i) PROVE FALSE
        OBVIOUS
      <3>1. i \in 1..n /\ ~(b <= i)
        BY <2>3, <2>4
      <3> QED BY <2>2, <3>1
    <2>6. window[b] = Token(r, q + 1 + m + 1) /\ q + 1 + m + 1 = q + 1 + b
      BY <1>5, <2>4, <2>5
    <2>7. window[b] = offered[b]
      BY <1>3, <2>3
    <2> QED BY <2>3, <2>6, <2>7
  <1>7. window[n + 1] = Token(r, q + 1 + n + 1)
    BY <1>5, <1>6
  <1>8. Text(r, q) \o SubSeq(feed, 1, n + 1) = Text(r, q + n + 1)
    BY <1>5, <1>6
  <1> QED BY <1>2, <1>3, <1>4, <1>6, <1>7, <1>8 DEF Judged

-----------------------------------------------------------------------------
(* The invariant of one request.                                           *)

\* The invariant, request by request.
LEMMA ByRequest == IInv <=> GoodState
  <1>1. IInv => Domains /\ Places /\ \A r \in Request : GoodNow(r)
    <2> SUFFICES ASSUME IInv PROVE Domains /\ Places /\ \A r \in Request : GoodNow(r)
      OBVIOUS
    <2>1. Domains
      BY DEF IInv, TypeOK, Domains
    <2>2. \A r \in Request : Typed(state[r], generated[r], finish_reason[r], prefilled[r], pending[r],
                                   last_logits[r], spec[r], kv[r])
      BY DEF IInv, TypeOK, Typed
    <2>3. \A r \in Request : RequestInv(r)
      BY DEF IInv
    <2> QED BY <2>1, <2>2, <2>3 DEF IInv, RequestInv, GoodNow, Good
  <1>2. Domains /\ Places /\ (\A r \in Request : GoodNow(r)) => IInv
    <2> SUFFICES ASSUME Domains, Places, \A r \in Request : GoodNow(r) PROVE IInv
      OBVIOUS
    <2>1. \A r \in Request : Typed(state[r], generated[r], finish_reason[r], prefilled[r], pending[r],
                                   last_logits[r], spec[r], kv[r])
      BY DEF GoodNow, Good
    <2>2. TypeOK
      <3>1. \A r \in Request : /\ state[r] \in States /\ finish_reason[r] \in Reasons
                               /\ prefilled[r] \in Nat
                               /\ generated[r] \in Seq(TokenIds) /\ kv[r] \in Seq(TokenIds)
                               /\ pending[r] \in TokenIds \cup {None}
                               /\ last_logits[r] \in TokenIds \cup {None}
                               /\ spec[r] \in SpecDecodeState \cup {None}
        BY <2>1 DEF Typed
      <3>2. state \in [Request -> States] /\ finish_reason \in [Request -> Reasons]
        BY <3>1 DEF Domains
      <3>3. prefilled \in [Request -> Nat] /\ generated \in [Request -> Seq(TokenIds)]
        BY <3>1 DEF Domains
      <3>4. kv \in [Request -> Seq(TokenIds)] /\ pending \in [Request -> TokenIds \cup {None}]
        BY <3>1 DEF Domains
      <3>5. /\ last_logits \in [Request -> TokenIds \cup {None}]
            /\ spec \in [Request -> SpecDecodeState \cup {None}]
        BY <3>1 DEF Domains
      <3> QED BY <3>2, <3>3, <3>4, <3>5 DEF TypeOK, Domains
    <2>3. \A r \in Request : RequestInv(r)
      BY DEF GoodNow, Good, RequestInv
    <2> QED BY <2>2, <2>3 DEF IInv
  <1> QED BY <1>1, <1>2 DEF GoodState

\* The same at the next state.
LEMMA ByRequestNext == GoodState' => IInv'
  BY ByRequest, PTL

\* What is not decoding does not mind the engine's phase.
LEMMA Rests ==
    ASSUME NEW r, NEW st, NEW gen, NEW why, NEW pre, NEW pend, NEW last, NEW sp, NEW text,
           NEW busy, NEW busy2, Good(r, st, gen, why, pre, pend, last, sp, text, busy),
           st # "decoding" \/ (busy2 => busy)
    PROVE  Good(r, st, gen, why, pre, pend, last, sp, text, busy2)
  BY DEF Good, Ready, Plain, Speculating

\* A request that ends.
LEMMA Ends ==
    ASSUME NEW r \in Request, NEW st, NEW gen, NEW why, NEW pre, NEW pend, NEW last, NEW sp, NEW text,
           NEW busy, NEW busy2, Good(r, st, gen, why, pre, pend, last, sp, text, busy), st # "done",
           NEW n \in Len(gen)..MaxTokens[r], n < EosIn(r),
           NEW why2 \in Reasons \ {"none"}, why2 = "length" => n = MaxTokens[r],
           why2 = "stop" => n + 1 = EosIn(r),
           NEW gen2, gen2 = Output(r, n), NEW pre2 \in Nat,
           NEW pend2 \in TokenIds \cup {None}, NEW last2 \in TokenIds \cup {None},
           NEW sp2 \in SpecDecodeState \cup {None}, NEW text2 \in Seq(TokenIds)
    PROVE  /\ Good(r, "done", gen2, why2, pre2, pend2, last2, sp2, text2, busy2)
           /\ Advances(r, gen, why, gen2, why2)
  <1>1. MaxTokens[r] \in Nat /\ Len(gen) \in Nat
    BY Sizes DEF Good, Emitted
  <1>2. n \in Nat /\ n <= MaxTokens[r]
    BY <1>1
  <1>3. gen2 \in Seq(TokenIds) /\ Len(gen2) = n
    BY <1>2, OutputFacts
  <1>4. Typed("done", gen2, why2, pre2, pend2, last2, sp2, text2)
    BY <1>3 DEF Typed, States
  <1>5. Emitted(r, gen2, why2, "done")
    BY <1>2, <1>3 DEF Emitted
  <1>6. Ready(r, "done", gen2, pre2, pend2, last2, sp2, text2, busy2)
    BY DEF Ready
  <1>7. why = "none"
    BY DEF Good, Emitted
  <1>8. Advances(r, gen, why, gen2, why2)
    BY <1>7 DEF Advances
  <1> QED BY <1>4, <1>5, <1>6, <1>8 DEF Good

\* A request that is cancelled keeps what it emitted.
LEMMA Cancelled ==
    ASSUME NEW r \in Request, NEW st, NEW gen, NEW why, NEW pre, NEW pend, NEW last, NEW sp, NEW text,
           NEW busy, NEW busy2, Good(r, st, gen, why, pre, pend, last, sp, text, busy), st # "done",
           NEW sp2 \in SpecDecodeState \cup {None}, NEW text2 \in Seq(TokenIds)
    PROVE  /\ Good(r, "done", gen, "cancelled", pre, pend, last, sp2, text2, busy2)
           /\ Advances(r, gen, why, gen, "cancelled")
  <1>1. PICK n : n = Len(gen)
    OBVIOUS
  <1>2. /\ n \in Nat /\ MaxTokens[r] \in Nat /\ n <= MaxTokens[r] /\ n < EosIn(r) /\ gen = Output(r, n)
        /\ pre \in Nat /\ pend \in TokenIds \cup {None} /\ last \in TokenIds \cup {None}
    BY <1>1, Sizes DEF Good, Emitted, Typed
  <1>3. n \in Len(gen)..MaxTokens[r]
    BY <1>1, <1>2
  <1>4. Typed("done", gen, "cancelled", pre, pend, last, sp2, text2)
    BY DEF Good, Typed, States, Reasons
  <1>5. Emitted(r, gen, "cancelled", "done")
    BY <1>1, <1>2 DEF Emitted
  <1>6. Ready(r, "done", gen, pre, pend, last, sp2, text2, busy2)
    BY DEF Ready
  <1>7. why = "none"
    BY DEF Good, Emitted
  <1>8. Advances(r, gen, why, gen, "cancelled")
    BY <1>2, <1>3, <1>7 DEF Advances, Reasons
  <1> QED BY <1>4, <1>5, <1>6, <1>8 DEF Good

-----------------------------------------------------------------------------
(* Clients, preemption and admission.                                      *)

\* A request that a step leaves alone.
LEMMA Untouched ==
    ASSUME NEW r \in Request, GoodNow(r),
           state'[r] = state[r], generated'[r] = generated[r], finish_reason'[r] = finish_reason[r],
           prefilled'[r] = prefilled[r], pending'[r] = pending[r],
           last_logits'[r] = last_logits[r], spec'[r] = spec[r], kv'[r] = kv[r],
           state[r] # "decoding" \/ (pc' # "idle" => pc # "idle")
    PROVE  /\ GoodNow(r)'
           /\ Advances(r, generated[r], finish_reason[r], generated'[r], finish_reason'[r])
  <1>1. Good(r, state[r], generated[r], finish_reason[r], prefilled[r], pending[r], last_logits[r],
             spec[r], kv[r], pc # "idle")
    BY DEF GoodNow
  <1>2. Good(r, state[r], generated[r], finish_reason[r], prefilled[r], pending[r], last_logits[r],
             spec[r], kv[r], pc' # "idle")
    BY <1>1, Rests
  <1>3. GoodNow(r)'
    BY <1>2 DEF GoodNow
  <1>4. Advances(r, generated[r], finish_reason[r], generated'[r], finish_reason'[r])
    BY DEF Advances
  <1> QED BY <1>3, <1>4

\* Nothing was submitted.
LEMMA Initially == Init => IInv
  <1> SUFFICES ASSUME Init PROVE GoodState
    BY ByRequest
  <1>1. Domains
    BY EmptySeq DEF Init, Domains
  <1>2. Places
    <2>1. waiting = <<>> /\ Len(waiting) = 0 /\ ToSet(running) = {}
      <3>1. waiting = <<>> /\ running = <<>>
        BY DEF Init
      <3>2. <<>> \in Seq(Request) /\ Len(<<>>) = 0
        BY EmptySeq
      <3> QED BY <3>1, <3>2, NoElements
    <2>2. \A r \in Request : state[r] = "new"
      BY DEF Init
    <2>3. Distinct(waiting)
      BY <2>1 DEF Distinct
    <2> QED BY <2>1, <2>2, <2>3 DEF Places, Prefilling, Decoding
  <1>3. ASSUME NEW r \in Request PROVE GoodNow(r)
    <2>1. /\ state[r] = "new" /\ prefilled[r] = 0 /\ generated[r] = <<>> /\ pending[r] = None
          /\ last_logits[r] = None /\ spec[r] = None /\ kv[r] = <<>> /\ finish_reason[r] = "none"
          /\ pc = "idle"
      BY DEF Init
    <2>2. <<>> \in Seq(TokenIds) /\ Len(<<>>) = 0 /\ Output(r, 0) = <<>>
      BY EmptySeq, OutputFacts, SeqFacts
    <2>3. Typed("new", <<>>, "none", 0, None, None, None, <<>>)
      BY <2>2 DEF Typed, States, Reasons
    <2>4. Emitted(r, <<>>, "none", "new")
      BY <2>2, Sizes DEF Emitted
    <2>5. Ready(r, "new", <<>>, 0, None, None, None, <<>>, FALSE)
      BY DEF Ready, Unseated
    <2> QED BY <2>1, <2>3, <2>4, <2>5 DEF GoodNow, Good
  <1> QED BY <1>1, <1>2, <1>3 DEF GoodState

\* A request joins the end of the queue.
LEMMA SubmitKeeps ==
    ASSUME IInv, NEW r \in Request, Submit(r)
    PROVE  IInv' /\ Step
  <1>1. Domains /\ Places /\ \A q \in Request : GoodNow(q)
    BY ByRequest DEF GoodState
  <1>2. /\ state[r] = "new" /\ state' = [state EXCEPT ![r] = "waiting"]
        /\ waiting' = Append(waiting, r)
        /\ UNCHANGED <<running, cancel_event, prefilled, generated, pending, last_logits, spec, kv,
                       blocks, finish_reason, pc>>
    BY DEF Submit
  <1>3. /\ state' = [q \in Request |-> state'[q]] /\ state'[r] = "waiting"
        /\ \A q \in Request : q # r => state'[q] = state[q]
    BY <1>1, <1>2 DEF Domains
  <1>4. PICK n \in Nat : n = Len(waiting) /\ \A i \in 1..n : waiting[i] \in Request
    BY <1>1, LenProperties, ElementOfSeq DEF Domains
  <1>5. /\ waiting' \in Seq(Request) /\ Len(waiting') = n + 1
        /\ \A i \in 1..n : waiting'[i] = waiting[i]
        /\ waiting'[n + 1] = r
    BY <1>1, <1>2, <1>4, AppendFacts DEF Domains
  <1>6. Domains'
    BY <1>1, <1>2, <1>3, <1>5 DEF Domains
  <1>7. \A i \in 1..n : state[waiting[i]] = "waiting" /\ waiting[i] # r
    BY <1>1, <1>2, <1>4 DEF Places
  <1>8. Places'
    <2>1. \A i \in 1..(n + 1) : i \in 1..n \/ i = n + 1
      OBVIOUS
    <2>2. \A i \in 1..(n + 1) : state'[waiting'[i]] = "waiting"
      BY <1>3, <1>4, <1>5, <1>7, <2>1
    <2>3. Distinct(waiting')
      BY <1>1, <1>4, <1>5, <1>7, <2>1 DEF Places, Distinct
    <2>4. ToSet(running) \subseteq Request /\ running' = running /\ pc' = pc
      BY <1>1, <1>2, SeqFacts DEF Domains
    <2>5. \A q \in ToSet(running) : q # r /\ state'[q] = state[q]
      BY <1>1, <1>2, <1>3, <2>4 DEF Places
    <2>6. \A q \in Request : Prefilling(q)' \/ Decoding(q)' => q \in ToSet(running)
      BY <1>1, <1>3 DEF Places, Prefilling, Decoding
    <2>7. pc = "forward" => \A q \in ToSet(running) : Prefilling(q)' \/ Decoding(q)'
      BY <1>1, <2>5 DEF Places, Prefilling, Decoding
    <2> QED BY <1>1, <1>5, <2>2, <2>3, <2>4, <2>5, <2>6, <2>7 DEF Places
  <1>9. ASSUME NEW q \in Request
        PROVE  /\ GoodNow(q)'
               /\ Advances(q, generated[q], finish_reason[q], generated'[q], finish_reason'[q])
    <2>1. CASE q # r
      BY <1>1, <1>2, <1>3, <2>1, Untouched
    <2>2. CASE q = r
      <3>1. Good(r, "new", generated[r], finish_reason[r], prefilled[r], pending[r], last_logits[r],
                 spec[r], kv[r], pc # "idle")
        BY <1>1, <1>2 DEF GoodNow
      <3>2. Good(r, "waiting", generated[r], finish_reason[r], prefilled[r], pending[r],
                 last_logits[r], spec[r], kv[r], pc # "idle")
        BY <3>1 DEF Good, Typed, States, Emitted, Ready
      <3> QED BY <1>2, <1>3, <2>2, <3>2 DEF GoodNow, Advances
    <2> QED BY <2>1, <2>2
  <1>10. GoodState'
    BY <1>6, <1>8, <1>9 DEF GoodState
  <1> QED BY <1>9, <1>10, ByRequestNext DEF Step

\* A client only raises the flag.
LEMMA CancelKeeps ==
    ASSUME IInv, NEW r \in Request, Cancel(r)
    PROVE  IInv' /\ Step
  <1>1. Domains /\ Places /\ \A q \in Request : GoodNow(q)
    BY ByRequest DEF GoodState
  <1>2. /\ cancel_event' = [cancel_event EXCEPT ![r] = TRUE]
        /\ UNCHANGED <<waiting, running, state, prefilled, generated, pending, last_logits, spec, kv,
                       blocks, finish_reason, pc>>
    BY DEF Cancel
  <1>3. cancel_event' \in [Request -> BOOLEAN]
    BY <1>1, <1>2 DEF Domains
  <1>4. Domains'
    BY <1>1, <1>2, <1>3 DEF Domains
  <1>5. Places'
    BY <1>1, <1>2 DEF Places, Prefilling, Decoding, Distinct
  <1>6. \A q \in Request :
            /\ GoodNow(q)'
            /\ Advances(q, generated[q], finish_reason[q], generated'[q], finish_reason'[q])
    BY <1>1, <1>2, Untouched
  <1>7. GoodState'
    BY <1>4, <1>5, <1>6 DEF GoodState
  <1> QED BY <1>6, <1>7, ByRequestNext DEF Step

\* Every other request keeps its state and its text for the retry.
LEMMA PreemptKeeps ==
    ASSUME IInv, Preempt
    PROVE  IInv' /\ Step /\ \A r \in Request : state[r] = "waiting" => state'[r] # "done"
  <1>1. Domains /\ Places /\ \A q \in Request : GoodNow(q)
    BY ByRequest DEF GoodState
  <1>2. PICK v \in Victim :
          /\ running' \in Without(running, {v})
          /\ state' = [state EXCEPT ![v] = "done"]
          /\ finish_reason' = [finish_reason EXCEPT ![v] = "cancelled"]
          /\ spec' = [spec EXCEPT ![v] = None]
          /\ kv' = [kv EXCEPT ![v] = <<>>]
    BY DEF Preempt
  <1>3. /\ pc = "forward" /\ pc' = "idle"
        /\ UNCHANGED <<waiting, cancel_event, prefilled, generated, pending, last_logits>>
    BY DEF Preempt
  <1>4. v \in ToSet(running) /\ v \in Request /\ (Prefilling(v) \/ Decoding(v))
    <2>1. ToSet(running) = {running[i] : i \in 1..Len(running)} /\ ToSet(running) \subseteq Request
      BY <1>1, SeqFacts DEF Domains
    <2>2. PICK i \in 1..Len(running) : v = running[i]
      BY DEF Victim
    <2> QED BY <1>1, <1>3, <2>1, <2>2 DEF Places
  <1>5. running' \in Seq(Request) /\ ToSet(running') = ToSet(running) \ {v}
    BY <1>1, <1>2, WithoutFacts DEF Domains
  <1>6. /\ state' = [q \in Request |-> state'[q]] /\ state'[v] = "done"
        /\ finish_reason' = [q \in Request |-> finish_reason'[q]] /\ finish_reason'[v] = "cancelled"
        /\ spec' = [q \in Request |-> spec'[q]] /\ spec'[v] = None
        /\ kv' = [q \in Request |-> kv'[q]] /\ kv'[v] = <<>>
    BY <1>1, <1>2, <1>4 DEF Domains
  <1>7. \A q \in Request : q # v => /\ state'[q] = state[q] /\ finish_reason'[q] = finish_reason[q]
                                    /\ spec'[q] = spec[q] /\ kv'[q] = kv[q]
    BY <1>1, <1>2 DEF Domains
  <1>8. Domains'
    BY <1>1, <1>3, <1>5, <1>6 DEF Domains
  <1>9. Places'
    <2>1. \A i \in 1..Len(waiting) : waiting[i] \in Request /\ waiting[i] # v
      <3>1. \A i \in 1..Len(waiting) : waiting[i] \in Request
        BY <1>1, ElementOfSeq DEF Domains
      <3> QED BY <1>1, <1>4, <3>1 DEF Places, Prefilling, Decoding
    <2>2. \A i \in 1..Len(waiting) : state'[waiting[i]] = "waiting"
      BY <1>1, <1>7, <2>1 DEF Places
    <2>3. ToSet(running) \subseteq Request
      BY <1>1, SeqFacts DEF Domains
    <2>4. \A q \in ToSet(running') : state'[q] \notin {"new", "waiting"}
      BY <1>1, <1>5, <1>7, <2>3 DEF Places
    <2>5. \A q \in Request : Prefilling(q)' \/ Decoding(q)' => q \in ToSet(running')
      BY <1>1, <1>5, <1>6, <1>7 DEF Places, Prefilling, Decoding
    <2> QED BY <1>1, <1>3, <2>2, <2>4, <2>5 DEF Places, Distinct
  <1>10. ASSUME NEW q \in Request
         PROVE  /\ GoodNow(q)'
                /\ Advances(q, generated[q], finish_reason[q], generated'[q], finish_reason'[q])
    <2>1. CASE q # v
      BY <1>1, <1>3, <1>7, <2>1, Untouched
    <2>2. CASE q = v
      <3>1. Good(v, state[v], generated[v], finish_reason[v], prefilled[v], pending[v],
                 last_logits[v], spec[v], kv[v], pc # "idle")
        BY <1>1, <1>4 DEF GoodNow
      <3>2. state[v] # "done" /\ <<>> \in Seq(TokenIds)
        BY <1>4, EmptySeq DEF Prefilling, Decoding
      <3>3. /\ Good(v, "done", generated[v], "cancelled", prefilled[v], pending[v],
                    last_logits[v], None, <<>>, pc' # "idle")
            /\ Advances(v, generated[v], finish_reason[v], generated[v], "cancelled")
        BY <1>4, <3>1, <3>2, Cancelled
      <3> QED BY <1>3, <1>6, <2>2, <3>3 DEF GoodNow
    <2> QED BY <2>1, <2>2
  <1>11. GoodState'
    BY <1>8, <1>9, <1>10 DEF GoodState
  <1>12. \A r \in Request : state[r] = "waiting" => state'[r] # "done"
    BY <1>4, <1>7 DEF Prefilling, Decoding
  <1> QED BY <1>10, <1>11, <1>12, ByRequestNext DEF Step

\* The first of a sequence goes to its end.
LEMMA RotateFacts ==
    ASSUME NEW S, NEW q \in Seq(S), q # <<>>, NEW t, t = Append(Tail(q), Head(q))
    PROVE  t \in Seq(S) /\ ToSet(t) \subseteq ToSet(q) /\ (Distinct(q) => Distinct(t))
  <1>1. PICK n \in Nat : n + 1 = Len(q)
    <2>1. Len(q) \in Nat /\ Len(q) # 0
      BY SeqFacts
    <2>2. Len(q) - 1 \in Nat /\ Len(q) - 1 + 1 = Len(q)
      BY <2>1
    <2> QED BY <2>2
  <1>2. /\ Head(q) \in S /\ Head(q) = q[1] /\ Tail(q) \in Seq(S) /\ Len(Tail(q)) = n
        /\ \A i \in 1..n : Tail(q)[i] = q[i + 1]
    BY <1>1, HeadTailProperties
  <1>3. /\ t \in Seq(S) /\ Len(t) = n + 1
        /\ \A i \in 1..n : t[i] = q[i + 1]
        /\ t[n + 1] = q[1]
    BY <1>2, AppendFacts
  <1>4. \A i \in 1..(n + 1) : (i \in 1..n /\ i + 1 \in 1..(n + 1)) \/ i = n + 1
    OBVIOUS
  <1>5. ToSet(t) \subseteq ToSet(q)
    <2>1. /\ \A x \in ToSet(t) : \E i \in 1..(n + 1) : x = t[i]
          /\ \A i \in 1..(n + 1) : q[i] \in ToSet(q)
      <3>1. \A x \in ToSet(t) : \E i \in 1..(n + 1) : x = t[i]
        <4>1. t \in Seq(S) /\ Len(t) = n + 1
          BY <1>3
        <4>2. \A x \in ToSet(t) : \E i \in 1..Len(t) : x = t[i]
          BY <4>1, SeqFacts
        <4> QED BY <4>1, <4>2
      <3>2. \A i \in 1..(n + 1) : q[i] \in ToSet(q)
        BY <1>1, Elements
      <3> QED BY <3>1, <3>2
    <2>2. 1 \in 1..(n + 1)
      OBVIOUS
    <2> QED BY <1>3, <1>4, <2>1, <2>2
  <1>6. ASSUME Distinct(q) PROVE Distinct(t)
    <2> SUFFICES ASSUME NEW i \in 1..(n + 1), NEW j \in 1..(n + 1), t[i] = t[j] PROVE i = j
      BY <1>3 DEF Distinct
    <2>1. \A k, l \in 1..(n + 1) : q[k] = q[l] => k = l
      BY <1>1, <1>6 DEF Distinct
    <2>2. 1 \in 1..(n + 1)
      OBVIOUS
    <2>3. CASE i \in 1..n /\ j \in 1..n
      <3>1. i + 1 \in 1..(n + 1) /\ j + 1 \in 1..(n + 1) /\ q[i + 1] = q[j + 1]
        BY <1>3, <1>4, <2>3
      <3>2. i + 1 = j + 1
        BY <2>1, <3>1
      <3> QED BY <3>2
    <2>4. CASE i \in 1..n /\ j = n + 1
      <3>1. i + 1 \in 1..(n + 1) /\ q[i + 1] = q[1]
        BY <1>3, <1>4, <2>4
      <3>2. i + 1 = 1
        BY <2>1, <2>2, <3>1
      <3> QED BY <2>4, <3>2
    <2>5. CASE i = n + 1 /\ j \in 1..n
      <3>1. j + 1 \in 1..(n + 1) /\ q[j + 1] = q[1]
        BY <1>3, <1>4, <2>5
      <3>2. j + 1 = 1
        BY <2>1, <2>2, <3>1
      <3> QED BY <2>5, <3>2
    <2>6. CASE i = n + 1 /\ j = n + 1
      BY <2>6
    <2> QED BY <1>4, <2>3, <2>4, <2>5, <2>6
  <1> QED BY <1>3, <1>5, <1>6

\* A sequence with distinct elements in two parts.
LEMMA PartsOf ==
    ASSUME NEW S, NEW q \in Seq(S), Distinct(q), NEW s \in Seq(S), NEW t \in Seq(S),
           \A i \in 1..Len(s) : s[i] = q[i] /\ i \in 1..Len(q),
           \A i \in 1..Len(t) : t[i] = q[Len(s) + i] /\ Len(s) + i \in 1..Len(q)
    PROVE  /\ Distinct(t)
           /\ ToSet(s) \subseteq ToSet(q) /\ ToSet(t) \subseteq ToSet(q)
           /\ ToSet(s) \cap ToSet(t) = {}
  <1>1. PICK n \in Nat, m \in Nat, l \in Nat : n = Len(s) /\ m = Len(t) /\ l = Len(q)
    BY LenProperties
  <1>2. /\ \A i \in 1..n : s[i] = q[i] /\ i \in 1..l
        /\ \A i \in 1..m : t[i] = q[n + i] /\ n + i \in 1..l
    BY <1>1
  <1>3. /\ \A i \in 1..l : q[i] \in ToSet(q)
        /\ \A x \in ToSet(s) : \E i \in 1..n : x = s[i]
        /\ \A x \in ToSet(t) : \E i \in 1..m : x = t[i]
    BY <1>1, SeqFacts
  <1>4. \A i, j \in 1..l : q[i] = q[j] => i = j
    BY <1>1 DEF Distinct
  <1>5. ToSet(s) \subseteq ToSet(q) /\ ToSet(t) \subseteq ToSet(q)
    <2>1. ASSUME NEW x \in ToSet(s) PROVE x \in ToSet(q)
      <3>1. PICK i \in 1..n : x = s[i]
        BY <1>3
      <3> QED BY <1>2, <1>3, <3>1
    <2>2. ASSUME NEW x \in ToSet(t) PROVE x \in ToSet(q)
      <3>1. PICK i \in 1..m : x = t[i]
        BY <1>3
      <3> QED BY <1>2, <1>3, <3>1
    <2> QED BY <2>1, <2>2
  <1>6. ASSUME NEW i \in 1..m, NEW j \in 1..m, t[i] = t[j] PROVE i = j
    <2>1. t[i] = q[n + i] /\ n + i \in 1..l /\ t[j] = q[n + j] /\ n + j \in 1..l
      BY <1>2
    <2>2. PICK a \in 1..l, b \in 1..l : a = n + i /\ b = n + j
      BY <2>1
    <2>3. a = b
      BY <1>4, <1>6, <2>1, <2>2
    <2> QED BY <2>2, <2>3
  <1>7. ASSUME NEW i \in 1..n, NEW j \in 1..m PROVE s[i] # t[j]
    <2>1. i # n + j
      OBVIOUS
    <2> QED BY <1>2, <1>4, <2>1
  <1>8. ToSet(s) \cap ToSet(t) = {}
    BY <1>3, <1>7
  <1>9. Distinct(t)
    BY <1>1, <1>6 DEF Distinct
  <1> QED BY <1>5, <1>8, <1>9

\* The state of a drafter that is new is that of a text of no tokens.
LEMMA NewSpecFacts == NewSpec \in SpecDecodeState /\ Undrafted(NewSpec, <<>>) /\ NewSpec # None
  <1>1. <<>> \in Seq(TokenIds)
    BY EmptySeq
  <1>2. NewSpec \in SpecDecodeState
    BY <1>1 DEF NewSpec, SpecDecodeState
  <1>3. None \notin SpecDecodeState
    BY DSparkAssumption
  <1> QED BY <1>2, <1>3 DEF NewSpec, Undrafted

\* The state of the drafter for a request that takes a seat.
Starts == {None, NewSpec}

\* A request that takes a seat, with a drafter or without.
LEMMA Seated ==
    ASSUME NEW r \in Request, NEW gen, NEW why, NEW pre, NEW pend, NEW last, NEW sp, NEW text,
           NEW busy, NEW busy2, Good(r, "waiting", gen, why, pre, pend, last, sp, text, busy),
           NEW sp2 \in Starts
    PROVE  Good(r, "prefilling", gen, why, pre, pend, last, sp2, text, busy2)
  <1>1. gen = <<>> /\ pre = 0 /\ pend = None /\ sp = None /\ text = <<>>
    BY Zenon DEF Good, Ready, Unseated
  <1>2. Typed("prefilling", gen, why, pre, pend, last, sp2, text)
    BY NewSpecFacts DEF Good, Typed, States, Starts
  <1>3. Emitted(r, gen, why, "prefilling")
    BY DEF Good, Emitted
  <1>4. Text(r, 0) = <<>> /\ 0 < PromptLen[r]
    BY TextFacts, SeqFacts, Sizes
  <1>5. Prefills(r, gen, pre, pend, sp2, text)
    BY <1>1, <1>4, NewSpecFacts DEF Prefills, Starts
  <1>6. Ready(r, "prefilling", gen, pre, pend, last, sp2, text, busy2)
    BY <1>5 DEF Ready
  <1> QED BY <1>1, <1>2, <1>3, <1>6 DEF Good

\* Only a request that was cancelled, or whose prompt the pool cannot hold, ends
\* in the queue.
LEMMA RefusedFacts ==
    ASSUME NEW r \in Request, cancel_event \in [Request -> BOOLEAN], Refused(r)
    PROVE  cancel_event[r] \/ PlainBlocks(r) > NumBlocks
  <1> SUFFICES ASSUME ~cancel_event[r] PROVE PlainBlocks(r) > NumBlocks
    OBVIOUS
  <1>1. PlainBlocks(r) + SpecBlocks(r) > NumBlocks
    BY DEF Refused, Required
  <1>2. PlainBlocks(r) \in Int /\ NumBlocks \in Int
    <2>1. /\ PromptLen[r] \in Nat /\ BlockSize \in Nat /\ BlockSize > 0
          /\ Headroom \in Nat /\ NumBlocks \in Nat
      BY Sizes, DSparkAssumption
    <2>2. (PromptLen[r] + BlockSize - 1) \div BlockSize \in Int
      BY <2>1
    <2>3. BlocksFor(PromptLen[r]) \in Int
      BY <2>2 DEF BlocksFor
    <2> QED BY <2>1, <2>3 DEF PlainBlocks
  <1> DEFINE more == BlocksFor(DraftBlock + 1) + 1
  <1>3. CASE r \in Speculates /\ PlainBlocks(r) + more <= NumBlocks
    <2>1. SpecBlocks(r) = more
      BY <1>3 DEF SpecBlocks
    <2>2. more \in Int
      <3>1. DraftBlock \in Nat /\ BlockSize \in Nat /\ BlockSize > 0
        BY DSparkAssumption
      <3>2. (DraftBlock + 1 + BlockSize - 1) \div BlockSize \in Int
        BY <3>1
      <3> QED BY <3>2 DEF BlocksFor
    <2> HIDE DEF more
    <2> QED BY <1>1, <1>2, <1>3, <2>1, <2>2
  <1>4. CASE ~(r \in Speculates /\ PlainBlocks(r) + more <= NumBlocks)
    <2>1. SpecBlocks(r) = 0
      BY <1>4 DEF SpecBlocks
    <2> QED BY <1>1, <1>2, <2>1
  <1> QED BY <1>3, <1>4

\* A request that ended gives up its slot.
LEMMA Reaped ==
    ASSUME NEW r, NEW gen, NEW why, NEW pre, NEW pend, NEW last, NEW sp, NEW text,
           NEW busy, NEW busy2, Good(r, "done", gen, why, pre, pend, last, sp, text, busy)
    PROVE  Good(r, "done", gen, why, pre, pend, last, None, <<>>, busy2)
  <1>1. <<>> \in Seq(TokenIds)
    BY EmptySeq
  <1> QED BY <1>1 DEF Good, Typed, Ready

\* What holds of a request that takes a seat in a step.
LEMMA TakesSeat ==
    ASSUME NEW q \in Request, GoodNow(q), state[q] = "waiting", state'[q] = "prefilling",
           spec'[q] \in {NewSpec, spec[q]}, kv'[q] = kv[q], finish_reason'[q] = finish_reason[q],
           generated' = generated, prefilled' = prefilled, pending' = pending,
           last_logits' = last_logits
    PROVE  /\ GoodNow(q)'
           /\ Advances(q, generated[q], finish_reason[q], generated'[q], finish_reason'[q])
  <1>1. Good(q, "waiting", generated[q], finish_reason[q], prefilled[q], pending[q],
             last_logits[q], spec[q], kv[q], pc # "idle")
    BY DEF GoodNow
  <1>2. spec[q] = None
    BY <1>1 DEF Good, Ready, Unseated
  <1>3. PICK sp2 \in Starts : sp2 = spec'[q]
    BY <1>2 DEF Starts
  <1>4. PICK busy, busy2 : busy = (pc # "idle") /\ busy2 = (pc' # "idle")
    OBVIOUS
  <1>5. Good(q, "waiting", generated[q], finish_reason[q], prefilled[q], pending[q],
             last_logits[q], spec[q], kv[q], busy)
    BY <1>1, <1>4
  <1>6. Good(q, "prefilling", generated[q], finish_reason[q], prefilled[q], pending[q],
             last_logits[q], sp2, kv[q], busy2)
    BY <1>5, Seated
  <1> QED BY <1>3, <1>4, <1>6 DEF GoodNow, Advances

\* The queue loses those who were looked at, and only a refused one ends there.
LEMMA AdmitKeeps ==
    ASSUME IInv, Admit
    PROVE  /\ IInv' /\ Step
           /\ \A r \in Request : state[r] = "waiting" /\ state'[r] = "done" =>
                 cancel_event[r] \/ PlainBlocks(r) > NumBlocks
  <1>1. Domains /\ Places /\ \A q \in Request : GoodNow(q)
    BY ByRequest DEF GoodState
  <1>2. /\ pc = "admit"
        /\ UNCHANGED <<cancel_event, prefilled, generated, pending, last_logits>>
    BY DEF Admit
  <1>3. PICK live \in Without(running, {r \in Request : state[r] = "done"}), n \in 0..Len(waiting) :
          /\ waiting' = Rest(n) \/ waiting' = Turned(Rest(n))
          /\ Seat(live, SubSeq(waiting, 1, n))
          /\ pc' = IF running' = <<>> THEN "idle" ELSE "forward"
    BY DEF Admit
  <1>4. PICK passed, rest : passed = SubSeq(waiting, 1, n) /\ rest = Rest(n)
    OBVIOUS
  <1>5. Seat(live, passed)
    BY <1>3, <1>4
  <1> DEFINE ended == {r \in ToSet(passed) : Refused(r)}
  <1>6. PICK seated \in Without(passed, ended) :
          /\ running' = live \o seated
          /\ state' = [r \in Request |-> IF r \in ToSet(seated) THEN "prefilling"
                                        ELSE IF r \in ended THEN "done" ELSE state[r]]
          /\ spec' = [r \in Request |->
                IF r \in ToSet(seated) /\ SpecBlocks(r) > 0 THEN NewSpec
                ELSE IF r \in ToSet(live) \cup ToSet(seated) THEN spec[r] ELSE None]
          /\ kv' = [r \in Request |-> IF r \in ToSet(live) \cup ToSet(seated) THEN kv[r] ELSE <<>>]
    BY <1>5 DEF Seat
  <1>7. /\ waiting' = rest \/ waiting' = Turned(rest)
        /\ finish_reason' = [r \in Request |-> IF r \in ended THEN "cancelled" ELSE finish_reason[r]]
        /\ pc' = IF running' = <<>> THEN "idle" ELSE "forward"
    <2>1. finish_reason' = [r \in Request |-> IF r \in ended THEN "cancelled" ELSE finish_reason[r]]
      BY <1>5 DEF Seat
    <2>2. waiting' = rest \/ waiting' = Turned(rest)
      BY <1>3, <1>4
    <2>3. pc' = IF running' = <<>> THEN "idle" ELSE "forward"
      BY <1>3
    <2> QED BY <2>1, <2>2, <2>3
  <1> HIDE DEF ended
  <1>8. waiting \in Seq(Request) /\ running \in Seq(Request) /\ Distinct(waiting)
    BY <1>1 DEF Domains, Places
  <1>9. /\ passed \in Seq(Request) /\ rest \in Seq(Request) /\ Distinct(rest)
        /\ ToSet(passed) \subseteq ToSet(waiting) /\ ToSet(rest) \subseteq ToSet(waiting)
        /\ ToSet(passed) \cap ToSet(rest) = {}
    <2>1. PICK l \in Nat : l = Len(waiting)
      BY <1>8, LenProperties
    <2>2. n \in Nat /\ n <= l
      BY <2>1
    <2>3. PICK m \in Nat : m = l - n
      BY <2>2
    <2>4. /\ passed \in Seq(Request) /\ Len(passed) = n
          /\ \A i \in 1..n : passed[i] = waiting[i]
      BY <1>4, <1>8, <2>1, <2>2, PrefixFacts
    <2>5. /\ rest \in Seq(Request) /\ Len(rest) = m
          /\ \A i \in 1..m : rest[i] = waiting[n + i]
      <3>1. PICK e \in Nat : e = l
        OBVIOUS
      <3>2. n <= e /\ e <= Len(waiting) /\ rest = SubSeq(waiting, n + 1, e) /\ m = e - n
        BY <1>4, <2>1, <2>2, <2>3, <3>1 DEF Rest
      <3>3. /\ SubSeq(waiting, n + 1, e) \in Seq(Request) /\ Len(SubSeq(waiting, n + 1, e)) = e - n
            /\ \A i \in 1..(e - n) : SubSeq(waiting, n + 1, e)[i] = waiting[n + i]
        BY <1>8, <2>2, <3>2, SliceFacts
      <3> QED BY <3>2, <3>3
    <2>6. \A i \in 1..Len(passed) : passed[i] = waiting[i] /\ i \in 1..Len(waiting)
      BY <2>1, <2>2, <2>4
    <2>7. \A i \in 1..Len(rest) : rest[i] = waiting[Len(passed) + i]
                                 /\ Len(passed) + i \in 1..Len(waiting)
      BY <2>1, <2>2, <2>3, <2>4, <2>5
    <2> QED BY <1>8, <2>4, <2>5, <2>6, <2>7, PartsOf
  <1>10. waiting' \in Seq(Request) /\ ToSet(waiting') \subseteq ToSet(rest) /\ Distinct(waiting')
    <2>1. CASE waiting' = rest
      BY <1>9, <2>1
    <2>2. CASE rest = <<>> /\ waiting' = Turned(rest)
      BY <1>9, <2>2 DEF Turned
    <2>3. CASE rest # <<>> /\ waiting' = Turned(rest)
      <3>1. waiting' = Append(Tail(rest), Head(rest))
        BY <2>3 DEF Turned
      <3> QED BY <1>9, <2>3, <3>1, RotateFacts
    <2> QED BY <1>7, <2>1, <2>2, <2>3
  <1>11. live \in Seq(Request) /\ ToSet(live) = ToSet(running) \ {r \in Request : state[r] = "done"}
    BY <1>8, WithoutFacts
  <1>12. seated \in Seq(Request) /\ ToSet(seated) = ToSet(passed) \ ended
    BY <1>6, <1>9, WithoutFacts
  <1>13. running' \in Seq(Request) /\ ToSet(running') = ToSet(live) \cup ToSet(seated)
    BY <1>6, <1>11, <1>12, ConcatFacts
  <1>14. \A q \in ToSet(waiting) : q \in Request /\ state[q] = "waiting"
    <2> TAKE q \in ToSet(waiting)
    <2>1. PICK i \in 1..Len(waiting) : q = waiting[i]
      BY <1>8, SeqFacts
    <2>2. ToSet(waiting) \subseteq Request
      BY <1>8, SeqFacts
    <2> QED BY <1>1, <2>1, <2>2 DEF Places
  <1>15. ToSet(running) \subseteq Request /\ \A q \in ToSet(running) : state[q] \notin {"new", "waiting"}
    BY <1>1, <1>8, SeqFacts DEF Places
  <1>16. \A q \in Request : q \in ToSet(seated) =>
            /\ state[q] = "waiting" /\ q \notin ended /\ state'[q] = "prefilling"
            /\ spec'[q] \in {NewSpec, spec[q]} /\ kv'[q] = kv[q] /\ finish_reason'[q] = finish_reason[q]
    BY <1>6, <1>7, <1>9, <1>12, <1>14
  <1>17. \A q \in Request : q \in ended =>
            /\ state[q] = "waiting" /\ Refused(q) /\ state'[q] = "done"
            /\ spec'[q] = None /\ kv'[q] = <<>> /\ finish_reason'[q] = "cancelled"
    <2> SUFFICES ASSUME NEW q \in Request, q \in ended
                 PROVE  /\ state[q] = "waiting" /\ Refused(q) /\ state'[q] = "done"
                        /\ spec'[q] = None /\ kv'[q] = <<>> /\ finish_reason'[q] = "cancelled"
      OBVIOUS
    <2>1. state[q] = "waiting" /\ Refused(q)
      BY <1>9, <1>14 DEF ended
    <2>2. q \notin ToSet(seated) /\ q \notin ToSet(live)
      BY <1>11, <1>12, <1>15, <2>1
    <2> QED BY <1>6, <1>7, <2>1, <2>2
  <1>18. \A q \in Request : q \notin ToSet(seated) /\ q \notin ended =>
            /\ state'[q] = state[q] /\ finish_reason'[q] = finish_reason[q]
            /\ q \in ToSet(live) => spec'[q] = spec[q] /\ kv'[q] = kv[q]
            /\ q \notin ToSet(live) => spec'[q] = None /\ kv'[q] = <<>>
    BY <1>6, <1>7
  <1>19. Domains'
    <2>1. /\ state' = [q \in Request |-> state'[q]]
          /\ finish_reason' = [q \in Request |-> finish_reason'[q]]
          /\ spec' = [q \in Request |-> spec'[q]] /\ kv' = [q \in Request |-> kv'[q]]
      BY <1>6, <1>7
    <2>2. pc' \in {"idle", "admit", "forward"}
      BY <1>7
    <2> QED BY <1>1, <1>2, <1>10, <1>13, <2>1, <2>2 DEF Domains
  <1>20. \A q \in ToSet(live) : q \in Request /\ q \notin ToSet(seated) /\ q \notin ended
                                /\ (Prefilling(q) \/ Decoding(q))
    <2> TAKE q \in ToSet(live)
    <2>1. q \in Request /\ state[q] \notin {"new", "waiting", "done"}
      BY <1>11, <1>15
    <2>2. state[q] \in States
      BY <1>1, <2>1 DEF GoodNow, Good, Typed
    <2> QED BY <1>16, <1>17, <2>1, <2>2 DEF States, Prefilling, Decoding
  <1>21. Places'
    <2>1. \A i \in 1..Len(waiting') : state'[waiting'[i]] = "waiting"
      <3> TAKE i \in 1..Len(waiting')
      <3>1. waiting'[i] \in ToSet(waiting')
        BY <1>10, SeqFacts
      <3>2. waiting'[i] \in ToSet(rest)
        BY <1>10, <3>1
      <3>3. waiting'[i] \in Request /\ state[waiting'[i]] = "waiting"
        BY <1>9, <1>14, <3>2
      <3>4. waiting'[i] \notin ToSet(seated) /\ waiting'[i] \notin ended
        BY <1>9, <1>12, <3>2 DEF ended
      <3> QED BY <1>18, <3>3, <3>4
    <2>2. \A q \in ToSet(running') : q \in Request /\ (Prefilling(q)' \/ Decoding(q)')
      <3>1. \A q \in ToSet(seated) : q \in Request /\ Prefilling(q)'
        BY <1>9, <1>12, <1>14, <1>16 DEF Prefilling
      <3>2. \A q \in ToSet(live) : q \in Request /\ (Prefilling(q)' \/ Decoding(q)')
        BY <1>18, <1>20 DEF Prefilling, Decoding
      <3> QED BY <1>13, <3>1, <3>2
    <2>3. \A q \in ToSet(running') : state'[q] \notin {"new", "waiting"}
      BY <2>2 DEF Prefilling, Decoding
    <2>4. \A q \in Request : Prefilling(q)' \/ Decoding(q)' => q \in ToSet(running')
      <3> SUFFICES ASSUME NEW q \in Request, Prefilling(q)' \/ Decoding(q)', q \notin ToSet(seated)
                   PROVE  q \in ToSet(live)
        BY <1>13
      <3>1. q \notin ended
        BY <1>17 DEF Prefilling, Decoding
      <3>2. Prefilling(q) \/ Decoding(q)
        BY <1>18, <3>1 DEF Prefilling, Decoding
      <3> QED BY <1>1, <1>11, <3>2 DEF Places, Prefilling, Decoding
    <2> QED BY <1>10, <2>1, <2>2, <2>3, <2>4 DEF Places
  <1>22. ASSUME NEW q \in Request
         PROVE  /\ GoodNow(q)'
                /\ Advances(q, generated[q], finish_reason[q], generated'[q], finish_reason'[q])
    <2>1. Good(q, state[q], generated[q], finish_reason[q], prefilled[q], pending[q], last_logits[q],
               spec[q], kv[q], pc # "idle")
      BY <1>1 DEF GoodNow
    <2>2. CASE q \in ToSet(seated)
      BY <1>1, <1>2, <1>16, <2>2, TakesSeat
    <2>3. CASE q \in ended
      <3>1. state[q] # "done" /\ None \in SpecDecodeState \cup {None} /\ <<>> \in Seq(TokenIds)
        BY <1>17, <2>3, EmptySeq
      <3>2. /\ Good(q, "done", generated[q], "cancelled", prefilled[q], pending[q], last_logits[q],
                    None, <<>>, pc' # "idle")
            /\ Advances(q, generated[q], finish_reason[q], generated[q], "cancelled")
        BY <2>1, <3>1, Cancelled
      <3> QED BY <1>2, <1>17, <2>3, <3>2 DEF GoodNow
    <2>4. CASE q \notin ToSet(seated) /\ q \notin ended /\ (q \in ToSet(live) \/ state[q] # "done")
      <3>1. state'[q] = state[q] /\ finish_reason'[q] = finish_reason[q]
        BY <1>18, <2>4
      <3>2. spec'[q] = spec[q] /\ kv'[q] = kv[q]
        <4>1. CASE q \in ToSet(live)
          BY <1>18, <2>4, <4>1
        <4>2. CASE q \notin ToSet(live)
          <5>1. ~Prefilling(q) /\ ~Decoding(q)
            BY <1>1, <1>11, <2>4, <4>2 DEF Places
          <5>2. state[q] \in {"new", "waiting"}
            BY <2>1, <2>4, <4>2, <5>1 DEF Good, Typed, States, Prefilling, Decoding
          <5>3. spec[q] = None /\ kv[q] = <<>>
            BY <2>1, <5>2 DEF Good, Ready, Unseated
          <5> QED BY <1>18, <2>4, <4>2, <5>3
        <4> QED BY <4>1, <4>2
      <3> QED BY <1>1, <1>2, <3>1, <3>2, Untouched
    <2>5. CASE q \notin ToSet(seated) /\ q \notin ended /\ q \notin ToSet(live) /\ state[q] = "done"
      <3>1. /\ state'[q] = "done" /\ finish_reason'[q] = finish_reason[q]
            /\ spec'[q] = None /\ kv'[q] = <<>>
        BY <1>18, <2>5
      <3>2. Good(q, "done", generated[q], finish_reason[q], prefilled[q], pending[q], last_logits[q],
                 spec[q], kv[q], pc # "idle")
        BY <2>1, <2>5
      <3>3. Good(q, "done", generated[q], finish_reason[q], prefilled[q], pending[q], last_logits[q],
                 None, <<>>, pc' # "idle")
        BY <3>2, Reaped
      <3> QED BY <1>2, <3>1, <3>3 DEF GoodNow, Advances
    <2> QED BY <2>2, <2>3, <2>4, <2>5
  <1>23. GoodState'
    BY <1>19, <1>21, <1>22 DEF GoodState
  <1>24. \A r \in Request : state[r] = "waiting" /\ state'[r] = "done" =>
            cancel_event[r] \/ PlainBlocks(r) > NumBlocks
    <2> SUFFICES ASSUME NEW r \in Request, state[r] = "waiting", state'[r] = "done"
                 PROVE  cancel_event[r] \/ PlainBlocks(r) > NumBlocks
      OBVIOUS
    <2>1. r \in ended
      BY <1>16, <1>18
    <2>2. Refused(r) /\ cancel_event \in [Request -> BOOLEAN]
      BY <1>1, <1>17, <2>1 DEF Domains
    <2> QED BY <2>2, RefusedFacts
  <1>25. Step
    BY <1>22 DEF Step
  <1> QED BY <1>23, <1>24, <1>25, ByRequestNext

-----------------------------------------------------------------------------
(* Drafting.                                                               *)

\* A request's next token is to be sampled.
Fresh(r) == IF spec[r] = None THEN pending[r] = None ELSE spec[r].anchor = None

\* What Draft makes of a request: it leaves it alone, cancels it, finds a token or
\* a proposal in flight, drafts, or samples its next token first.
Idles(r) ==
    /\ state'[r] = state[r] /\ generated'[r] = generated[r] /\ finish_reason'[r] = finish_reason[r]
    /\ pending'[r] = pending[r] /\ spec'[r] = spec[r]

Retries(r) == Idles(r) /\ (spec[r] # None => spec[r].offered # None)

Cancels(r) ==
    /\ state[r] # "done" /\ state'[r] = "done" /\ finish_reason'[r] = "cancelled"
    /\ generated'[r] = generated[r] /\ pending'[r] = pending[r] /\ spec'[r] = spec[r]

Drafts(r, s) ==
    \E confident \in 0..DraftBlock, room \in Nat : \E R :
        spec'[r] = Drafted(s, Proposal(r, s.start, R, confident, room))

DraftsAgain(r) ==
    /\ spec[r] # None
    /\ state'[r] = state[r] /\ generated'[r] = generated[r] /\ finish_reason'[r] = finish_reason[r]
    /\ pending'[r] = pending[r]
    /\ spec[r].offered = None /\ Drafts(r, spec[r])

Samples(r) ==
    LET o == Outcome(r, <<last_logits[r]>>)
    IN /\ generated'[r] = generated[r] \o o.emitted
       /\ \/ /\ o.reason # "none" /\ state'[r] = "done" /\ finish_reason'[r] = o.reason
             /\ pending'[r] = pending[r] /\ spec'[r] = spec[r]
          \/ /\ o.reason = "none" /\ state'[r] = state[r] /\ finish_reason'[r] = finish_reason[r]
             /\ IF spec[r] = None THEN pending'[r] = last_logits[r] /\ spec'[r] = None
                ELSE /\ pending'[r] = pending[r]
                     /\ NeedsDraft(Anchored(r)) => Drafts(r, Anchored(r))

\* What Draft makes of every request, one by one.
LEMMA DraftMoves ==
    ASSUME IInv, Draft
    PROVE  /\ \A r \in Request : \/ ~Decoding(r) /\ Idles(r)
                                 \/ Cancels(r) /\ state[r] \notin {"new", "waiting"}
                                 \/ Decoding(r) /\ ~Fresh(r) /\ (Retries(r) \/ DraftsAgain(r))
                                 \/ Decoding(r) /\ Fresh(r) /\ Samples(r)
           /\ state' = [r \in Request |-> state'[r]] /\ spec' = [r \in Request |-> spec'[r]]
           /\ generated' = [r \in Request |-> generated'[r]]
           /\ pending' = [r \in Request |-> pending'[r]]
           /\ finish_reason' = [r \in Request |-> finish_reason'[r]]
  <1>1. Domains /\ Places /\ \A q \in Request : GoodNow(q)
    BY ByRequest DEF GoodState
  <1> DEFINE live == {r \in ToSet(running) : state[r] # "done"}
             gone == {r \in live : cancel_event[r]}
             decoders == {r \in live \ gone : Decoding(r)}
             fresh == {r \in decoders : IF spec[r] = None THEN pending[r] = None
                                        ELSE spec[r].anchor = None}
             o == [r \in fresh |-> Outcome(r, <<last_logits[r]>>)]
             go == {r \in decoders : r \in fresh => o[r].reason = "none"}
             drafting == {r \in go : spec[r] # None}
  <1>2. /\ Take(o, gone, {})
        /\ pending' = [r \in Request |-> IF r \in go \cap fresh /\ spec[r] = None
                                         THEN last_logits[r] ELSE pending[r]]
        /\ \E right \in [drafting -> SUBSET (1..DraftBlock)], confident \in [drafting -> 0..DraftBlock] :
              spec' = [r \in Request |->
                  IF r \notin drafting THEN spec[r]
                  ELSE LET s == Anchored(r)
                           n == Len(generated[r]) + IF r \in fresh THEN 1 ELSE 0
                       IN IF ~NeedsDraft(s) THEN s
                          ELSE Drafted(s, Proposal(r, s.start, right[r], confident[r], Room(r, n)))]
    BY DEF Draft
  <1>3. PICK right \in [drafting -> SUBSET (1..DraftBlock)], confident \in [drafting -> 0..DraftBlock] :
          spec' = [r \in Request |->
              IF r \notin drafting THEN spec[r]
              ELSE LET s == Anchored(r)
                       n == Len(generated[r]) + IF r \in fresh THEN 1 ELSE 0
                   IN IF ~NeedsDraft(s) THEN s
                      ELSE Drafted(s, Proposal(r, s.start, right[r], confident[r], Room(r, n)))]
    BY <1>2
  <1>4. /\ generated' = [r \in Request |-> IF r \in fresh THEN generated[r] \o o[r].emitted
                                          ELSE generated[r]]
        /\ finish_reason' = [r \in Request |->
              IF r \in {q \in fresh : o[q].reason # "none"} THEN o[r].reason
              ELSE IF r \in gone THEN "cancelled" ELSE finish_reason[r]]
        /\ state' = [r \in Request |->
              IF r \in {q \in fresh : o[q].reason # "none"} \cup gone THEN "done" ELSE state[r]]
    <2>1. DOMAIN o = fresh
      OBVIOUS
    <2> HIDE DEF o, fresh, gone
    <2> QED BY <1>2, <2>1 DEF Take
  <1>5. \A r \in Request : r \in fresh => o[r] = Outcome(r, <<last_logits[r]>>)
    OBVIOUS
  <1>6. \A r \in Request : Decoding(r) => r \in live
    BY <1>1 DEF Places, Decoding
  <1>7. /\ \A r \in live : state[r] \notin {"new", "waiting", "done"}
        /\ \A r \in Request : r \in gone => r \in live /\ r \notin decoders
        /\ \A r \in Request : r \in decoders <=> Decoding(r) /\ r \notin gone
        /\ \A r \in Request : r \in fresh <=> r \in decoders /\ Fresh(r)
        /\ \A r \in Request : r \in drafting <=> r \in go /\ spec[r] # None
        /\ \A r \in Request : r \in go <=> r \in decoders /\ (r \in fresh => o[r].reason = "none")
    BY <1>1, <1>6 DEF Places, Fresh
  <1> HIDE DEF live, gone, decoders, fresh, o, go, drafting
  <1>8. ASSUME NEW r \in Request
        PROVE  \/ ~Decoding(r) /\ Idles(r)
               \/ Cancels(r) /\ state[r] \notin {"new", "waiting"}
               \/ Decoding(r) /\ ~Fresh(r) /\ (Retries(r) \/ DraftsAgain(r))
               \/ Decoding(r) /\ Fresh(r) /\ Samples(r)
    <2>1. ASSUME r \in drafting
          PROVE  /\ ~NeedsDraft(Anchored(r)) => spec'[r] = Anchored(r)
                 /\ NeedsDraft(Anchored(r)) => Drafts(r, Anchored(r))
      <3> DEFINE n == Len(generated[r]) + IF r \in fresh THEN 1 ELSE 0
      <3>1. spec'[r] = IF ~NeedsDraft(Anchored(r)) THEN Anchored(r)
                       ELSE Drafted(Anchored(r), Proposal(r, Anchored(r).start, right[r], confident[r],
                                                          Room(r, n)))
        BY <1>3, <2>1
      <3>2. confident[r] \in 0..DraftBlock
        BY <2>1
      <3>3. Room(r, n) \in Nat
        <4>1. PICK g \in Nat : g = Len(generated[r])
          BY <1>1 DEF GoodNow, Good, Emitted
        <4>2. n \in Nat
          <5>1. CASE r \in fresh
            BY <4>1, <5>1
          <5>2. CASE r \notin fresh
            BY <4>1, <5>2
          <5> QED BY <5>1, <5>2
        <4> HIDE DEF n
        <4> QED BY <4>2, RoomFacts
      <3> HIDE DEF n
      <3>4. PICK R : R = right[r]
        OBVIOUS
      <3>5. PICK c \in 0..DraftBlock : c = confident[r]
        BY <3>2
      <3>6. PICK room \in Nat : room = Room(r, n)
        BY <3>3
      <3>7. NeedsDraft(Anchored(r)) =>
               spec'[r] = Drafted(Anchored(r), Proposal(r, Anchored(r).start, R, c, room))
        BY <3>1, <3>4, <3>5, <3>6
      <3>8. NeedsDraft(Anchored(r)) => Drafts(r, Anchored(r))
        BY <3>7 DEF Drafts
      <3> QED BY <3>1, <3>8
    <2>2. CASE r \in gone
      <3>1. r \in live /\ r \notin fresh /\ r \notin drafting /\ r \notin go
        BY <1>7, <2>2
      <3>2. Cancels(r)
        BY <1>2, <1>3, <1>4, <1>7, <2>2, <3>1 DEF Cancels
      <3> QED BY <1>7, <3>1, <3>2
    <2>3. CASE r \notin gone /\ ~Decoding(r)
      <3>1. r \notin fresh /\ r \notin drafting /\ r \notin go
        BY <1>7, <2>3
      <3> QED BY <1>2, <1>3, <1>4, <2>3, <3>1 DEF Idles
    <2>4. CASE r \notin gone /\ Decoding(r) /\ ~Fresh(r)
      <3>1. r \notin fresh /\ r \in go /\ (r \in drafting <=> spec[r] # None)
        BY <1>7, <2>4
      <3>2. /\ state'[r] = state[r] /\ generated'[r] = generated[r]
            /\ finish_reason'[r] = finish_reason[r] /\ pending'[r] = pending[r]
        BY <1>2, <1>4, <2>4, <3>1
      <3>3. CASE spec[r] = None
        BY <1>3, <2>4, <3>1, <3>2, <3>3 DEF Idles, Retries
      <3>4. CASE spec[r] # None
        <4>1. Anchored(r) = spec[r]
          BY <2>4, <3>4 DEF Fresh, Anchored
        <4>2. CASE spec[r].offered = None
          BY <2>1, <2>4, <3>1, <3>2, <3>4, <4>1, <4>2 DEF DraftsAgain, NeedsDraft
        <4>3. CASE spec[r].offered # None
          BY <2>1, <2>4, <3>1, <3>2, <3>4, <4>1, <4>3 DEF Idles, Retries, NeedsDraft
        <4> QED BY <4>2, <4>3
      <3> QED BY <3>3, <3>4
    <2>5. CASE r \notin gone /\ Decoding(r) /\ Fresh(r)
      <3>1. r \in fresh /\ o[r] = Outcome(r, <<last_logits[r]>>)
        BY <1>5, <1>7, <2>5
      <3>2. generated'[r] = generated[r] \o o[r].emitted
        BY <1>4, <3>1
      <3>3. CASE o[r].reason # "none"
        <4>1. r \notin go /\ r \notin drafting
          BY <1>7, <3>1, <3>3
        <4>2. /\ state'[r] = "done" /\ finish_reason'[r] = o[r].reason
              /\ pending'[r] = pending[r] /\ spec'[r] = spec[r]
          BY <1>2, <1>3, <1>4, <3>1, <3>3, <4>1
        <4>3. Samples(r)
          BY <3>1, <3>2, <3>3, <4>2 DEF Samples
        <4> QED BY <2>5, <4>3
      <3>4. CASE o[r].reason = "none"
        <4>1. r \in go /\ (r \in drafting <=> spec[r] # None)
          BY <1>7, <3>1, <3>4
        <4>2. state'[r] = state[r] /\ finish_reason'[r] = finish_reason[r]
          BY <1>4, <2>5, <3>1, <3>4
        <4>3. pending'[r] = IF spec[r] = None THEN last_logits[r] ELSE pending[r]
          BY <1>2, <3>1, <4>1
        <4>4. spec[r] = None => spec'[r] = None
          BY <1>3, <4>1
        <4>5. spec[r] # None /\ NeedsDraft(Anchored(r)) => Drafts(r, Anchored(r))
          BY <2>1, <4>1
        <4>6. Samples(r)
          BY <3>1, <3>2, <3>4, <4>2, <4>3, <4>4, <4>5 DEF Samples
        <4> QED BY <2>5, <4>6
      <3> QED BY <3>3, <3>4
    <2> QED BY <2>2, <2>3, <2>4, <2>5
  <1>9. /\ state' = [r \in Request |-> state'[r]] /\ spec' = [r \in Request |-> spec'[r]]
        /\ generated' = [r \in Request |-> generated'[r]]
        /\ pending' = [r \in Request |-> pending'[r]]
        /\ finish_reason' = [r \in Request |-> finish_reason'[r]]
    BY <1>2, <1>3, <1>4
  <1> QED BY <1>8, <1>9

\* Drafting for an anchored request leaves it with a proposal in flight.
LEMMA DraftsFacts ==
    ASSUME NEW r \in Request, NEW g \in Nat, g > 0, NEW s \in SpecDecodeState, s.offered = None,
           s.anchor = Token(r, PromptLen[r] + g), s.start = PromptLen[r] + g - 1,
           NEW text, text = Text(r, PromptLen[r] + g - 1), s.cache \o s.context = text,
           NEW R, NEW confident \in 0..DraftBlock, NEW room \in Nat, NEW last,
           NEW s2, s2 = Drafted(s, Proposal(r, s.start, R, confident, room))
    PROVE  s2 \in SpecDecodeState /\ Speculating(r, g, last, s2, text, TRUE)
  <1>1. PICK n \in Nat : n = PromptLen[r] + g - 1
    BY Sizes
  <1>2. n + 1 = PromptLen[r] + g /\ PromptLen[r] + g \in Nat
    BY <1>1, Sizes
  <1>3. PICK offered : offered = Proposal(r, n, R, confident, room)
    OBVIOUS
  <1>4. Offers(r, n + 1, offered)
    BY <1>3, ProposalFacts
  <1>5. offered \in Seq(TokenIds)
    BY <1>4 DEF Offers
  <1>6. text \in Seq(TokenIds) /\ Len(text) = n
    BY <1>1, TextFacts
  <1>7. s.anchor \in TokenIds /\ s.start = Len(text)
    BY <1>1, <1>2, <1>6, TokenFacts
  <1>8. s2 = Drafted(s, offered)
    BY <1>1, <1>3
  <1>9. /\ Drafted(s, offered) \in SpecDecodeState
        /\ Drafted(s, offered).cache = text /\ Drafted(s, offered).offered = offered
        /\ Drafted(s, offered).anchor = s.anchor /\ Drafted(s, offered).start = s.start
    <2>1. PICK x \in Seq(TokenIds), y \in Seq(TokenIds) : x = text /\ y = offered
      BY <1>5, <1>6
    <2>2. Anchors(s, x)
      BY <1>7, <2>1 DEF Anchors
    <2>3. /\ Drafted(s, y) \in SpecDecodeState
          /\ Drafted(s, y).cache = x /\ Drafted(s, y).offered = y
          /\ Drafted(s, y).anchor = s.anchor /\ Drafted(s, y).start = s.start
      BY <2>1, <2>2, DraftedFacts
    <2> QED BY <2>1, <2>3
  <1>10. Offers(r, PromptLen[r] + g, s2.offered)
    <2>1. s2.offered = offered
      BY <1>8, <1>9
    <2> QED BY <1>2, <1>4, <2>1
  <1> QED BY <1>8, <1>9, <1>10 DEF Speculating

\* A speculator that has sampled its first token is anchored there.
LEMMA AnchoredFacts ==
    ASSUME NEW r \in Request, NEW n \in Nat, spec[r] \in SpecDecodeState,
           Undrafted(spec[r], kv[r]), last_logits[r] = Token(r, n + 1), kv[r] = Text(r, n)
    PROVE  /\ Anchored(r) \in SpecDecodeState /\ NeedsDraft(Anchored(r))
           /\ Anchored(r).offered = None /\ Anchored(r).anchor = Token(r, n + 1)
           /\ Anchored(r).start = n /\ Anchored(r).cache \o Anchored(r).context = kv[r]
  <1>1. kv[r] \in Seq(TokenIds) /\ Len(kv[r]) = n /\ Token(r, n + 1) \in TokenIds
    BY TextFacts, TokenFacts
  <1>2. Anchored(r) = [spec[r] EXCEPT !.anchor = last_logits[r], !.start = Len(kv[r])]
    BY DEF Undrafted, Anchored
  <1>3. Anchored(r) = [cache |-> <<>>, context |-> kv[r], anchor |-> Token(r, n + 1),
                       offered |-> None, start |-> n]
    <2>1. spec[r] = [cache |-> <<>>, context |-> kv[r], anchor |-> None, offered |-> None,
                     start |-> None]
      BY DEF Undrafted
    <2>2. Anchored(r) = [[cache |-> <<>>, context |-> kv[r], anchor |-> None, offered |-> None,
                          start |-> None] EXCEPT !.anchor = Token(r, n + 1), !.start = n]
      BY <1>1, <1>2, <2>1
    <2> QED BY <2>2
  <1>4. <<>> \in Seq(TokenIds) /\ <<>> \o kv[r] = kv[r]
    <2>1. <<>> \in Seq(TokenIds)
      BY EmptySeq
    <2>2. <<>> \o kv[r] = kv[r]
      BY <1>1, ConcatEmptySeq
    <2> QED BY <2>1, <2>2
  <1>5. Anchored(r) \in SpecDecodeState
    BY <1>1, <1>3, <1>4 DEF SpecDecodeState
  <1> QED BY <1>3, <1>4, <1>5 DEF NeedsDraft

\* A decoder that samples its next token takes it from the target's text.
LEMMA SamplesKeeps ==
    ASSUME NEW r \in Request, GoodNow(r), Decoding(r), Fresh(r), Samples(r), pc = "idle",
           pc' = "admit", prefilled' = prefilled, last_logits' = last_logits, kv' = kv
    PROVE  /\ GoodNow(r)'
           /\ Advances(r, generated[r], finish_reason[r], generated'[r], finish_reason'[r])
  <1>1. Good(r, "decoding", generated[r], finish_reason[r], prefilled[r], pending[r], last_logits[r],
             spec[r], kv[r], FALSE)
    BY DEF GoodNow, Decoding
  <1>2. PICK g \in Nat : /\ g = Len(generated[r]) /\ generated[r] = Output(r, g)
                         /\ g < EosIn(r) /\ g < MaxTokens[r] /\ finish_reason[r] = "none"
    BY <1>1 DEF Good, Emitted
  <1>3. PICK p \in Nat : p = PromptLen[r] + g
    BY Sizes
  <1>4. /\ last_logits[r] = Token(r, p + 1) /\ kv[r] = Text(r, p)
        /\ spec[r] = None => pending[r] = None
        /\ spec[r] # None => spec[r] \in SpecDecodeState /\ Undrafted(spec[r], kv[r])
    <2>1. Token(r, p) # None
      BY TokenFacts
    <2>2. CASE spec[r] = None
      <3>1. Plain(r, g, pending[r], last_logits[r], kv[r], FALSE)
        BY <1>1, <1>2, <2>2 DEF Good, Ready
      <3>2. pending[r] = None
        BY <2>2 DEF Fresh
      <3> QED BY <1>3, <2>1, <2>2, <3>1, <3>2 DEF Plain
    <2>3. CASE spec[r] # None
      <3>1. Speculating(r, g, last_logits[r], spec[r], kv[r], FALSE)
        BY <1>1, <1>2, <2>3 DEF Good, Ready
      <3>2. spec[r].anchor = None
        BY <2>3 DEF Fresh
      <3>3. spec[r] \in SpecDecodeState
        BY <1>1, <2>3 DEF Good, Typed
      <3> QED BY <1>3, <2>1, <2>3, <3>1, <3>2, <3>3 DEF Speculating
    <2> QED BY <2>2, <2>3
  <1>5. PICK s : s = <<last_logits[r]>>
    OBVIOUS
  <1>6. s \in Seq(TokenIds) /\ Len(s) = 1 /\ s[1] = Token(r, p + 1) /\ s # <<>>
    <2>1. PICK e \in TokenIds : e = Token(r, p + 1)
      BY TokenFacts
    <2>2. s = <<e>>
      BY <1>4, <1>5, <2>1
    <2>3. <<e>> \in Seq(TokenIds) /\ Len(<<e>>) = 1 /\ <<e>>[1] = e
      OBVIOUS
    <2>4. s # <<>>
      BY <2>2, <2>3, SeqFacts
    <2> QED BY <2>1, <2>2, <2>3, <2>4
  <1>7. \A i \in 1..Len(s) : s[i] = Token(r, PromptLen[r] + g + i)
    BY <1>3, <1>6
  <1>8. PICK o : o = Outcome(r, s)
    OBVIOUS
  <1>9. PICK c \in 0..1 :
          /\ generated[r] \o o.emitted = Output(r, g + c)
          /\ g + c < EosIn(r) /\ g + c <= MaxTokens[r]
          /\ o.reason \in {"none", "length", "stop"}
          /\ o.reason = "none" => c = 1 /\ g + c < MaxTokens[r]
          /\ o.reason = "length" => g + c = MaxTokens[r]
          /\ o.reason = "stop" => g + c + 1 = EosIn(r)
    <2>1. \E c \in 0..Len(s) :
              /\ Outcome(r, s).emitted \in Seq(TokenIds)
              /\ Len(Outcome(r, s).emitted) = c
              /\ generated[r] \o Outcome(r, s).emitted = Output(r, g + c)
              /\ g + c < EosIn(r) /\ g + c <= MaxTokens[r]
              /\ Outcome(r, s).reason \in {"none", "length", "stop"}
              /\ Outcome(r, s).reason = "none" => c = Len(s) /\ g + c < MaxTokens[r]
              /\ Outcome(r, s).reason = "length" => g + c = MaxTokens[r]
              /\ Outcome(r, s).reason = "stop" => g + c + 1 = EosIn(r)
      BY <1>2, <1>6, <1>7, OutcomeFacts
    <2> QED BY <1>6, <1>8, <2>1
  <1>10. /\ generated'[r] = Output(r, g + c)
         /\ \/ /\ o.reason # "none" /\ state'[r] = "done" /\ finish_reason'[r] = o.reason
               /\ pending'[r] = pending[r] /\ spec'[r] = spec[r]
            \/ /\ o.reason = "none" /\ state'[r] = state[r] /\ finish_reason'[r] = finish_reason[r]
               /\ IF spec[r] = None THEN pending'[r] = last_logits[r] /\ spec'[r] = None
                  ELSE /\ pending'[r] = pending[r]
                       /\ NeedsDraft(Anchored(r)) => Drafts(r, Anchored(r))
    BY <1>5, <1>8, <1>9 DEF Samples
  <1>11. PICK n \in Nat : n = g + c
    OBVIOUS
  <1>12. /\ pending[r] \in TokenIds \cup {None} /\ last_logits[r] \in TokenIds \cup {None}
         /\ prefilled[r] \in Nat /\ kv[r] \in Seq(TokenIds)
         /\ spec[r] \in SpecDecodeState \cup {None}
    BY <1>1 DEF Good, Typed
  <1>13. CASE o.reason # "none"
    <2>1. n \in Len(generated[r])..MaxTokens[r] /\ n < EosIn(r)
      <3>1. MaxTokens[r] \in Nat /\ g + c <= MaxTokens[r] /\ g + c < EosIn(r) /\ g = Len(generated[r])
        BY <1>2, <1>9, Sizes
      <3> QED BY <1>11, <3>1
    <2>2. PICK why \in Reasons \ {"none"} : why = o.reason
      BY <1>9, <1>13 DEF Reasons
    <2>3. (why = "length" => n = MaxTokens[r]) /\ (why = "stop" => n + 1 = EosIn(r))
      BY <1>9, <1>11, <2>2
    <2>4. PICK gen : gen = Output(r, n)
      OBVIOUS
    <2>5. /\ Good(r, "done", gen, why, prefilled[r], pending[r], last_logits[r], spec[r], kv[r], TRUE)
          /\ Advances(r, generated[r], finish_reason[r], gen, why)
      <3>1. /\ prefilled[r] \in Nat /\ kv[r] \in Seq(TokenIds) /\ "decoding" # "done"
            /\ pending[r] \in TokenIds \cup {None} /\ last_logits[r] \in TokenIds \cup {None}
            /\ spec[r] \in SpecDecodeState \cup {None}
        BY <1>12
      <3>2. Good(r, "done", gen, why, prefilled[r], pending[r], last_logits[r], spec[r], kv[r], TRUE)
        BY <1>1, <2>1, <2>3, <2>4, <3>1, Ends
      <3>3. Advances(r, generated[r], finish_reason[r], gen, why)
        BY <1>2, <2>1, <2>2, <2>3, <2>4 DEF Advances
      <3> QED BY <3>2, <3>3
    <2> QED BY <1>10, <1>11, <1>13, <2>2, <2>4, <2>5 DEF GoodNow
  <1>14. CASE o.reason = "none"
    <2>1. c = 1 /\ n = g + 1 /\ n > 0 /\ n < EosIn(r) /\ n < MaxTokens[r] /\ PromptLen[r] + n = p + 1
          /\ PromptLen[r] + n - 1 = p
      BY <1>3, <1>9, <1>11, <1>14, Sizes
    <2>2. /\ generated'[r] = Output(r, n) /\ state'[r] = "decoding" /\ finish_reason'[r] = "none"
      BY <1>2, <1>10, <1>11, <1>14 DEF Decoding
    <2>3. Output(r, n) \in Seq(TokenIds) /\ Len(Output(r, n)) = n
      BY OutputFacts
    <2>4. Emitted(r, Output(r, n), "none", "decoding")
      <3>1. n <= MaxTokens[r]
        BY <2>1, Sizes
      <3> QED BY <2>1, <2>3, <3>1 DEF Emitted
    <2>5. /\ pending'[r] \in TokenIds \cup {None} /\ spec'[r] \in SpecDecodeState \cup {None}
          /\ Ready(r, "decoding", Output(r, n), prefilled[r], pending'[r], last_logits[r], spec'[r],
                   kv[r], TRUE)
      <3>1. CASE spec[r] = None
        <4>1. pending'[r] = Token(r, p + 1) /\ spec'[r] = None
          BY <1>4, <1>10, <1>14, <3>1
        <4>2. Plain(r, n, pending'[r], last_logits[r], kv[r], TRUE)
          BY <1>4, <2>1, <4>1 DEF Plain
        <4>3. Token(r, p + 1) \in TokenIds
          BY TokenFacts
        <4> QED BY <2>3, <4>1, <4>2, <4>3 DEF Ready
      <3>2. CASE spec[r] # None
        <4>1. /\ Anchored(r) \in SpecDecodeState /\ NeedsDraft(Anchored(r))
              /\ Anchored(r).offered = None /\ Anchored(r).anchor = Token(r, p + 1)
              /\ Anchored(r).start = p /\ Anchored(r).cache \o Anchored(r).context = kv[r]
          BY <1>4, <3>2, AnchoredFacts
        <4>2. Drafts(r, Anchored(r)) /\ pending'[r] = pending[r]
          BY <1>10, <1>14, <3>2, <4>1
        <4>3. PICK a \in SpecDecodeState : a = Anchored(r)
          BY <4>1
        <4>4. PICK confident \in 0..DraftBlock, room \in Nat :
                 \E R : spec'[r] = Drafted(a, Proposal(r, a.start, R, confident, room))
          BY <4>2, <4>3 DEF Drafts
        <4>5. PICK R : spec'[r] = Drafted(a, Proposal(r, a.start, R, confident, room))
          BY <4>4
        <4>6. PICK text : text = kv[r]
          OBVIOUS
        <4>7. /\ a.offered = None /\ a.anchor = Token(r, PromptLen[r] + n)
              /\ a.start = PromptLen[r] + n - 1 /\ text = Text(r, PromptLen[r] + n - 1)
              /\ a.cache \o a.context = text
          BY <1>4, <2>1, <4>1, <4>3, <4>6
        <4>8. PICK s2 : s2 = spec'[r]
          OBVIOUS
        <4>9. s2 \in SpecDecodeState /\ Speculating(r, n, last_logits[r], s2, text, TRUE)
          BY <2>1, <4>5, <4>7, <4>8, DraftsFacts
        <4>10. s2 # None
          BY <4>9, DSparkAssumption
        <4> QED BY <1>12, <2>3, <4>2, <4>6, <4>8, <4>9, <4>10 DEF Ready
      <3> QED BY <3>1, <3>2
    <2>6. Typed("decoding", Output(r, n), "none", prefilled[r], pending'[r], last_logits[r], spec'[r],
                kv[r])
      BY <1>12, <2>3, <2>5 DEF Typed, States, Reasons
    <2>7. Good(r, "decoding", Output(r, n), "none", prefilled[r], pending'[r], last_logits[r],
               spec'[r], kv[r], TRUE)
      BY <2>4, <2>5, <2>6 DEF Good
    <2>8. Advances(r, generated[r], finish_reason[r], Output(r, n), "none")
      <3>1. n \in Len(generated[r])..MaxTokens[r]
        <4>1. MaxTokens[r] \in Nat /\ g = Len(generated[r]) /\ n = g + 1 /\ n < MaxTokens[r]
          BY <1>2, <2>1, Sizes
        <4> QED BY <4>1
      <3> QED BY <1>2, <2>1, <3>1 DEF Advances, Reasons
    <2> QED BY <2>2, <2>7, <2>8 DEF GoodNow
  <1> QED BY <1>13, <1>14

\* A decoder with a token in flight keeps it; an anchored one has a proposal then.
LEMMA RetriesKeeps ==
    ASSUME NEW r \in Request, GoodNow(r), Decoding(r), ~Fresh(r), pc = "idle", pc' = "admit",
           Retries(r) \/ DraftsAgain(r),
           prefilled' = prefilled, last_logits' = last_logits, kv' = kv
    PROVE  /\ GoodNow(r)'
           /\ Advances(r, generated[r], finish_reason[r], generated'[r], finish_reason'[r])
  <1>1. Good(r, "decoding", generated[r], finish_reason[r], prefilled[r], pending[r], last_logits[r],
             spec[r], kv[r], FALSE)
    BY DEF GoodNow, Decoding
  <1>2. PICK g \in Nat : g = Len(generated[r])
    BY <1>1 DEF Good, Emitted
  <1>3. /\ state'[r] = "decoding" /\ generated'[r] = generated[r]
        /\ finish_reason'[r] = finish_reason[r] /\ pending'[r] = pending[r]
    BY DEF Retries, DraftsAgain, Idles, Decoding
  <1>4. /\ spec'[r] \in SpecDecodeState \cup {None}
        /\ Ready(r, "decoding", generated[r], prefilled[r], pending[r], last_logits[r], spec'[r],
                 kv[r], TRUE)
    <2>1. CASE spec[r] = None
      <3>1. Plain(r, g, pending[r], last_logits[r], kv[r], FALSE)
        BY <1>1, <1>2, <2>1 DEF Good, Ready
      <3>2. pending[r] # None
        BY <2>1 DEF Fresh
      <3>3. Plain(r, g, pending[r], last_logits[r], kv[r], TRUE)
        BY <3>1, <3>2 DEF Plain
      <3>4. spec'[r] = None
        BY <2>1 DEF Retries, DraftsAgain, Idles
      <3> QED BY <1>2, <3>3, <3>4 DEF Ready
    <2>2. CASE spec[r] # None
      <3>1. Speculating(r, g, last_logits[r], spec[r], kv[r], FALSE)
        BY <1>1, <1>2, <2>2 DEF Good, Ready
      <3>2. spec[r].anchor # None
        BY <2>2 DEF Fresh
      <3>3. /\ g > 0 /\ spec[r] \in SpecDecodeState
            /\ kv[r] = Text(r, PromptLen[r] + g - 1)
            /\ spec[r].anchor = Token(r, PromptLen[r] + g)
            /\ spec[r].start = PromptLen[r] + g - 1
            /\ \/ spec[r].offered = None /\ spec[r].cache \o spec[r].context = kv[r]
               \/ spec[r].cache = kv[r] /\ Offers(r, PromptLen[r] + g, spec[r].offered)
        <4>1. ~Undrafted(spec[r], kv[r])
          BY <3>2 DEF Undrafted
        <4> QED BY <3>1, <4>1 DEF Speculating
      <3>4. CASE Retries(r)
        <4>1. spec'[r] = spec[r] /\ spec[r].offered # None
          BY <2>2, <3>4 DEF Retries, Idles
        <4>2. Speculating(r, g, last_logits[r], spec[r], kv[r], TRUE)
          BY <3>3, <4>1 DEF Speculating
        <4> QED BY <1>2, <2>2, <3>3, <4>1, <4>2 DEF Ready
      <3>5. CASE DraftsAgain(r)
        <4>1. spec[r].offered = None /\ Drafts(r, spec[r])
          BY <3>5 DEF DraftsAgain
        <4>2. ~Offers(r, PromptLen[r] + g, None)
          BY DSparkAssumption DEF Offers
        <4>3. spec[r].cache \o spec[r].context = kv[r]
          BY <3>3, <4>1, <4>2
        <4>4. PICK a \in SpecDecodeState : a = spec[r]
          BY <3>3
        <4>5. PICK confident \in 0..DraftBlock, room \in Nat :
                 \E R : spec'[r] = Drafted(a, Proposal(r, a.start, R, confident, room))
          BY <4>1, <4>4 DEF Drafts
        <4>6. PICK R : spec'[r] = Drafted(a, Proposal(r, a.start, R, confident, room))
          BY <4>5
        <4>7. PICK text, s2 : text = kv[r] /\ s2 = spec'[r]
          OBVIOUS
        <4>8. /\ a.offered = None /\ a.anchor = Token(r, PromptLen[r] + g)
              /\ a.start = PromptLen[r] + g - 1 /\ text = Text(r, PromptLen[r] + g - 1)
              /\ a.cache \o a.context = text /\ g > 0
          BY <3>3, <4>1, <4>3, <4>4, <4>7
        <4>9. s2 = Drafted(a, Proposal(r, a.start, R, confident, room))
          BY <4>6, <4>7
        <4>10. s2 \in SpecDecodeState /\ Speculating(r, g, last_logits[r], s2, text, TRUE)
          BY <4>8, <4>9, DraftsFacts
        <4>11. s2 # None
          BY <4>10, DSparkAssumption
        <4> QED BY <1>2, <4>7, <4>10, <4>11 DEF Ready
      <3> QED BY <3>4, <3>5
    <2> QED BY <2>1, <2>2
  <1>5. Good(r, "decoding", generated[r], finish_reason[r], prefilled[r], pending[r],
             last_logits[r], spec'[r], kv[r], TRUE)
    BY <1>1, <1>4 DEF Good, Typed
  <1> QED BY <1>3, <1>5 DEF GoodNow, Advances

\* Draft cancels, samples and proposes, and leaves the slots alone.
LEMMA DraftKeeps ==
    ASSUME IInv, Draft
    PROVE  IInv' /\ Step /\ \A r \in Request : state[r] = "waiting" => state'[r] # "done"
  <1>1. Domains /\ Places /\ \A q \in Request : GoodNow(q)
    BY ByRequest DEF GoodState
  <1>2. /\ pc = "idle" /\ pc' = "admit"
        /\ UNCHANGED <<waiting, running, cancel_event, prefilled, last_logits, kv, blocks>>
    BY DEF Draft
  <1>3. \A r \in Request : \/ ~Decoding(r) /\ Idles(r)
                           \/ Cancels(r) /\ state[r] \notin {"new", "waiting"}
                           \/ Decoding(r) /\ ~Fresh(r) /\ (Retries(r) \/ DraftsAgain(r))
                           \/ Decoding(r) /\ Fresh(r) /\ Samples(r)
    BY DraftMoves
  <1>4. Domains'
    <2>1. /\ state' = [r \in Request |-> state'[r]] /\ spec' = [r \in Request |-> spec'[r]]
          /\ generated' = [r \in Request |-> generated'[r]]
          /\ pending' = [r \in Request |-> pending'[r]]
          /\ finish_reason' = [r \in Request |-> finish_reason'[r]]
      BY DraftMoves
    <2> QED BY <1>1, <1>2, <2>1 DEF Domains
  <1>5. \A r \in Request : \/ state'[r] = state[r]
                           \/ state[r] \notin {"new", "waiting"} /\ state'[r] = "done"
    BY <1>3 DEF Idles, Cancels, Retries, DraftsAgain, Samples, Decoding
  <1>6. Places'
    <2>1. \A i \in 1..Len(waiting) : waiting[i] \in Request /\ state'[waiting[i]] = "waiting"
      <3>1. \A i \in 1..Len(waiting) : waiting[i] \in Request
        BY <1>1, ElementOfSeq DEF Domains
      <3> QED BY <1>1, <1>5, <3>1 DEF Places
    <2>2. ToSet(running) \subseteq Request
      BY <1>1, SeqFacts DEF Domains
    <2>3. \A q \in ToSet(running) : state'[q] \notin {"new", "waiting"}
      BY <1>1, <1>5, <2>2 DEF Places
    <2>4. \A q \in Request : Prefilling(q)' \/ Decoding(q)' => q \in ToSet(running)
      BY <1>1, <1>5 DEF Places, Prefilling, Decoding
    <2> QED BY <1>1, <1>2, <2>1, <2>3, <2>4 DEF Places, Distinct
  <1>7. ASSUME NEW r \in Request
        PROVE  /\ GoodNow(r)'
               /\ Advances(r, generated[r], finish_reason[r], generated'[r], finish_reason'[r])
    <2>1. CASE ~Decoding(r) /\ Idles(r)
      BY <1>1, <1>2, <2>1, Untouched DEF Idles, Decoding
    <2>2. CASE Cancels(r)
      <3>1. Good(r, state[r], generated[r], finish_reason[r], prefilled[r], pending[r],
                 last_logits[r], spec[r], kv[r], pc # "idle")
        BY <1>1 DEF GoodNow
      <3>2. spec[r] \in SpecDecodeState \cup {None} /\ kv[r] \in Seq(TokenIds) /\ state[r] # "done"
        BY <2>2, <3>1 DEF Good, Typed, Cancels
      <3>3. /\ Good(r, "done", generated[r], "cancelled", prefilled[r], pending[r],
                    last_logits[r], spec[r], kv[r], pc' # "idle")
            /\ Advances(r, generated[r], finish_reason[r], generated[r], "cancelled")
        BY <3>1, <3>2, Cancelled
      <3> QED BY <1>2, <2>2, <3>3 DEF GoodNow, Cancels
    <2>3. CASE Decoding(r) /\ ~Fresh(r) /\ (Retries(r) \/ DraftsAgain(r))
      BY <1>1, <1>2, <2>3, RetriesKeeps
    <2>4. CASE Decoding(r) /\ Fresh(r) /\ Samples(r)
      BY <1>1, <1>2, <2>4, SamplesKeeps
    <2> QED BY <1>3, <2>1, <2>2, <2>3, <2>4
  <1>8. GoodState'
    BY <1>4, <1>6, <1>7 DEF GoodState
  <1>9. Step
    BY <1>7 DEF Step
  <1> QED BY <1>5, <1>8, <1>9, ByRequestNext

-----------------------------------------------------------------------------
(* The packed forward.                                                     *)

\* A prefill contributes its prompt's next tokens.
LEMMA PrefillFeed ==
    ASSUME NEW r \in Request, GoodNow(r), Prefilling(r)
    PROVE  /\ Feed(r) \in Seq(TokenIds) /\ Len(Feed(r)) > 0
           /\ prefilled[r] + Len(Feed(r)) <= PromptLen[r]
           /\ \A i \in 1..Len(Feed(r)) : Feed(r)[i] = Token(r, prefilled[r] + i)
  <1>1. Prefills(r, generated[r], prefilled[r], pending[r], spec[r], kv[r])
    BY DEF GoodNow, Good, Ready, Prefilling
  <1>2. PICK m \in Nat, p \in Nat : m = prefilled[r] /\ p = PromptLen[r] /\ m < p
    BY <1>1, Sizes DEF Prefills
  <1>3. PICK e \in Nat : e = IF m + ChunkSize < p THEN m + ChunkSize ELSE p
    BY DSparkAssumption
  <1>4. m < e /\ e <= p
    <2>1. ChunkSize \in Nat /\ ChunkSize > 0
      BY DSparkAssumption
    <2> QED BY <1>2, <1>3, <2>1
  <1>5. PICK t \in Seq(TokenIds) : t = Text(r, p) /\ Len(t) = p /\ \A i \in 1..p : t[i] = Token(r, i)
    BY TextFacts
  <1>6. Feed(r) = SubSeq(t, m + 1, e)
    BY <1>2, <1>3, <1>5 DEF Feed
  <1>7. PICK l \in Nat : l = e - m
    BY <1>4
  <1>8. /\ SubSeq(t, m + 1, e) \in Seq(TokenIds) /\ Len(SubSeq(t, m + 1, e)) = l
        /\ \A i \in 1..l : SubSeq(t, m + 1, e)[i] = t[m + i]
    BY <1>4, <1>5, <1>7, SliceFacts
  <1>9. PICK f : f = Feed(r)
    OBVIOUS
  <1>10. f \in Seq(TokenIds) /\ Len(f) = l /\ \A i \in 1..l : f[i] = t[m + i]
    BY <1>6, <1>8, <1>9
  <1>11. \A i \in 1..l : m + i \in 1..p
    BY <1>4, <1>7
  <1>12. \A i \in 1..l : f[i] = Token(r, m + i)
    BY <1>5, <1>10, <1>11
  <1> QED BY <1>2, <1>4, <1>7, <1>9, <1>10, <1>12

\* A plain decoder contributes the token it sampled.
LEMMA PlainFeed ==
    ASSUME NEW r \in Request, GoodNow(r), Decoding(r), spec[r] = None, pc = "forward"
    PROVE  \E g \in Nat : /\ g = Len(generated[r]) /\ g > 0
                          /\ Feed(r) = <<Token(r, PromptLen[r] + g)>>
                          /\ Feed(r) \in Seq(TokenIds) /\ Len(Feed(r)) = 1
                          /\ kv[r] = Text(r, PromptLen[r] + g - 1)
  <1>1. PICK g \in Nat : g = Len(generated[r])
    BY DEF GoodNow, Good, Emitted
  <1>2. Plain(r, g, pending[r], last_logits[r], kv[r], TRUE)
    BY <1>1 DEF GoodNow, Good, Ready, Decoding
  <1>3. /\ g > 0 /\ pending[r] = Token(r, PromptLen[r] + g)
        /\ kv[r] = Text(r, PromptLen[r] + g - 1)
    BY <1>2 DEF Plain
  <1>4. Feed(r) = <<pending[r]>>
    BY DEF Feed, Decoding, Prefilling
  <1>5. PICK e \in TokenIds : e = Token(r, PromptLen[r] + g)
    BY Sizes, TokenFacts
  <1>6. Feed(r) = <<e>> /\ <<e>> \in Seq(TokenIds) /\ Len(<<e>>) = 1
    BY <1>3, <1>4, <1>5
  <1> QED BY <1>1, <1>3, <1>5, <1>6

\* A speculator contributes its anchor and its proposal.
LEMMA SpecFeed ==
    ASSUME NEW r \in Request, GoodNow(r), Decoding(r), spec[r] # None, pc = "forward"
    PROVE  \E g \in Nat : /\ g = Len(generated[r]) /\ g > 0
                          /\ spec[r] \in SpecDecodeState /\ spec[r].offered # None
                          /\ Offers(r, PromptLen[r] + g, spec[r].offered)
                          /\ Feed(r) = <<Token(r, PromptLen[r] + g)>> \o spec[r].offered
                          /\ Feed(r) \in Seq(TokenIds) /\ Len(Feed(r)) = Len(spec[r].offered) + 1
                          /\ spec[r].cache = kv[r] /\ kv[r] = Text(r, PromptLen[r] + g - 1)
                          /\ spec[r].start = PromptLen[r] + g - 1
  <1>1. PICK g \in Nat : g = Len(generated[r])
    BY DEF GoodNow, Good, Emitted
  <1>2. Speculating(r, g, last_logits[r], spec[r], kv[r], TRUE)
    BY <1>1 DEF GoodNow, Good, Ready, Decoding
  <1>3. /\ g > 0 /\ spec[r] \in SpecDecodeState
        /\ spec[r].anchor = Token(r, PromptLen[r] + g) /\ spec[r].start = PromptLen[r] + g - 1
        /\ spec[r].cache = kv[r] /\ kv[r] = Text(r, PromptLen[r] + g - 1)
        /\ Offers(r, PromptLen[r] + g, spec[r].offered)
    BY <1>2 DEF Speculating
  <1>4. spec[r].offered \in Seq(TokenIds) /\ spec[r].offered # None
    BY <1>3, DSparkAssumption DEF Offers
  <1>5. PICK e \in TokenIds : e = Token(r, PromptLen[r] + g)
    BY Sizes, TokenFacts
  <1>6. Feed(r) = <<e>> \o spec[r].offered
    BY <1>3, <1>5 DEF Feed, Decoding, Prefilling
  <1>7. PICK offered \in Seq(TokenIds) : offered = spec[r].offered
    BY <1>4
  <1>8. <<e>> \o offered \in Seq(TokenIds) /\ Len(<<e>> \o offered) = Len(offered) + 1
    BY OneThen
  <1> QED BY <1>1, <1>3, <1>4, <1>5, <1>6, <1>7, <1>8

\* What the forward makes of a request: nothing, a longer prefill, a token to
\* sample next, or a verified proposal.
Stays(r) ==
    /\ state'[r] = state[r] /\ generated'[r] = generated[r] /\ finish_reason'[r] = finish_reason[r]
    /\ prefilled'[r] = prefilled[r] /\ pending'[r] = pending[r]
    /\ last_logits'[r] = last_logits[r] /\ spec'[r] = spec[r] /\ kv'[r] = kv[r]

PrefillsOn(r, w) ==
    LET full == prefilled[r] + Len(Feed(r)) = PromptLen[r]
    IN /\ generated'[r] = generated[r] /\ finish_reason'[r] = finish_reason[r]
       /\ prefilled'[r] = prefilled[r] + Len(Feed(r)) /\ pending'[r] = None
       /\ kv'[r] = kv[r] \o Feed(r)
       /\ spec'[r] = IF spec[r] = None THEN None ELSE [spec[r] EXCEPT !.context = @ \o Feed(r)]
       /\ IF full THEN state'[r] = "decoding" /\ last_logits'[r] = Last(w)
          ELSE state'[r] = state[r] /\ last_logits'[r] = last_logits[r]

Decodes(r, w) ==
    /\ state'[r] = state[r] /\ generated'[r] = generated[r] /\ finish_reason'[r] = finish_reason[r]
    /\ prefilled'[r] = prefilled[r] /\ pending'[r] = None /\ spec'[r] = None
    /\ last_logits'[r] = Last(w) /\ kv'[r] = kv[r] \o Feed(r)

Verifies(r, w) ==
    LET n == Accepted(w, spec[r].offered)
        o == Outcome(r, SubSeq(spec[r].offered, 1, n) \o <<w[n + 1]>>)
    IN /\ generated'[r] = generated[r] \o o.emitted /\ prefilled'[r] = prefilled[r]
       /\ pending'[r] = None /\ last_logits'[r] = None
       /\ IF o.reason # "none"
          THEN /\ state'[r] = "done" /\ finish_reason'[r] = o.reason
               /\ spec'[r] = spec[r] /\ kv'[r] = kv[r] \o Feed(r)
          ELSE /\ state'[r] = state[r] /\ finish_reason'[r] = finish_reason[r]
               /\ spec'[r] = [spec[r] EXCEPT !.context = SubSeq(Feed(r), 1, n + 1),
                                             !.anchor = w[n + 1], !.offered = None,
                                             !.start = spec[r].start + Len(o.emitted)]
               /\ kv'[r] = SubSeq(kv[r] \o Feed(r), 1, spec[r].start + Len(o.emitted))

\* What Forward makes of every request, given its own rows of the packed logits.
LEMMA ForwardMoves ==
    ASSUME IInv, Forward
    PROVE  /\ \A r \in Request :
                 \/ r \notin ToSet(running) /\ Stays(r)
                 \/ /\ r \in ToSet(running) /\ Prefilling(r)
                    /\ PrefillsOn(r, Window(PackedLogits, r))
                 \/ /\ r \in ToSet(running) /\ Decoding(r) /\ spec[r] = None
                    /\ Decodes(r, Window(PackedLogits, r))
                 \/ /\ r \in ToSet(running) /\ Decoding(r) /\ spec[r] # None
                    /\ Verifies(r, Window(PackedLogits, r))
           /\ \A r \in ToSet(running) :
                 /\ Window(PackedLogits, r) \in Seq(TokenIds)
                 /\ Len(Window(PackedLogits, r)) = Len(Feed(r))
                 /\ \A j \in 1..Len(Feed(r)) :
                       Window(PackedLogits, r)[j] = Argmax(kv[r] \o SubSeq(Feed(r), 1, j))
           /\ state' = [r \in Request |-> state'[r]] /\ spec' = [r \in Request |-> spec'[r]]
           /\ generated' = [r \in Request |-> generated'[r]]
           /\ prefilled' = [r \in Request |-> prefilled'[r]]
           /\ pending' = [r \in Request |-> pending'[r]]
           /\ last_logits' = [r \in Request |-> last_logits'[r]]
           /\ kv' = [r \in Request |-> kv'[r]]
           /\ finish_reason' = [r \in Request |-> finish_reason'[r]]
  <1>1. Domains /\ Places /\ \A q \in Request : GoodNow(q)
    BY ByRequest DEF GoodState
  <1>2. pc = "forward" /\ ToSet(running) \subseteq Request /\ running \in Seq(Request)
    BY <1>1, SeqFacts DEF Forward, Domains
  <1>3. \A r \in ToSet(running) : Prefilling(r) \/ Decoding(r)
    BY <1>1, <1>2 DEF Places
  <1>4. \A r \in ToSet(running) : Feed(r) \in Seq(TokenIds)
    <2> TAKE r \in ToSet(running)
    <2>1. CASE Prefilling(r)
      BY <1>1, <1>2, <2>1, PrefillFeed
    <2>2. CASE Decoding(r) /\ spec[r] = None
      BY <1>1, <1>2, <2>2, PlainFeed
    <2>3. CASE Decoding(r) /\ spec[r] # None
      BY <1>1, <1>2, <2>3, SpecFeed
    <2> QED BY <1>3, <2>1, <2>2, <2>3
  <1>5. ASSUME NEW r \in ToSet(running)
        PROVE  /\ Window(Taps, r) = Feed(r)
               /\ Window(PackedLogits, r) \in Seq(TokenIds)
               /\ Len(Window(PackedLogits, r)) = Len(Feed(r))
               /\ \A j \in 1..Len(Feed(r)) :
                     Window(PackedLogits, r)[j] = Argmax(kv[r] \o SubSeq(Feed(r), 1, j))
    <2>1. kv \in [Request -> Seq(TokenIds)]
      BY DEF IInv, TypeOK
    <2> QED BY <1>2, <1>4, <2>1, Windows
  <1> DEFINE judged == {r \in ToSet(running) : spec[r] # None /\ spec[r].offered # None}
             V(r) == Verdict(r, Window(PackedLogits, r))
  <1>6. PICK v : v = [r \in judged |-> V(r)]
    OBVIOUS
  <1>7. v = Verdicts(PackedLogits)
    BY <1>6 DEF Verdicts
  <1>8. DOMAIN v = judged /\ \A r \in judged : v[r] = V(r)
    BY <1>6
  <1>9. \A r \in Request : r \in DOMAIN v <=> /\ r \in ToSet(running) /\ spec[r] # None
                                              /\ spec[r].offered # None
    <2>1. \A r \in Request : r \in judged <=> /\ r \in ToSet(running) /\ spec[r] # None
                                              /\ spec[r].offered # None
      OBVIOUS
    <2> HIDE DEF judged, V
    <2> QED BY <1>8, <2>1
  <1>10. PICK logits : logits = PackedLogits
    OBVIOUS
  <1>11. Commit(logits, v)
    BY <1>7, <1>10 DEF Forward
  <1> DEFINE on == {r \in DOMAIN v : v[r].outcome.reason = "none"}
             full(r) == Prefilling(r) /\ prefilled[r] + Len(Feed(r)) = PromptLen[r]
             start(r) == spec[r].start + Len(v[r].outcome.emitted)
             u == [r \in DOMAIN v |-> v[r].outcome]
             F == {r \in ToSet(running) : full(r)}
  <1>12. /\ Take(u, {}, F)
         /\ prefilled' = [r \in Request |-> IF r \in ToSet(running) /\ Prefilling(r)
                                           THEN prefilled[r] + Len(Feed(r)) ELSE prefilled[r]]
         /\ pending' = [r \in Request |-> IF r \in ToSet(running) THEN None ELSE pending[r]]
         /\ last_logits' = [r \in Request |->
               IF r \in DOMAIN v THEN None
               ELSE IF r \in ToSet(running) /\ (full(r) \/ Decoding(r)) THEN Last(Window(logits, r))
               ELSE last_logits[r]]
    BY <1>11 DEF Commit
  <1>13. /\ spec' = [r \in Request |->
               IF r \in on
               THEN [spec[r] EXCEPT !.context = NextContext(Window(Taps, r), v[r].accepted, spec[r].offered),
                                    !.anchor = v[r].bonus, !.offered = None, !.start = start(r)]
               ELSE IF r \in ToSet(running) /\ Prefilling(r) /\ spec[r] # None
                    THEN [spec[r] EXCEPT !.context = @ \o Window(Taps, r)]
               ELSE spec[r]]
         /\ kv' = [r \in Request |-> IF r \in on THEN Kept(kv[r] \o Feed(r), start(r))
                                    ELSE IF r \in ToSet(running) THEN kv[r] \o Feed(r) ELSE kv[r]]
    BY <1>11 DEF Commit
  <1>14. /\ generated' = [r \in Request |-> IF r \in DOMAIN v THEN generated[r] \o u[r].emitted
                                            ELSE generated[r]]
         /\ finish_reason' = [r \in Request |->
               IF r \in {q \in DOMAIN v : u[q].reason # "none"} THEN u[r].reason
               ELSE IF r \in {} THEN "cancelled" ELSE finish_reason[r]]
         /\ state' = [r \in Request |->
               IF r \in {q \in DOMAIN v : u[q].reason # "none"} \cup {} THEN "done"
               ELSE IF r \in F THEN "decoding" ELSE state[r]]
    <2>1. DOMAIN u = DOMAIN v
      OBVIOUS
    <2> HIDE DEF u, F
    <2> QED BY <1>12, <2>1 DEF Take
  <1>15. \A r \in DOMAIN v : u[r] = v[r].outcome
    OBVIOUS
  <1>16. \A r \in Request : r \in F <=> r \in ToSet(running) /\ full(r)
    OBVIOUS
  <1>17. \A r \in Request : r \in on <=> r \in DOMAIN v /\ v[r].outcome.reason = "none"
    OBVIOUS
  <1> HIDE DEF judged, on, full, start, u, F, V
  <1>18. ASSUME NEW r \in Request
         PROVE  \/ r \notin ToSet(running) /\ Stays(r)
                \/ /\ r \in ToSet(running) /\ Prefilling(r)
                   /\ PrefillsOn(r, Window(PackedLogits, r))
                \/ /\ r \in ToSet(running) /\ Decoding(r) /\ spec[r] = None
                   /\ Decodes(r, Window(PackedLogits, r))
                \/ /\ r \in ToSet(running) /\ Decoding(r) /\ spec[r] # None
                   /\ Verifies(r, Window(PackedLogits, r))
    <2>1. CASE r \notin ToSet(running)
      <3>1. r \notin DOMAIN v /\ r \notin F /\ r \notin on
        BY <1>16, <1>17, <1>9, <2>1
      <3> QED BY <1>12, <1>13, <1>14, <2>1, <3>1 DEF Stays
    <2>2. CASE r \in ToSet(running) /\ Prefilling(r)
      <3>1. spec[r] # None => spec[r].offered = None
        <4>1. Prefills(r, generated[r], prefilled[r], pending[r], spec[r], kv[r])
          BY <1>1, <2>2 DEF GoodNow, Good, Ready, Prefilling
        <4>2. Undrafted(spec[r], kv[r]) => spec[r].offered = None
          BY DEF Undrafted
        <4> QED BY <4>1, <4>2 DEF Prefills
      <3>2. r \notin DOMAIN v /\ r \notin on /\ ~Decoding(r)
        BY <1>17, <1>9, <2>2, <3>1 DEF Prefilling, Decoding
      <3>3. r \in F <=> prefilled[r] + Len(Feed(r)) = PromptLen[r]
        BY <1>16, <2>2 DEF full
      <3>4. full(r) <=> prefilled[r] + Len(Feed(r)) = PromptLen[r]
        BY <2>2 DEF full
      <3>5. /\ generated'[r] = generated[r] /\ finish_reason'[r] = finish_reason[r]
            /\ state'[r] = IF r \in F THEN "decoding" ELSE state[r]
        BY <1>14, <3>2
      <3>6. /\ prefilled'[r] = prefilled[r] + Len(Feed(r)) /\ pending'[r] = None
            /\ last_logits'[r] = IF full(r) THEN Last(Window(logits, r)) ELSE last_logits[r]
        BY <1>12, <2>2, <3>2
      <3>7. kv'[r] = kv[r] \o Feed(r)
        BY <1>13, <2>2, <3>2
      <3>8. spec'[r] = IF spec[r] = None THEN None ELSE [spec[r] EXCEPT !.context = @ \o Feed(r)]
        BY <1>5, <1>13, <2>2, <3>2
      <3>9. PrefillsOn(r, Window(PackedLogits, r))
        BY <1>10, <3>3, <3>4, <3>5, <3>6, <3>7, <3>8 DEF PrefillsOn
      <3> QED BY <2>2, <3>9
    <2>3. CASE r \in ToSet(running) /\ Decoding(r) /\ spec[r] = None
      <3>1. r \notin DOMAIN v /\ r \notin on /\ ~Prefilling(r) /\ r \notin F
        BY <1>16, <1>17, <1>9, <2>3 DEF Prefilling, Decoding, full
      <3>2. Decodes(r, Window(PackedLogits, r))
        BY <1>10, <1>12, <1>13, <1>14, <2>3, <3>1 DEF Decodes
      <3> QED BY <2>3, <3>2
    <2>4. CASE r \in ToSet(running) /\ Decoding(r) /\ spec[r] # None
      <3>1. spec[r].offered # None
        BY <1>1, <1>2, <2>4, SpecFeed
      <3>2. r \in DOMAIN v /\ ~Prefilling(r) /\ r \notin F
        BY <1>16, <1>9, <2>4, <3>1 DEF Prefilling, Decoding, full
      <3>3. PICK w : w = Window(PackedLogits, r)
        OBVIOUS
      <3>4. PICK n, o : /\ n = Accepted(w, spec[r].offered)
                        /\ o = Outcome(r, SubSeq(spec[r].offered, 1, n) \o <<w[n + 1]>>)
        OBVIOUS
      <3>5. v[r] = Verdict(r, w)
        BY <1>8, <3>2, <3>3 DEF V
      <3>6. v[r].accepted = n /\ v[r].bonus = w[n + 1] /\ v[r].outcome = o
        BY <3>4, <3>5 DEF Verdict
      <3>7. u[r] = o /\ (r \in on <=> o.reason = "none") /\ start(r) = spec[r].start + Len(o.emitted)
        BY <1>15, <1>17, <3>2, <3>6 DEF start
      <3>8. /\ generated'[r] = generated[r] \o o.emitted /\ prefilled'[r] = prefilled[r]
            /\ pending'[r] = None /\ last_logits'[r] = None
        BY <1>12, <1>14, <2>4, <3>2, <3>7
      <3>9. CASE o.reason # "none"
        <4>1. /\ state'[r] = "done" /\ finish_reason'[r] = o.reason
              /\ spec'[r] = spec[r] /\ kv'[r] = kv[r] \o Feed(r)
          BY <1>13, <1>14, <2>4, <3>2, <3>7, <3>9
        <4>2. Verifies(r, w)
          BY <3>4, <3>8, <3>9, <4>1 DEF Verifies
        <4> QED BY <2>4, <3>3, <4>2
      <3>10. CASE o.reason = "none"
        <4>1. state'[r] = state[r] /\ finish_reason'[r] = finish_reason[r]
          BY <1>14, <3>2, <3>7, <3>10
        <4>2. /\ spec'[r] = [spec[r] EXCEPT !.context = SubSeq(Feed(r), 1, n + 1),
                                            !.anchor = w[n + 1], !.offered = None,
                                            !.start = spec[r].start + Len(o.emitted)]
              /\ kv'[r] = SubSeq(kv[r] \o Feed(r), 1, spec[r].start + Len(o.emitted))
          BY <1>5, <1>13, <2>4, <3>6, <3>7, <3>10 DEF NextContext, Kept
        <4>3. Verifies(r, w)
          BY <3>4, <3>8, <3>10, <4>1, <4>2 DEF Verifies
        <4> QED BY <2>4, <3>3, <4>3
      <3> QED BY <3>9, <3>10
    <2> QED BY <1>3, <2>1, <2>2, <2>3, <2>4
  <1>19. /\ state' = [r \in Request |-> state'[r]] /\ spec' = [r \in Request |-> spec'[r]]
         /\ generated' = [r \in Request |-> generated'[r]]
         /\ prefilled' = [r \in Request |-> prefilled'[r]]
         /\ pending' = [r \in Request |-> pending'[r]]
         /\ last_logits' = [r \in Request |-> last_logits'[r]]
         /\ kv' = [r \in Request |-> kv'[r]]
         /\ finish_reason' = [r \in Request |-> finish_reason'[r]]
    BY <1>12, <1>13, <1>14
  <1> QED BY <1>5, <1>18, <1>19

\* A prefill goes on in its prompt, and the last of it gives the first token.
LEMMA PrefillsOnKeeps ==
    ASSUME NEW r \in Request, GoodNow(r), Prefilling(r), pc' = "idle",
           NEW w \in Seq(TokenIds), Len(w) = Len(Feed(r)), PrefillsOn(r, w),
           \A j \in 1..Len(Feed(r)) : w[j] = Argmax(kv[r] \o SubSeq(Feed(r), 1, j))
    PROVE  /\ GoodNow(r)'
           /\ Advances(r, generated[r], finish_reason[r], generated'[r], finish_reason'[r])
  <1>1. Good(r, "prefilling", generated[r], finish_reason[r], prefilled[r], pending[r],
             last_logits[r], spec[r], kv[r], pc # "idle")
    BY DEF GoodNow, Prefilling
  <1>2. Prefills(r, generated[r], prefilled[r], pending[r], spec[r], kv[r])
    BY <1>1 DEF Good, Ready
  <1>3. PICK m \in Nat : m = prefilled[r] /\ m < PromptLen[r] /\ kv[r] = Text(r, m)
    BY <1>2 DEF Prefills
  <1>4. PICK f \in Seq(TokenIds) : f = Feed(r)
    BY PrefillFeed
  <1>5. PICK l \in Nat : l = Len(f)
    BY LenProperties
  <1>6. /\ l > 0 /\ m + l <= PromptLen[r]
        /\ \A i \in 1..Len(f) : f[i] = Token(r, m + i)
    BY <1>3, <1>4, <1>5, PrefillFeed
  <1>7. Text(r, m) \o f = Text(r, m + l)
    BY <1>5, <1>6, TextGrows
  <1>8. PICK t \in Nat : t = m + l
    OBVIOUS
  <1>9. kv'[r] = Text(r, t) /\ Text(r, t) \in Seq(TokenIds)
    <2>1. kv'[r] = kv[r] \o f
      BY <1>4 DEF PrefillsOn
    <2> QED BY <1>3, <1>7, <1>8, <2>1, TextFacts
  <1>10. /\ generated'[r] = <<>> /\ finish_reason'[r] = finish_reason[r] /\ prefilled'[r] = t
         /\ pending'[r] = None
         /\ spec'[r] = IF spec[r] = None THEN None ELSE [spec[r] EXCEPT !.context = @ \o f]
         /\ IF t = PromptLen[r] THEN state'[r] = "decoding" /\ last_logits'[r] = Last(w)
            ELSE state'[r] = state[r] /\ last_logits'[r] = last_logits[r]
    BY <1>2, <1>3, <1>4, <1>5, <1>8 DEF PrefillsOn, Prefills
  <1>11. /\ spec'[r] \in SpecDecodeState \cup {None}
         /\ spec'[r] # None => Undrafted(spec'[r], Text(r, t))
    <2>1. CASE spec[r] = None
      BY <1>10, <2>1
    <2>2. CASE spec[r] # None
      <3>1. spec[r] = [cache |-> <<>>, context |-> Text(r, m), anchor |-> None, offered |-> None,
                       start |-> None]
        BY <1>2, <1>3, <2>2 DEF Prefills, Undrafted
      <3>2. spec'[r] = [[cache |-> <<>>, context |-> Text(r, m), anchor |-> None, offered |-> None,
                         start |-> None] EXCEPT !.context = @ \o f]
        BY <1>10, <2>2, <3>1
      <3>3. spec'[r] = [cache |-> <<>>, context |-> Text(r, m) \o f, anchor |-> None, offered |-> None,
                        start |-> None]
        BY <3>2
      <3>4. spec'[r] = [cache |-> <<>>, context |-> Text(r, t), anchor |-> None, offered |-> None,
                        start |-> None]
        BY <1>7, <1>8, <3>3
      <3>5. <<>> \in Seq(TokenIds)
        BY EmptySeq
      <3> QED BY <1>9, <3>4, <3>5 DEF SpecDecodeState, Undrafted
    <2> QED BY <2>1, <2>2
  <1>12. <<>> \in Seq(TokenIds) /\ Len(<<>>) = 0 /\ generated[r] = <<>>
    BY <1>2, EmptySeq DEF Prefills
  <1>13. Advances(r, generated[r], finish_reason[r], generated'[r], finish_reason'[r])
    BY <1>10, <1>12 DEF Advances
  <1>14. finish_reason[r] \in Reasons /\ last_logits[r] \in TokenIds \cup {None}
    BY <1>1 DEF Good, Typed
  <1>15. CASE t # PromptLen[r]
    <2>1. t < PromptLen[r]
      <3>1. PromptLen[r] \in Nat /\ t <= PromptLen[r]
        BY <1>6, <1>8, Sizes
      <3> QED BY <1>15, <3>1
    <2>2. Prefills(r, <<>>, t, None, spec'[r], Text(r, t))
      BY <1>11, <2>1 DEF Prefills
    <2>3. Ready(r, "prefilling", <<>>, t, None, last_logits[r], spec'[r], Text(r, t), FALSE)
      BY <2>2 DEF Ready
    <2>4. Typed("prefilling", <<>>, finish_reason[r], t, None, last_logits[r], spec'[r], Text(r, t))
      BY <1>9, <1>11, <1>12, <1>14 DEF Typed, States
    <2>5. Emitted(r, <<>>, finish_reason[r], "prefilling")
      BY <1>1, <1>12 DEF Good
    <2>6. Good(r, "prefilling", <<>>, finish_reason[r], t, None, last_logits[r], spec'[r], Text(r, t),
               FALSE)
      BY <2>3, <2>4, <2>5 DEF Good
    <2>7. /\ state'[r] = "prefilling" /\ last_logits'[r] = last_logits[r]
      BY <1>10, <1>15 DEF Prefilling
    <2> QED BY <1>9, <1>10, <1>13, <2>6, <2>7 DEF GoodNow
  <1>16. CASE t = PromptLen[r]
    <2>1. Last(w) = Token(r, t + 1)
      <3>1. Len(w) = l /\ l \in 1..Len(Feed(r))
        BY <1>4, <1>5, <1>6
      <3>2. Last(w) = w[l]
        BY <3>1 DEF Last
      <3>3. w[l] = Argmax(Text(r, m) \o SubSeq(f, 1, l))
        BY <1>3, <1>4, <3>1
      <3>4. SubSeq(f, 1, l) = f
        <4>1. /\ SubSeq(f, 1, l) \in Seq(TokenIds) /\ Len(SubSeq(f, 1, l)) = l
              /\ \A i \in 1..l : SubSeq(f, 1, l)[i] = f[i]
          BY <1>5, PrefixFacts
        <4> QED BY <1>5, <4>1, SeqEqual
      <3>5. Argmax(Text(r, t)) = Token(r, t + 1)
        BY <1>6, <1>8, ArgmaxFacts
      <3> QED BY <1>7, <1>8, <3>2, <3>3, <3>4, <3>5
    <2>2. PICK e \in TokenIds \cup {None} : e = Token(r, t + 1)
      BY TokenFacts
    <2>3. t = PromptLen[r] + 0
      BY <1>16
    <2>4. Plain(r, 0, None, e, Text(r, t), FALSE)
      BY <2>2, <2>3 DEF Plain
    <2>5. spec'[r] # None => Speculating(r, 0, e, spec'[r], Text(r, t), FALSE)
      BY <1>11, <2>2, <2>3 DEF Speculating
    <2>6. Ready(r, "decoding", <<>>, t, None, e, spec'[r], Text(r, t), FALSE)
      BY <1>12, <2>4, <2>5 DEF Ready
    <2>7. Typed("decoding", <<>>, finish_reason[r], t, None, e, spec'[r], Text(r, t))
      BY <1>9, <1>11, <1>12, <1>14 DEF Typed, States
    <2>8. Emitted(r, <<>>, finish_reason[r], "decoding")
      BY <1>1, <1>12 DEF Good, Emitted
    <2>9. Good(r, "decoding", <<>>, finish_reason[r], t, None, e, spec'[r], Text(r, t), FALSE)
      BY <2>6, <2>7, <2>8 DEF Good
    <2>10. state'[r] = "decoding" /\ last_logits'[r] = e
      BY <1>10, <1>16, <2>1, <2>2
    <2> QED BY <1>9, <1>10, <1>13, <2>9, <2>10 DEF GoodNow
  <1> QED BY <1>15, <1>16

\* A plain decoder's token is fed, and the next one is left to sample.
LEMMA DecodesKeeps ==
    ASSUME NEW r \in Request, GoodNow(r), Decoding(r), spec[r] = None, pc = "forward", pc' = "idle",
           NEW w \in Seq(TokenIds), Len(w) = Len(Feed(r)), Decodes(r, w),
           \A j \in 1..Len(Feed(r)) : w[j] = Argmax(kv[r] \o SubSeq(Feed(r), 1, j))
    PROVE  /\ GoodNow(r)'
           /\ Advances(r, generated[r], finish_reason[r], generated'[r], finish_reason'[r])
  <1>1. Good(r, "decoding", generated[r], finish_reason[r], prefilled[r], pending[r], last_logits[r],
             spec[r], kv[r], TRUE)
    BY DEF GoodNow, Decoding
  <1>2. PICK g \in Nat : /\ g = Len(generated[r]) /\ g > 0
                         /\ Feed(r) = <<Token(r, PromptLen[r] + g)>>
                         /\ Feed(r) \in Seq(TokenIds) /\ Len(Feed(r)) = 1
                         /\ kv[r] = Text(r, PromptLen[r] + g - 1)
    BY PlainFeed
  <1>3. PICK q \in Nat : q = PromptLen[r] + g - 1
    BY <1>2, Sizes
  <1>4. q + 1 = PromptLen[r] + g /\ q + 1 \in Nat /\ q + 1 > 0 /\ PromptLen[r] \in Nat
    BY <1>3, Sizes
  <1>5. PICK f \in Seq(TokenIds) : f = Feed(r) /\ f = <<Token(r, q + 1)>> /\ Len(f) = 1
    BY <1>2, <1>4
  <1>6. Text(r, q) \o f = Text(r, q + 1) /\ kv[r] = Text(r, q)
    BY <1>2, <1>3, <1>5, NextToken
  <1>7. /\ kv'[r] = Text(r, q + 1) /\ Text(r, q + 1) \in Seq(TokenIds)
        /\ state'[r] = "decoding" /\ generated'[r] = generated[r]
        /\ finish_reason'[r] = finish_reason[r] /\ prefilled'[r] = prefilled[r]
        /\ pending'[r] = None /\ spec'[r] = None /\ last_logits'[r] = Last(w)
    BY <1>4, <1>5, <1>6, TextFacts DEF Decodes, Decoding
  <1>8. Last(w) = Token(r, q + 1 + 1)
    <2>1. Len(w) = 1 /\ 1 \in 1..Len(Feed(r))
      BY <1>2
    <2>2. w[1] = Argmax(Text(r, q) \o SubSeq(f, 1, 1))
      BY <1>5, <1>6, <2>1
    <2>3. SubSeq(f, 1, 1) = f
      <3>1. PICK l \in Nat : l = 1
        OBVIOUS
      <3>2. /\ SubSeq(f, 1, l) \in Seq(TokenIds) /\ Len(SubSeq(f, 1, l)) = l
            /\ \A i \in 1..l : SubSeq(f, 1, l)[i] = f[i]
        BY <1>5, <3>1, PrefixFacts
      <3>3. SubSeq(f, 1, l) = f
        BY <1>5, <3>1, <3>2, SeqEqual
      <3> QED BY <3>1, <3>3
    <2>4. Argmax(Text(r, q + 1)) = Token(r, q + 1 + 1)
      BY <1>4, ArgmaxFacts
    <2>5. Last(w) = w[1]
      BY <2>1 DEF Last
    <2> QED BY <1>6, <2>2, <2>3, <2>4, <2>5
  <1>9. PICK e \in TokenIds \cup {None} : e = Token(r, q + 1 + 1)
    BY <1>4, TokenFacts
  <1>10. Plain(r, g, None, e, Text(r, q + 1), FALSE)
    BY <1>4, <1>9 DEF Plain
  <1>11. Ready(r, "decoding", generated[r], prefilled[r], None, e, None, Text(r, q + 1), FALSE)
    BY <1>2, <1>10 DEF Ready
  <1>12. Typed("decoding", generated[r], finish_reason[r], prefilled[r], None, e, None, Text(r, q + 1))
    BY <1>1, <1>7 DEF Good, Typed
  <1>13. Good(r, "decoding", generated[r], finish_reason[r], prefilled[r], None, e, None,
              Text(r, q + 1), FALSE)
    BY <1>1, <1>11, <1>12 DEF Good
  <1>14. last_logits'[r] = e
    BY <1>7, <1>8, <1>9
  <1> QED BY <1>7, <1>13, <1>14 DEF GoodNow, Advances

\* The front of a concatenation that reaches into its second part.
LEMMA FrontReaches ==
    ASSUME NEW S, NEW s \in Seq(S), NEW t \in Seq(S), NEW m \in Nat, m <= Len(t),
           NEW k \in Nat, k = Len(s) + m, NEW a, a = s \o t
    PROVE  SubSeq(a, 1, k) = s \o SubSeq(t, 1, m)
  <1>1. PICK n \in Nat, l \in Nat : n = Len(s) /\ l = Len(t)
    BY LenProperties
  <1>2. k \in Nat /\ k = n + m /\ m <= l
    BY <1>1
  <1>3. /\ a \in Seq(S) /\ Len(a) = n + l
        /\ \A i \in 1..n : a[i] = s[i]
        /\ \A i \in 1..l : a[n + i] = t[i]
    BY <1>1, ConcatFacts
  <1>4. PICK b : b = SubSeq(a, 1, k)
    OBVIOUS
  <1>5. b \in Seq(S) /\ Len(b) = k /\ \A i \in 1..k : b[i] = a[i]
    <2>1. k <= Len(a)
      BY <1>2, <1>3
    <2> QED BY <1>2, <1>3, <1>4, <2>1, PrefixFacts
  <1>6. PICK u : u = SubSeq(t, 1, m)
    OBVIOUS
  <1>7. u \in Seq(S) /\ Len(u) = m /\ \A i \in 1..m : u[i] = t[i]
    BY <1>6, PrefixFacts
  <1>8. PICK c : c = s \o u
    OBVIOUS
  <1>9. /\ c \in Seq(S) /\ Len(c) = n + m
        /\ \A i \in 1..n : c[i] = s[i]
        /\ \A i \in 1..m : c[n + i] = u[i]
    <2>1. /\ s \o u \in Seq(S) /\ Len(s \o u) = Len(s) + Len(u)
          /\ \A i \in 1..Len(s) : (s \o u)[i] = s[i]
          /\ \A i \in 1..Len(u) : (s \o u)[Len(s) + i] = u[i]
      BY <1>7, ConcatFacts
    <2> QED BY <1>1, <1>7, <1>8, <2>1
  <1>10. ASSUME NEW i \in 1..k PROVE b[i] = c[i]
    <2>1. CASE i \in 1..n
      BY <1>3, <1>5, <1>9, <2>1
    <2>2. CASE i \notin 1..n
      <3>1. PICK j \in 1..m : i = n + j
        <4>1. i - n \in 1..m /\ i = n + (i - n)
          BY <1>2, <2>2
        <4> QED BY <4>1
      <3>2. j \in 1..l
        BY <1>2
      <3>3. a[n + j] = t[j] /\ c[n + j] = u[j] /\ u[j] = t[j]
        BY <1>3, <1>7, <1>9, <3>2
      <3>4. b[i] = a[i]
        BY <1>5
      <3>5. b[n + j] = u[j]
        BY <3>1, <3>3, <3>4
      <3>6. c[n + j] = u[j]
        BY <3>3
      <3> QED BY <3>1, <3>5, <3>6
    <2> QED BY <2>1, <2>2
  <1>11. b = c
    BY <1>2, <1>5, <1>9, <1>10, SeqEqual
  <1> QED BY <1>4, <1>6, <1>8, <1>11

\* The drafter's state for the round after a verified one.
NextRound(x, context, anchor, start) ==
    [x EXCEPT !.context = context, !.anchor = anchor, !.offered = None, !.start = start]

\* The fields of that state.
LEMMA NewRound ==
    ASSUME NEW x \in SpecDecodeState, NEW context, NEW anchor, NEW start
    PROVE  NextRound(x, context, anchor, start)
              = [cache |-> x.cache, context |-> context, anchor |-> anchor, offered |-> None,
                 start |-> start]
  <1>1. x = [cache |-> x.cache, context |-> x.context, anchor |-> x.anchor,
             offered |-> x.offered, start |-> x.start]
    BY DEF SpecDecodeState
  <1>2. PICK d, b, a, f, s : x = [cache |-> d, context |-> b, anchor |-> a, offered |-> f, start |-> s]
    BY <1>1
  <1>3. PICK y : y = NextRound(x, context, anchor, start)
    OBVIOUS
  <1>4. y = [cache |-> d, context |-> context, anchor |-> anchor, offered |-> None, start |-> start]
    BY <1>2, <1>3 DEF NextRound
  <1>5. x.cache = d
    BY <1>2
  <1> QED BY <1>3, <1>4, <1>5

\* What the target makes of r's rows.
Answers(r, w) == \A j \in 1..Len(Feed(r)) : w[j] = Argmax(kv[r] \o SubSeq(Feed(r), 1, j))

\* A request whose proposal the forward verifies.
Speculator(r) == Decoding(r) /\ spec[r] # None

\* A verified proposal commits its accepted drafts and the bonus, and the slot and
\* the drafter keep what was committed.
LEMMA VerifiesKeeps ==
    ASSUME NEW r \in Request, GoodNow(r), Speculator(r), pc = "forward", pc' = "idle",
           NEW w, Verifies(r, w), Answers(r, w)
    PROVE  /\ GoodNow(r)'
           /\ Advances(r, generated[r], finish_reason[r], generated'[r], finish_reason'[r])
  <1>1. Good(r, "decoding", generated[r], finish_reason[r], prefilled[r], pending[r], last_logits[r],
             spec[r], kv[r], TRUE)
    BY DEF GoodNow, Speculator, Decoding
  <1>2. PICK g \in Nat : /\ g = Len(generated[r]) /\ g > 0
                         /\ spec[r] \in SpecDecodeState /\ spec[r].offered # None
                         /\ Offers(r, PromptLen[r] + g, spec[r].offered)
                         /\ Feed(r) = <<Token(r, PromptLen[r] + g)>> \o spec[r].offered
                         /\ Feed(r) \in Seq(TokenIds) /\ Len(Feed(r)) = Len(spec[r].offered) + 1
                         /\ spec[r].cache = kv[r] /\ kv[r] = Text(r, PromptLen[r] + g - 1)
                         /\ spec[r].start = PromptLen[r] + g - 1
    BY SpecFeed DEF Speculator
  <1>3. PICK q \in Nat : q = PromptLen[r] + g - 1
    BY <1>2, Sizes
  <1>4. PromptLen[r] \in Nat /\ q + 1 = PromptLen[r] + g
    <2>1. PromptLen[r] \in Nat
      BY Sizes
    <2> QED BY <1>3, <2>1
  <1>5. PICK offered \in Seq(TokenIds) : offered = spec[r].offered /\ Offers(r, q + 1, offered)
    BY <1>2, <1>4 DEF Offers
  <1>6. PICK f \in Seq(TokenIds) : f = Feed(r) /\ f = <<Token(r, q + 1)>> \o offered
    BY <1>2, <1>4, <1>5
  <1>7. PICK l \in Nat : l = Len(offered)
    BY LenProperties
  <1>8. \A j \in 1..Len(f) : w[j] = Argmax(Text(r, q) \o SubSeq(f, 1, j))
    BY <1>2, <1>3, <1>6 DEF Answers
  <1>9. Judges(r, q, offered, f, w)
    BY <1>5, <1>6, <1>8 DEF Judges
  <1>10. /\ Len(f) = l + 1
         /\ \E n \in 0..l : n = Accepted(w, offered) /\ Judged(r, q, offered, f, w, n)
    <2>1. Len(f) = Len(offered) + 1
      BY <1>9, Verified
    <2>2. \E n \in 0..Len(offered) :
             n = Accepted(w, offered) /\ Judged(r, q, offered, f, w, n)
      BY <1>9, Verified
    <2> QED BY <1>7, <2>1, <2>2
  <1>11. PICK n \in 0..l : n = Accepted(w, offered) /\ Judged(r, q, offered, f, w, n)
    BY <1>10
  <1>12. \A i \in 1..n : offered[i] = Token(r, q + 1 + i)
    BY <1>11 DEF Judged
  <1>13. w[n + 1] = Token(r, q + 1 + n + 1)
    BY <1>11 DEF Judged
  <1>14. Text(r, q) \o SubSeq(f, 1, n + 1) = Text(r, q + n + 1)
    BY <1>11 DEF Judged
  <1>15. PICK a : a = SubSeq(offered, 1, n)
    OBVIOUS
  <1>16. a \in Seq(TokenIds) /\ Len(a) = n /\ \A i \in 1..n : a[i] = offered[i]
    BY <1>7, <1>15, PrefixFacts
  <1>17. PICK e \in TokenIds : e = w[n + 1] /\ e = Token(r, q + 1 + n + 1)
    <2>1. PICK k \in Nat : k = q + 1 + n + 1
      OBVIOUS
    <2>2. Token(r, k) \in TokenIds
      BY TokenFacts
    <2>3. w[n + 1] = Token(r, k)
      BY <1>13, <2>1
    <2>4. w[n + 1] \in TokenIds /\ w[n + 1] = Token(r, q + 1 + n + 1)
      BY <2>1, <2>2, <2>3
    <2> QED BY <2>4
  <1>18. PICK s : s = a \o <<e>>
    OBVIOUS
  <1>19. /\ s \in Seq(TokenIds) /\ Len(s) = n + 1
         /\ \A i \in 1..n : s[i] = a[i]
         /\ s[n + 1] = e
    <2>1. PICK b \in Seq(TokenIds) : b = <<e>> /\ Len(b) = 1 /\ b[1] = e
      <3>1. <<e>> \in Seq(TokenIds) /\ Len(<<e>>) = 1 /\ <<e>>[1] = e
        OBVIOUS
      <3> QED BY <3>1
    <2>2. /\ a \o b \in Seq(TokenIds) /\ Len(a \o b) = n + 1
          /\ \A i \in 1..n : (a \o b)[i] = a[i]
          /\ (a \o b)[n + 1] = b[1]
      <3>1. /\ a \o b \in Seq(TokenIds) /\ Len(a \o b) = Len(a) + Len(b)
            /\ \A i \in 1..Len(a) : (a \o b)[i] = a[i]
            /\ \A i \in 1..Len(b) : (a \o b)[Len(a) + i] = b[i]
        BY <1>16, <2>1, ConcatFacts
      <3>2. a \o b \in Seq(TokenIds) /\ Len(a \o b) = n + 1
        BY <1>16, <2>1, <3>1
      <3>3. \A i \in 1..n : (a \o b)[i] = a[i]
        BY <1>16, <3>1
      <3>4. (a \o b)[n + 1] = b[1]
        <4>1. 1 \in 1..Len(b) /\ Len(a) = n
          BY <1>16, <2>1
        <4> QED BY <3>1, <4>1
      <3> QED BY <3>2, <3>3, <3>4
    <2> QED BY <1>18, <2>1, <2>2
  <1>20. \A i \in 1..Len(s) : s[i] = Token(r, PromptLen[r] + g + i)
    <2> SUFFICES ASSUME NEW i \in 1..(n + 1) PROVE s[i] = Token(r, PromptLen[r] + g + i)
      BY <1>19
    <2>1. CASE i = n + 1
      <3>1. PromptLen[r] + g + i = q + 1 + n + 1
        BY <1>4, <2>1
      <3> QED BY <1>17, <1>19, <2>1, <3>1
    <2>2. CASE i # n + 1
      <3>1. i \in 1..n
        BY <2>2
      <3>2. PromptLen[r] + g + i = q + 1 + i
        BY <1>4
      <3> QED BY <1>16, <1>19, <1>12, <3>1, <3>2
    <2> QED BY <2>1, <2>2
  <1>21. /\ generated[r] = Output(r, g) /\ g < MaxTokens[r] /\ g < EosIn(r) /\ s # <<>>
         /\ finish_reason[r] = "none"
    <2>1. s # <<>>
      BY <1>19, SeqFacts
    <2> QED BY <1>1, <1>2, <2>1 DEF Good, Emitted
  <1>22. PICK c \in 0..Len(s) :
            /\ Outcome(r, s).emitted \in Seq(TokenIds)
            /\ Len(Outcome(r, s).emitted) = c
            /\ generated[r] \o Outcome(r, s).emitted = Output(r, g + c)
            /\ g + c < EosIn(r) /\ g + c <= MaxTokens[r]
            /\ Outcome(r, s).reason \in {"none", "length", "stop"}
            /\ Outcome(r, s).reason = "none" => c = Len(s) /\ g + c < MaxTokens[r]
            /\ Outcome(r, s).reason = "length" => g + c = MaxTokens[r]
            /\ Outcome(r, s).reason = "stop" => g + c + 1 = EosIn(r)
    BY <1>19, <1>20, <1>21, OutcomeFacts
  <1>23. PICK o : o = Outcome(r, s)
    OBVIOUS
  <1>24. PICK k \in Nat : k = g + c
    BY <1>19
  <1>25. /\ generated'[r] = Output(r, k) /\ prefilled'[r] = prefilled[r]
         /\ pending'[r] = None /\ last_logits'[r] = None
         /\ IF o.reason # "none"
            THEN /\ state'[r] = "done" /\ finish_reason'[r] = o.reason
                 /\ spec'[r] = spec[r] /\ kv'[r] = kv[r] \o f
            ELSE /\ state'[r] = state[r] /\ finish_reason'[r] = finish_reason[r]
                 /\ spec'[r] = [spec[r] EXCEPT !.context = SubSeq(f, 1, n + 1), !.anchor = e,
                                               !.offered = None, !.start = q + c]
                 /\ kv'[r] = SubSeq(kv[r] \o f, 1, q + c)
    <2>1. o = Outcome(r, SubSeq(spec[r].offered, 1, n) \o <<w[n + 1]>>)
      BY <1>5, <1>15, <1>17, <1>18, <1>23
    <2>2. n = Accepted(w, spec[r].offered) /\ spec[r].start = q
      BY <1>2, <1>3, <1>5, <1>11
    <2>3. Len(o.emitted) = c /\ generated[r] \o o.emitted = Output(r, k)
      BY <1>22, <1>23, <1>24
    <2> QED BY <1>6, <1>17, <2>1, <2>2, <2>3 DEF Verifies
  <1>26. /\ prefilled[r] \in Nat /\ kv[r] = Text(r, q) /\ Text(r, q) \in Seq(TokenIds)
         /\ Len(Text(r, q)) = q /\ Text(r, q) \o f \in Seq(TokenIds)
    <2>1. Text(r, q) \in Seq(TokenIds) /\ Len(Text(r, q)) = q
      BY TextFacts
    <2>2. Text(r, q) \o f \in Seq(TokenIds)
      BY <2>1, ConcatFacts
    <2> QED BY <1>1, <1>2, <1>3, <2>1, <2>2 DEF Good, Typed
  <1>27. k \in g..MaxTokens[r] /\ k < EosIn(r) /\ MaxTokens[r] \in Nat
    <2>1. MaxTokens[r] \in Nat /\ g + c <= MaxTokens[r] /\ g + c < EosIn(r) /\ c >= 0
      BY <1>19, <1>22, Sizes
    <2> QED BY <1>24, <2>1
  <1>28. CASE o.reason # "none"
    <2>1. PICK why \in Reasons \ {"none"} : why = o.reason
      BY <1>22, <1>23, <1>28 DEF Reasons
    <2>2. (why = "length" => k = MaxTokens[r]) /\ (why = "stop" => k + 1 = EosIn(r))
      BY <1>22, <1>23, <1>24, <2>1
    <2>3. PICK gen : gen = Output(r, k)
      OBVIOUS
    <2>4. PICK text \in Seq(TokenIds) : text = Text(r, q) \o f
      BY <1>26
    <2>5. k \in Len(generated[r])..MaxTokens[r] /\ k < EosIn(r)
      BY <1>2, <1>27
    <2>6. Good(r, "done", gen, why, prefilled[r], None, None, spec[r], text, FALSE)
      <3>1. None \in TokenIds \cup {None} /\ spec[r] \in SpecDecodeState \cup {None}
            /\ "decoding" # "done"
        BY <1>2
      <3> QED BY <1>1, <1>26, <2>2, <2>3, <2>5, <3>1, Ends
    <2>7. Advances(r, generated[r], finish_reason[r], gen, why)
      BY <1>21, <2>1, <2>2, <2>3, <2>5 DEF Advances
    <2> QED BY <1>25, <1>26, <1>28, <2>1, <2>3, <2>4, <2>6, <2>7 DEF GoodNow
  <1>29. CASE o.reason = "none"
    <2>1. c = n + 1 /\ k < MaxTokens[r]
      BY <1>19, <1>22, <1>23, <1>24, <1>29
    <2>2. /\ k > 0 /\ PromptLen[r] + k = q + 1 + n + 1 /\ PromptLen[r] + k - 1 = q + n + 1
          /\ q + c = q + n + 1 /\ q + n + 1 \in Nat
      <3>1. PICK p \in Nat : p = PromptLen[r]
        BY <1>4
      <3>2. q + 1 = p + g /\ k = g + (n + 1)
        BY <1>4, <1>24, <2>1, <3>1
      <3>3. k > 0 /\ p + k = q + 1 + n + 1 /\ p + k - 1 = q + n + 1 /\ q + n + 1 \in Nat
        BY <3>2
      <3>4. q + c = q + n + 1
        BY <2>1
      <3> QED BY <3>1, <3>3, <3>4
    <2>3. PICK u : u = SubSeq(f, 1, n + 1)
      OBVIOUS
    <2>4. u \in Seq(TokenIds)
      <3>1. PICK m \in Nat : m = n + 1 /\ m <= Len(f)
        BY <1>7, <1>10
      <3>2. SubSeq(f, 1, m) \in Seq(TokenIds)
        BY <3>1, PrefixFacts
      <3> QED BY <2>3, <3>1, <3>2
    <2>5. Text(r, q) \o u = Text(r, q + n + 1)
      BY <1>14, <2>3
    <2>6. kv'[r] = Text(r, q + n + 1)
      <3>1. PICK m \in Nat : m = n + 1
        OBVIOUS
      <3>2. m <= Len(f)
        BY <1>10, <3>1
      <3>3. PICK x : x = q + c
        OBVIOUS
      <3>4. SubSeq(Text(r, q) \o f, 1, x) = Text(r, q) \o SubSeq(f, 1, m)
        <4>1. PICK t \in Seq(TokenIds) : t = Text(r, q)
          BY <1>26
        <4>2. PICK both : both = t \o f
          OBVIOUS
        <4>3. x = Len(t) + m /\ x \in Nat
          <5>1. Len(t) = q
            BY <1>26, <4>1
          <5>2. x = q + m
            BY <2>1, <3>1, <3>3
          <5> QED BY <5>1, <5>2
        <4>4. SubSeq(both, 1, x) = t \o SubSeq(f, 1, m)
          BY <3>2, <4>2, <4>3, FrontReaches
        <4> QED BY <4>1, <4>2, <4>4
      <3>5. kv'[r] = SubSeq(Text(r, q) \o f, 1, x)
        BY <1>25, <1>26, <1>29, <3>3
      <3> QED BY <2>3, <2>5, <3>1, <3>4, <3>5
    <2>7. Text(r, q + n + 1) \in Seq(TokenIds)
      BY <2>2, TextFacts
    <2>8. PICK s2 : s2 = spec'[r]
      OBVIOUS
    <2>9. s2 = [cache |-> Text(r, q), context |-> u, anchor |-> e, offered |-> None,
                start |-> q + n + 1]
      <3>1. PICK x \in SpecDecodeState : x = spec[r] /\ x.cache = Text(r, q)
        BY <1>2, <1>26
      <3>2. s2 = [x EXCEPT !.context = u, !.anchor = e, !.offered = None, !.start = q + n + 1]
        BY <1>25, <1>29, <2>2, <2>3, <2>8, <3>1
      <3>3. [x EXCEPT !.context = u, !.anchor = e, !.offered = None, !.start = q + n + 1]
               = [cache |-> x.cache, context |-> u, anchor |-> e, offered |-> None,
                  start |-> q + n + 1]
        <4>1. PICK v : v = q + n + 1
          OBVIOUS
        <4>2. NextRound(x, u, e, v)
                 = [cache |-> x.cache, context |-> u, anchor |-> e, offered |-> None, start |-> v]
          BY <3>1, NewRound
        <4> QED BY <4>1, <4>2 DEF NextRound
      <3> QED BY <3>1, <3>2, <3>3
    <2>10. s2 \in SpecDecodeState
      BY <1>26, <2>2, <2>4, <2>9 DEF SpecDecodeState
    <2>11. Speculating(r, k, None, s2, Text(r, q + n + 1), FALSE)
      <3>1. /\ s2.anchor = Token(r, PromptLen[r] + k) /\ s2.start = PromptLen[r] + k - 1
            /\ s2.offered = None /\ s2.cache \o s2.context = Text(r, q + n + 1)
        BY <1>17, <2>2, <2>5, <2>9
      <3>2. Text(r, q + n + 1) = Text(r, PromptLen[r] + k - 1)
        BY <2>2
      <3> QED BY <2>2, <2>10, <3>1, <3>2 DEF Speculating
    <2>12. Output(r, k) \in Seq(TokenIds) /\ Len(Output(r, k)) = k
      BY OutputFacts
    <2>13. s2 # None
      BY <2>10, DSparkAssumption
    <2>14. Ready(r, "decoding", Output(r, k), prefilled[r], None, None, s2, Text(r, q + n + 1), FALSE)
      BY <2>11, <2>12, <2>13 DEF Ready
    <2>15. Typed("decoding", Output(r, k), "none", prefilled[r], None, None, s2, Text(r, q + n + 1))
      BY <1>26, <2>7, <2>10, <2>12 DEF Typed, States, Reasons
    <2>16. Emitted(r, Output(r, k), "none", "decoding")
      <3>1. k <= MaxTokens[r]
        BY <1>27
      <3> QED BY <1>27, <2>1, <2>12, <3>1 DEF Emitted
    <2>17. Good(r, "decoding", Output(r, k), "none", prefilled[r], None, None, s2,
                Text(r, q + n + 1), FALSE)
      BY <2>14, <2>15, <2>16 DEF Good
    <2>18. Advances(r, generated[r], finish_reason[r], Output(r, k), "none")
      BY <1>2, <1>21, <1>27 DEF Advances, Reasons
    <2>19. state'[r] = "decoding" /\ finish_reason'[r] = "none"
      BY <1>21, <1>25, <1>29 DEF Speculator, Decoding
    <2> QED BY <1>25, <2>6, <2>8, <2>17, <2>18, <2>19 DEF GoodNow
  <1> QED BY <1>28, <1>29

\* The batch keeps its requests, and each of them keeps what a step of its kind keeps.
LEMMA ForwardKeeps ==
    ASSUME IInv, Forward
    PROVE  IInv' /\ Step /\ \A r \in Request : state[r] = "waiting" => state'[r] # "done"
  <1>1. Domains /\ Places /\ \A q \in Request : GoodNow(q)
    BY ByRequest DEF GoodState
  <1>2. pc = "forward" /\ pc' = "idle" /\ UNCHANGED <<waiting, running, cancel_event>>
    BY DEF Forward
  <1>3. \A r \in Request :
           \/ r \notin ToSet(running) /\ Stays(r)
           \/ /\ r \in ToSet(running) /\ Prefilling(r)
              /\ PrefillsOn(r, Window(PackedLogits, r))
           \/ /\ r \in ToSet(running) /\ Decoding(r) /\ spec[r] = None
              /\ Decodes(r, Window(PackedLogits, r))
           \/ /\ r \in ToSet(running) /\ Decoding(r) /\ spec[r] # None
              /\ Verifies(r, Window(PackedLogits, r))
    BY ForwardMoves
  <1>4. Domains'
    <2>1. /\ state' = [r \in Request |-> state'[r]] /\ spec' = [r \in Request |-> spec'[r]]
          /\ generated' = [r \in Request |-> generated'[r]]
          /\ prefilled' = [r \in Request |-> prefilled'[r]]
          /\ pending' = [r \in Request |-> pending'[r]]
          /\ last_logits' = [r \in Request |-> last_logits'[r]]
          /\ kv' = [r \in Request |-> kv'[r]]
          /\ finish_reason' = [r \in Request |-> finish_reason'[r]]
      BY ForwardMoves
    <2> QED BY <1>1, <1>2, <2>1 DEF Domains
  <1>5. ASSUME NEW r \in Request
        PROVE  \/ state'[r] = state[r]
               \/ /\ state[r] \in {"prefilling", "decoding"}
                  /\ state'[r] \in {"decoding", "done"} /\ r \in ToSet(running)
    <2>1. CASE r \notin ToSet(running) /\ Stays(r)
      BY <2>1 DEF Stays
    <2>2. CASE /\ r \in ToSet(running) /\ Prefilling(r)
               /\ PrefillsOn(r, Window(PackedLogits, r))
      BY <2>2 DEF PrefillsOn, Prefilling
    <2>3. CASE /\ r \in ToSet(running) /\ Decoding(r) /\ spec[r] = None
               /\ Decodes(r, Window(PackedLogits, r))
      BY <2>3 DEF Decodes
    <2>4. CASE /\ r \in ToSet(running) /\ Decoding(r) /\ spec[r] # None
               /\ Verifies(r, Window(PackedLogits, r))
      BY <2>4 DEF Verifies, Decoding
    <2> QED BY <1>3, <2>1, <2>2, <2>3, <2>4
  <1>6. Places'
    <2>1. \A i \in 1..Len(waiting) : waiting[i] \in Request /\ state'[waiting[i]] = "waiting"
      <3>1. \A i \in 1..Len(waiting) : waiting[i] \in Request
        BY <1>1, ElementOfSeq DEF Domains
      <3>2. \A i \in 1..Len(waiting) : state[waiting[i]] = "waiting"
        BY <1>1 DEF Places
      <3> QED BY <1>5, <3>1, <3>2
    <2>2. ToSet(running) \subseteq Request
      BY <1>1, SeqFacts DEF Domains
    <2>3. \A q \in ToSet(running) : state'[q] \notin {"new", "waiting"}
      BY <1>1, <1>5, <2>2 DEF Places
    <2>4. \A q \in Request : Prefilling(q)' \/ Decoding(q)' => q \in ToSet(running)
      BY <1>1, <1>5 DEF Places, Prefilling, Decoding
    <2> QED BY <1>1, <1>2, <2>1, <2>3, <2>4 DEF Places, Distinct
  <1>7. ASSUME NEW r \in Request
        PROVE  /\ GoodNow(r)'
               /\ Advances(r, generated[r], finish_reason[r], generated'[r], finish_reason'[r])
    <2>1. CASE r \notin ToSet(running) /\ Stays(r)
      <3>1. state[r] # "decoding"
        BY <1>1, <2>1 DEF Places, Decoding
      <3> QED BY <1>1, <2>1, <3>1, Untouched DEF Stays
    <2>2. CASE r \in ToSet(running)
      <3>1. PICK w : w = Window(PackedLogits, r)
        OBVIOUS
      <3>2. w \in Seq(TokenIds) /\ Len(w) = Len(Feed(r)) /\ Answers(r, w)
        BY <2>2, <3>1, ForwardMoves DEF Answers
      <3>3. CASE Prefilling(r) /\ PrefillsOn(r, w)
        BY <1>1, <1>2, <3>2, <3>3, PrefillsOnKeeps DEF Answers
      <3>4. CASE Decoding(r) /\ spec[r] = None /\ Decodes(r, w)
        BY <1>1, <1>2, <3>2, <3>4, DecodesKeeps DEF Answers
      <3>5. CASE Decoding(r) /\ spec[r] # None /\ Verifies(r, w)
        <4>1. Speculator(r) /\ Verifies(r, w)
          BY <3>5 DEF Speculator
        <4> QED BY <1>1, <1>2, <3>2, <4>1, VerifiesKeeps
      <3> QED BY <1>3, <2>2, <3>1, <3>3, <3>4, <3>5
    <2> QED BY <1>3, <2>1, <2>2
  <1>8. GoodState'
    BY <1>4, <1>6, <1>7 DEF GoodState
  <1>9. Step
    BY <1>7 DEF Step
  <1> QED BY <1>5, <1>8, <1>9, ByRequestNext

\* Nothing moves.
LEMMA StutterKeeps ==
    ASSUME IInv, UNCHANGED vars
    PROVE  IInv' /\ Step
  <1>1. IInv'
    BY DEF IInv, TypeOK, Places, Distinct, RequestInv, Prefilling, Decoding, vars
  <1>2. Step
    BY DEF Step, Advances, vars
  <1> QED BY <1>1, <1>2

-----------------------------------------------------------------------------
(* The theorems.                                                           *)

\* Every step of the system keeps the invariant and moves outputs only along the text.
LEMMA Keeps ==
    ASSUME IInv, [Next]_vars
    PROVE  IInv' /\ Step
  <1>1. CASE \E r \in Request : Submit(r)
    BY <1>1, SubmitKeeps
  <1>2. CASE \E r \in Request : Cancel(r)
    BY <1>2, CancelKeeps
  <1>3. CASE Draft
    BY <1>3, DraftKeeps
  <1>4. CASE Admit
    BY <1>4, AdmitKeeps
  <1>5. CASE Forward
    BY <1>5, ForwardKeeps
  <1>6. CASE Preempt
    BY <1>6, PreemptKeeps
  <1>7. CASE UNCHANGED vars
    BY <1>7, StutterKeeps
  <1> QED BY <1>1, <1>2, <1>3, <1>4, <1>5, <1>6, <1>7 DEF Next, EngineStep

\* The inductive invariant: every request's slot, drafter and output are at one
\* place of the target's text, whatever is proposed, accepted, preempted or retried.
THEOREM Invariant == Spec => []IInv
  <1>1. Init => IInv
    BY Initially
  <1>2. IInv /\ [Next]_vars => IInv'
    BY Keeps
  <1> QED BY <1>1, <1>2, PTL DEF Spec

\* What the drafter of _draft_speculators and _verify_speculators keeps, its cache
\* and the context it has not folded, is the target's slot, position for position:
\* (INV) of SpecDecodeState holds for every drafter, block size and batch.
THEOREM DrafterMatches == Spec => []DrafterMatchesSlot
  <1>1. ASSUME IInv PROVE DrafterMatchesSlot
    <2> SUFFICES ASSUME NEW r \in Request, Prefilling(r) \/ Decoding(r), spec[r] # None
                 PROVE  /\ spec[r].cache \o (IF spec[r].offered = None THEN spec[r].context ELSE <<>>)
                              = kv[r]
                        /\ spec[r].start # None => spec[r].start = Len(kv[r])
      BY DEF DrafterMatchesSlot
    <2>1. /\ Ready(r, state[r], generated[r], prefilled[r], pending[r], last_logits[r], spec[r],
                   kv[r], pc # "idle")
          /\ kv[r] \in Seq(TokenIds) /\ Len(generated[r]) \in Nat
      BY <1>1, LenProperties DEF IInv, RequestInv, TypeOK
    <2>2. CASE Undrafted(spec[r], kv[r])
      <3>1. /\ spec[r].cache = <<>> /\ spec[r].context = kv[r] /\ spec[r].offered = None
            /\ spec[r].start = None
        BY <2>2 DEF Undrafted
      <3>2. <<>> \o kv[r] = kv[r]
        BY <2>1, ConcatEmptySeq
      <3> QED BY <3>1, <3>2
    <2>3. CASE Decoding(r) /\ ~Undrafted(spec[r], kv[r])
      <3>1. PICK g \in Nat : g = Len(generated[r])
        BY <2>1
      <3>2. Speculating(r, g, last_logits[r], spec[r], kv[r], pc # "idle")
        BY <2>1, <2>3, <3>1 DEF Ready, Decoding
      <3>3. /\ g > 0 /\ spec[r] \in SpecDecodeState
            /\ kv[r] = Text(r, PromptLen[r] + g - 1) /\ spec[r].start = PromptLen[r] + g - 1
            /\ \/ spec[r].offered = None /\ spec[r].cache \o spec[r].context = kv[r]
               \/ spec[r].cache = kv[r] /\ Offers(r, PromptLen[r] + g, spec[r].offered)
        BY <2>3, <3>2 DEF Speculating
      <3>4. spec[r].start = Len(kv[r])
        <4>1. PICK q \in Nat : q = PromptLen[r] + g - 1
          BY <3>3, Sizes
        <4> QED BY <3>3, <4>1, TextFacts
      <3>5. CASE spec[r].offered = None /\ spec[r].cache \o spec[r].context = kv[r]
        BY <3>4, <3>5
      <3>6. CASE spec[r].cache = kv[r] /\ Offers(r, PromptLen[r] + g, spec[r].offered)
        <4>1. spec[r].offered # None
          BY <3>6, DSparkAssumption DEF Offers
        <4>2. kv[r] \o <<>> = kv[r]
          BY <2>1, ConcatEmptySeq
        <4> QED BY <3>4, <3>6, <4>1, <4>2
      <3> QED BY <3>3, <3>5, <3>6
    <2>4. CASE Prefilling(r)
      <3>1. Undrafted(spec[r], kv[r])
        BY <2>1, <2>4 DEF Ready, Prefills, Prefilling
      <3> QED BY <2>2, <3>1
    <2> QED BY <2>2, <2>3, <2>4
  <1> QED BY <1>1, Invariant, PTL

\* A request in the queue ends there only when it was cancelled or the pool could
\* never hold its prompt and headroom: speculation refuses nobody (_admit_waiting).
THEOREM RefusesTooBig == Spec => RefusesOnlyTooBig
  <1>1. ASSUME IInv, [Next]_vars
        PROVE  [\A r \in Request : state[r] = "waiting" /\ state'[r] = "done" =>
                   cancel_event[r] \/ PlainBlocks(r) > NumBlocks]_vars
    <2> SUFFICES ASSUME Next, NEW r \in Request, state[r] = "waiting", state'[r] = "done"
                 PROVE  cancel_event[r] \/ PlainBlocks(r) > NumBlocks
      BY <1>1
    <2>1. CASE \E q \in Request : Submit(q)
      BY <1>1, <2>1 DEF Submit, IInv, TypeOK
    <2>2. CASE \E q \in Request : Cancel(q)
      BY <2>2 DEF Cancel
    <2>3. CASE Admit
      BY <1>1, <2>3, AdmitKeeps
    <2>4. CASE Draft
      BY <1>1, <2>4, DraftKeeps
    <2>5. CASE Forward
      BY <1>1, <2>5, ForwardKeeps
    <2>6. CASE Preempt
      BY <1>1, <2>6, PreemptKeeps
    <2> QED BY <2>1, <2>2, <2>3, <2>4, <2>5, <2>6 DEF Next, EngineStep
  <1> QED BY <1>1, Invariant, PTL DEF Spec, RefusesOnlyTooBig

\* The front of the target's text, as GreedyDecoding has it, is an output.
LEMMA OutputIsFront ==
    ASSUME NEW r \in Request, NEW n \in 0..MaxTokens[r]
    PROVE  SubSeq([i \in 1..(MaxTokens[r] + 1) |-> Token(r, PromptLen[r] + i)], 1, n) = Output(r, n)
  <1>1. PICK m \in Nat : m = MaxTokens[r] + 1 /\ n \in Nat /\ n <= m
    BY Sizes
  <1>2. Output(r, m) \in Seq(TokenIds) /\ Len(Output(r, m)) = m
        /\ \A i \in 1..m : Output(r, m)[i] = Token(r, PromptLen[r] + i)
    BY OutputFacts
  <1>3. PICK s \in Seq(TokenIds) : s = Output(r, m)
    BY <1>2
  <1>4. /\ SubSeq(s, 1, n) \in Seq(TokenIds) /\ Len(SubSeq(s, 1, n)) = n
        /\ \A i \in 1..n : SubSeq(s, 1, n)[i] = s[i]
    BY <1>1, <1>2, <1>3, PrefixFacts
  <1>5. /\ Output(r, n) \in Seq(TokenIds) /\ Len(Output(r, n)) = n
        /\ \A i \in 1..n : Output(r, n)[i] = Token(r, PromptLen[r] + i)
    BY <1>1, OutputFacts
  <1>6. \A i \in 1..n : SubSeq(s, 1, n)[i] = Output(r, n)[i]
    <2>1. \A i \in 1..n : i \in 1..m
      BY <1>1
    <2> QED BY <1>2, <1>3, <1>4, <1>5, <2>1
  <1>7. SubSeq(s, 1, n) = Output(r, n)
    BY <1>4, <1>5, <1>6, SeqEqual
  <1>8. s = [i \in 1..(MaxTokens[r] + 1) |-> Token(r, PromptLen[r] + i)]
    BY <1>1, <1>3 DEF Output
  <1> QED BY <1>7, <1>8

\* "Token-for-token identical to target-alone greedy decoding": with and without a
\* drafter, a request's output grows along the target's own text.
THEOREM OutputMatchesGreedy == Spec => OutputIsGreedy
  <1>1. Init => Greedy!Init
    BY DEF Init, Greedy!Init
  <1>2. ASSUME IInv, [Next]_vars PROVE [Greedy!Next]_(Greedy!vars)
    <2> SUFFICES ASSUME NEW r \in Request
                 PROVE  \/ Greedy!Moves(r)
                        \/ generated'[r] = generated[r] /\ finish_reason'[r] = finish_reason[r]
      BY DEF Greedy!Next, Greedy!vars
    <2>1. Advances(r, generated[r], finish_reason[r], generated'[r], finish_reason'[r])
      BY <1>2, Keeps DEF Step
    <2>2. CASE generated'[r] = generated[r] /\ finish_reason'[r] = finish_reason[r]
      BY <2>2
    <2>3. CASE ~(generated'[r] = generated[r] /\ finish_reason'[r] = finish_reason[r])
      <3>1. PICK n \in Len(generated[r])..MaxTokens[r] :
               /\ n < EosIn(r) /\ generated'[r] = Output(r, n)
               /\ finish_reason'[r] = "length" => n = MaxTokens[r]
               /\ finish_reason'[r] = "stop" => n + 1 = EosIn(r)
        BY <2>1, <2>3 DEF Advances
      <3>2. finish_reason[r] = "none" /\ finish_reason'[r] \in Reasons
        BY <2>1, <2>3 DEF Advances
      <3>3. n \in 0..MaxTokens[r]
        <4>1. Len(generated[r]) \in Nat /\ MaxTokens[r] \in Nat
          BY <1>2, Sizes, LenProperties DEF IInv, TypeOK
        <4> QED BY <3>1, <4>1
      <3>4. SubSeq([i \in 1..(MaxTokens[r] + 1) |-> Token(r, PromptLen[r] + i)], 1, n) = generated'[r]
        BY <3>1, <3>3, OutputIsFront
      <3>5. PICK target : target = [q \in Request |->
                                      [i \in 1..(MaxTokens[q] + 1) |-> Token(q, PromptLen[q] + i)]]
        OBVIOUS
      <3>6. SubSeq(target[r], 1, n) = generated'[r]
        BY <3>4, <3>5
      <3> QED BY <3>1, <3>2, <3>5, <3>6 DEF Greedy!Moves, EosIn, Reasons
    <2> QED BY <2>2, <2>3
  <1> QED BY <1>1, <1>2, Invariant, PTL DEF Spec, OutputIsGreedy, Greedy!Spec
=============================================================================
