-------------------------- MODULE ToolAgentLoopProofs --------------------------
(***************************************************************************)
(* The output of a tool agent loop, for every length of the prompt and the *)
(* response, every limit on turns and calls and every number of versions.  *)
(***************************************************************************)
EXTENDS ToolAgentLoop, SequenceTheorems, TLAPS

-----------------------------------------------------------------------------
(* The invariants *)

Versions == 0..LastVersion
Tokens == Versions \cup {PromptToken, ToolToken}

\* A token of the response with its mask and its log-probability.
Row(token, bit, lp) ==
  \/ token \in Versions /\ bit = 1 /\ lp = "lp"
  \/ token = ToolToken /\ bit = 0 /\ lp = "zero"

\* Tokens, mask and log-probabilities, the tokens with the prompt in front.
Aligned(tokens, bits, lps) ==
  /\ tokens \in Seq(Tokens) /\ bits \in Seq({0, 1}) /\ lps \in Seq({"lp", "zero"})
  /\ Len(lps) = Len(bits) /\ Len(bits) < Len(tokens)
  /\ \A i \in 1..(Len(tokens) - Len(bits)) : tokens[i] = PromptToken
  /\ \A i \in 1..Len(bits) : Row(tokens[Len(tokens) - Len(bits) + i], bits[i], lps[i])

\* Where the trajectory stands: nothing before the prompt, and an answer before
\* the tools and the end.
AlignedInv ==
  /\ agentState \in {"pending", "generating", "tools", "terminated"}
  /\ agentState = "pending" => mask = <<>> /\ logprobs = <<>>
  /\ agentState # "pending" => Aligned(ids, mask, logprobs)
  /\ agentState \in {"tools", "terminated"} => Len(mask) > 0
  /\ version \in Versions /\ toolCalls \in Nat

\* The generated tokens of a list are of the versions lo to hi.
Within(tokens, lo, hi) ==
  \A i \in 1..Len(tokens) : tokens[i] \in Versions => lo <= tokens[i] /\ tokens[i] <= hi

\* The window covers the generated tokens and does not pass the version of the
\* servers, so that a turn under that version, or a later one, extends it.
WindowInv ==
  /\ ids \in Seq(Tokens) /\ version \in Versions /\ toolCalls \in Nat
  /\ \/ extraFields = <<>> /\ \A i \in 1..Len(ids) : ids[i] \notin Versions
     \/ \E lo, hi \in Versions :
          extraFields = <<lo, hi>> /\ lo <= hi /\ hi <= version /\ Within(ids, lo, hi)

-----------------------------------------------------------------------------
(* Sequences *)

\* Copies of one value.
LEMMA CopiesParts ==
  ASSUME NEW S, NEW x \in S, NEW n \in Nat
  PROVE  /\ Copies(x, n) \in Seq(S) /\ Len(Copies(x, n)) = n
         /\ \A i \in 1..n : Copies(x, n)[i] = x
<1>1. Copies(x, n) \in Seq(S)
  BY IsASeq DEF Copies
<1> QED BY <1>1, LenProperties DEF Copies

\* The elements of a concatenation, from either end.
LEMMA ConcatParts ==
  ASSUME NEW S, NEW s \in Seq(S), NEW t \in Seq(S)
  PROVE  /\ s \o t \in Seq(S) /\ Len(s \o t) = Len(s) + Len(t)
         /\ \A i \in 1..Len(s) : (s \o t)[i] = s[i]
         /\ \A i \in 1..Len(t) : (s \o t)[Len(s) + i] = t[i]
         /\ \A i \in 1..Len(s \o t) : i \in 1..Len(s) \/ (i - Len(s) \in 1..Len(t) /\ (s \o t)[i] = t[i - Len(s)])
<1>1. Len(s) \in Nat /\ Len(t) \in Nat
  BY LenProperties
<1>2. /\ s \o t \in Seq(S) /\ Len(s \o t) = Len(s) + Len(t)
      /\ \A i \in 1 .. Len(s) + Len(t) : (s \o t)[i] = IF i <= Len(s) THEN s[i] ELSE t[i - Len(s)]
  BY ConcatProperties
<1> QED BY <1>1, <1>2

\* A turn that appends as many tokens, bits and log-probabilities, each with
\* the others, leaves them aligned.
LEMMA AlignedGrows ==
  ASSUME NEW d \in Seq(Tokens), NEW b \in Seq({0, 1}), NEW l \in Seq({"lp", "zero"}),
         NEW x \in Seq(Tokens), NEW y \in Seq({0, 1}), NEW z \in Seq({"lp", "zero"})
  PROVE  Aligned(d, b, l) /\ Len(x) = Len(y) /\ Len(z) = Len(y)
           /\ (\A i \in 1..Len(y) : Row(x[i], y[i], z[i]))
         => Aligned(d \o x, b \o y, l \o z) /\ Len(b \o y) = Len(b) + Len(y)
<1>a. /\ d \o x \in Seq(Tokens) /\ Len(d \o x) = Len(d) + Len(x)
      /\ \A i \in 1..Len(d) : (d \o x)[i] = d[i]
      /\ \A i \in 1..Len(x) : (d \o x)[Len(d) + i] = x[i]
  BY ConcatParts
<1>3. /\ b \o y \in Seq({0, 1}) /\ Len(b \o y) = Len(b) + Len(y)
      /\ \A i \in 1..Len(b) : (b \o y)[i] = b[i]
      /\ \A i \in 1..Len(y) : (b \o y)[Len(b) + i] = y[i]
  BY ConcatParts
<1>b. /\ l \o z \in Seq({"lp", "zero"}) /\ Len(l \o z) = Len(l) + Len(z)
      /\ \A i \in 1..Len(l) : (l \o z)[i] = l[i]
      /\ \A i \in 1..Len(z) : (l \o z)[Len(l) + i] = z[i]
  BY ConcatParts
<1> SUFFICES ASSUME Aligned(d, b, l), Len(x) = Len(y), Len(z) = Len(y),
                    \A i \in 1..Len(y) : Row(x[i], y[i], z[i])
             PROVE  Aligned(d \o x, b \o y, l \o z) /\ Len(b \o y) = Len(b) + Len(y)
  OBVIOUS
<1>1. /\ Len(d) \in Nat /\ Len(b) \in Nat /\ Len(l) \in Nat /\ Len(y) \in Nat
      /\ Len(l) = Len(b) /\ Len(b) < Len(d)
  BY LenProperties DEF Aligned
<1>2. /\ d \o x \in Seq(Tokens) /\ Len(d \o x) = Len(d) + Len(y)
      /\ \A i \in 1..Len(d) : (d \o x)[i] = d[i]
      /\ \A i \in 1..Len(y) : (d \o x)[Len(d) + i] = x[i]
  BY <1>a
<1>4. /\ l \o z \in Seq({"lp", "zero"}) /\ Len(l \o z) = Len(b) + Len(y)
      /\ \A i \in 1..Len(b) : (l \o z)[i] = l[i]
      /\ \A i \in 1..Len(y) : (l \o z)[Len(b) + i] = z[i]
  BY <1>b, <1>1
<1>5. Len(d \o x) - Len(b \o y) = Len(d) - Len(b)
  BY <1>1, <1>2, <1>3
<1>6. \A i \in 1..(Len(d) - Len(b)) : (d \o x)[i] = PromptToken
  <2>1. \A i \in 1..(Len(d) - Len(b)) : i \in 1..Len(d)
    BY <1>1
  <2> QED BY <1>2, <2>1 DEF Aligned
<1>7. ASSUME NEW i \in 1..(Len(b) + Len(y))
      PROVE  Row((d \o x)[Len(d) - Len(b) + i], (b \o y)[i], (l \o z)[i])
  <2>1. CASE i <= Len(b)
    <3>1. i \in 1..Len(b) /\ Len(d) - Len(b) + i \in 1..Len(d)
      BY <1>1, <2>1
    <3> QED BY <1>2, <1>3, <1>4, <3>1 DEF Aligned
  <2>2. CASE i > Len(b)
    <3>1. i - Len(b) \in 1..Len(y) /\ Len(b) + (i - Len(b)) = i
          /\ Len(d) + (i - Len(b)) = Len(d) - Len(b) + i
      BY <1>1, <2>2
    <3>2. /\ (d \o x)[Len(d) + (i - Len(b))] = x[i - Len(b)]
          /\ (b \o y)[Len(b) + (i - Len(b))] = y[i - Len(b)]
          /\ (l \o z)[Len(b) + (i - Len(b))] = z[i - Len(b)]
      BY <1>2, <1>3, <1>4, <3>1
    <3> QED BY <3>1, <3>2
  <2> QED BY <1>1, <2>1, <2>2
<1>8. Len(b \o y) < Len(d \o x)
  BY <1>1, <1>2, <1>3
<1> QED BY <1>2, <1>3, <1>4, <1>5, <1>6, <1>7, <1>8 DEF Aligned

\* The tokens of one turn: of the version it began with, then of a later one.
LEMMA TurnTokens ==
  ASSUME NEW d \in Seq(Tokens), NEW v \in Versions, NEW w \in Versions, v <= w,
         NEW n \in Nat, NEW k \in 0..n
  PROVE  \E x \in Seq(Tokens) :
           /\ d \o Copies(v, k) \o Copies(w, n - k) = d \o x
           /\ Len(x) = n
           /\ \A i \in 1..n : x[i] \in Versions /\ v <= x[i] /\ x[i] <= w
<1>1. k \in Nat /\ n - k \in Nat /\ v \in Tokens /\ w \in Tokens
  BY DEF Tokens
<1> DEFINE a == Copies(v, k)
           b == Copies(w, n - k)
<1>2. /\ a \in Seq(Tokens) /\ Len(a) = k /\ \A i \in 1..k : a[i] = v
      /\ b \in Seq(Tokens) /\ Len(b) = n - k /\ \A i \in 1..(n - k) : b[i] = w
  BY <1>1, CopiesParts
<1> HIDE DEF a, b
<1>3. /\ a \o b \in Seq(Tokens) /\ Len(a \o b) = Len(a) + Len(b)
      /\ \A i \in 1..Len(a) : (a \o b)[i] = a[i]
      /\ \A i \in 1..Len(a \o b) :
           i \in 1..Len(a) \/ (i - Len(a) \in 1..Len(b) /\ (a \o b)[i] = b[i - Len(a)])
  <2>1. a \in Seq(Tokens) /\ b \in Seq(Tokens)
    BY <1>2
  <2> QED BY <2>1, ConcatParts
<1>4. Len(a \o b) = n
  BY <1>1, <1>2, <1>3
<1>5. \A i \in 1..n : (a \o b)[i] = v \/ (a \o b)[i] = w
  BY <1>2, <1>3, <1>4
<1>6. v \in Int /\ w \in Int /\ v <= v /\ w <= w
  BY DEF Versions
<1>7. (d \o a) \o b = d \o (a \o b)
  BY <1>2, ConcatAssociative, SMTT(30)
<1> QED BY <1>3, <1>4, <1>5, <1>6, <1>7 DEF a, b

\* Every element of a concatenation comes from one of the two.
LEMMA ConcatElements ==
  ASSUME NEW S, NEW s \in Seq(S), NEW t \in Seq(S)
  PROVE  \A i \in 1..Len(s \o t) :
           \/ \E j \in 1..Len(s) : (s \o t)[i] = s[j]
           \/ \E j \in 1..Len(t) : (s \o t)[i] = t[j]
<1>1. /\ \A i \in 1..Len(s) : (s \o t)[i] = s[i]
      /\ \A i \in 1..Len(s \o t) : i \in 1..Len(s) \/ (i - Len(s) \in 1..Len(t) /\ (s \o t)[i] = t[i - Len(s)])
  BY ConcatParts
<1> QED BY <1>1

-----------------------------------------------------------------------------
(* Prompt, response, mask and log-probabilities *)

\* The prompt alone is aligned.
LEMMA PromptAligned ==
  ASSUME NEW n \in 1..PromptLength, PromptLength \in Nat
  PROVE  Aligned(Copies(PromptToken, n), <<>>, <<>>)
<1>1. n \in Nat /\ n > 0 /\ PromptToken \in Tokens
  BY DEF Tokens
<1>2. /\ Copies(PromptToken, n) \in Seq(Tokens) /\ Len(Copies(PromptToken, n)) = n
      /\ \A i \in 1..n : Copies(PromptToken, n)[i] = PromptToken
  BY <1>1, CopiesParts
<1>3. Len(<<>>) = 0 /\ <<>> \in Seq({0, 1}) /\ <<>> \in Seq({"lp", "zero"}) /\ 1..0 = {}
  OBVIOUS
<1> QED BY <1>1, <1>2, <1>3 DEF Aligned

\* An answer keeps the state aligned.
LEMMA AnswerAligned ==
  ASSUME NEW d, NEW b, NEW l, Aligned(d, b, l),
         NEW v \in Versions, NEW w \in Versions, v <= w, NEW n \in Nat, NEW k \in 0..n
  PROVE  /\ Aligned(d \o Copies(v, k) \o Copies(w, n - k), b \o Copies(1, n), l \o Copies("lp", n))
         /\ Len(b \o Copies(1, n)) = Len(b) + n
<1>0. d \in Seq(Tokens) /\ b \in Seq({0, 1}) /\ l \in Seq({"lp", "zero"})
  BY DEF Aligned
<1>1. PICK x \in Seq(Tokens) :
           /\ d \o Copies(v, k) \o Copies(w, n - k) = d \o x
           /\ Len(x) = n
           /\ \A i \in 1..n : x[i] \in Versions /\ v <= x[i] /\ x[i] <= w
  BY <1>0, TurnTokens, ZenonT(40)
<1> DEFINE y == Copies(1, n)
           z == Copies("lp", n)
<1>2. y \in Seq({0, 1}) /\ Len(y) = n /\ \A i \in 1..n : y[i] = 1
  BY CopiesParts
<1>3. z \in Seq({"lp", "zero"}) /\ Len(z) = n /\ \A i \in 1..n : z[i] = "lp"
  BY CopiesParts
<1> HIDE DEF y, z
<1>4. Len(x) = Len(y) /\ Len(z) = Len(y) /\ \A i \in 1..Len(y) : Row(x[i], y[i], z[i])
  BY <1>1, <1>2, <1>3 DEF Row
<1>5. Aligned(d \o x, b \o y, l \o z) /\ Len(b \o y) = Len(b) + Len(y)
  <2>1. y \in Seq({0, 1}) /\ z \in Seq({"lp", "zero"}) /\ x \in Seq(Tokens)
    BY <1>1, <1>2, <1>3
  <2>2. Aligned(d, b, l) /\ Len(x) = Len(y) /\ Len(z) = Len(y)
          /\ (\A i \in 1..Len(y) : Row(x[i], y[i], z[i]))
        => Aligned(d \o x, b \o y, l \o z) /\ Len(b \o y) = Len(b) + Len(y)
    BY <1>0, <2>1, AlignedGrows
  <2> QED BY <1>4, <2>2
<1> QED BY <1>1, <1>2, <1>5 DEF y, z

\* Tool messages keep the state aligned.
LEMMA ToolsAligned ==
  ASSUME NEW d, NEW b, NEW l, Aligned(d, b, l), NEW n \in Nat
  PROVE  /\ Aligned(d \o Copies(ToolToken, n), b \o Copies(0, n), l \o Copies("zero", n))
         /\ Len(b \o Copies(0, n)) = Len(b) + n
<1>0. d \in Seq(Tokens) /\ b \in Seq({0, 1}) /\ l \in Seq({"lp", "zero"}) /\ ToolToken \in Tokens
  BY DEF Aligned, Tokens
<1> DEFINE x == Copies(ToolToken, n)
           y == Copies(0, n)
           z == Copies("zero", n)
<1>1. x \in Seq(Tokens) /\ Len(x) = n /\ \A i \in 1..n : x[i] = ToolToken
  BY <1>0, CopiesParts
<1>2. y \in Seq({0, 1}) /\ Len(y) = n /\ \A i \in 1..n : y[i] = 0
  BY CopiesParts
<1>3. z \in Seq({"lp", "zero"}) /\ Len(z) = n /\ \A i \in 1..n : z[i] = "zero"
  BY CopiesParts
<1> HIDE DEF x, y, z
<1>4. Len(x) = Len(y) /\ Len(z) = Len(y) /\ \A i \in 1..Len(y) : Row(x[i], y[i], z[i])
  BY <1>1, <1>2, <1>3 DEF Row
<1>5. Aligned(d \o x, b \o y, l \o z) /\ Len(b \o y) = Len(b) + Len(y)
  <2>1. y \in Seq({0, 1}) /\ z \in Seq({"lp", "zero"}) /\ x \in Seq(Tokens)
    BY <1>1, <1>2, <1>3
  <2>2. Aligned(d, b, l) /\ Len(x) = Len(y) /\ Len(z) = Len(y)
          /\ (\A i \in 1..Len(y) : Row(x[i], y[i], z[i]))
        => Aligned(d \o x, b \o y, l \o z) /\ Len(b \o y) = Len(b) + Len(y)
    BY <1>0, <2>1, AlignedGrows
  <2> QED BY <1>4, <2>2
<1> QED BY <1>2, <1>5 DEF x, y, z

\* The constants as numbers.
LEMMA ToolConstants ==
  /\ PromptLength \in Nat /\ ResponseLength \in Nat /\ ResponseLength > 0
  /\ MaxParallelCalls \in Nat /\ MaxCalls \in Nat /\ MaxToolTokens \in Nat
  /\ MinTokens \in Nat /\ LastVersion \in Nat
  /\ PromptToken # ToolToken /\ PromptToken \notin Versions /\ ToolToken \notin Versions
BY ToolAssumption DEF Versions

\* Every handler keeps the state aligned, and an answer that is not empty comes
\* before the tools and the end.
LEMMA AlignedStep ==
  ASSUME MinTokens >= 1, AlignedInv, [ToolNext]_toolVars
  PROVE  AlignedInv'
<1> USE ToolConstants
<1>1. CASE Synchronise
  BY <1>1 DEF Synchronise, AlignedInv, Versions
<1>2. CASE HandlePending
  <2>1. PICK n \in 1..PromptLength : ids' = Copies(PromptToken, n)
    BY <1>2 DEF HandlePending
  <2>2. Aligned(ids', mask, logprobs)
    BY <1>2, <2>1, PromptAligned DEF HandlePending, AlignedInv
  <2> QED BY <1>2, <2>2 DEF HandlePending, AlignedInv
<1>3. CASE HandleGenerating
  <2>1. PICK n \in MinTokens..(PromptLength + ResponseLength - Len(ids)),
             last \in version..LastVersion, c \in 0..MaxCalls : \E switch \in 0..n :
       /\ ids' = ids \o Copies(version, switch) \o Copies(last, n - switch)
       /\ mask' = mask \o Copies(1, n)
       /\ logprobs' = logprobs \o Copies("lp", n)
       /\ version' = last
       /\ toolCalls' = c
       /\ agentState' = AfterGeneration(Len(mask) + n, c)
    BY <1>3 DEF HandleGenerating
  <2>0. PICK switch \in 0..n : ids' = ids \o Copies(version, switch) \o Copies(last, n - switch)
    BY <2>1
  <2>2. Aligned(ids, mask, logprobs) /\ version \in Versions
    BY <1>3 DEF HandleGenerating, AlignedInv
  <2>3. Len(ids) \in Nat /\ Len(mask) \in Nat
    BY <2>2, LenProperties DEF Aligned
  <2>4. n \in Nat /\ n >= 1 /\ c \in Nat
    BY <2>3
  <2>5. last \in Versions /\ version <= last
    BY <2>2 DEF Versions
  <2>6. Aligned(ids', mask', logprobs') /\ Len(mask') = Len(mask) + n
    BY <2>0, <2>1, <2>2, <2>4, <2>5, AnswerAligned
  <2>7. Len(mask') > 0
    BY <2>3, <2>4, <2>6
  <2>8. agentState' \in {"terminated", "tools"}
    BY <2>1 DEF AfterGeneration
  <2> QED BY <2>1, <2>4, <2>5, <2>6, <2>7, <2>8 DEF AlignedInv
<1>4. CASE HandleProcessingTools
  <2> DEFINE calls == IF toolCalls < MaxParallelCalls THEN toolCalls ELSE MaxParallelCalls
  <2>1. PICK t \in calls..MaxToolTokens :
       IF Len(mask) + t >= ResponseLength
       THEN ToolsOverflow(t)
       ELSE /\ ids' = ids \o Copies(ToolToken, t)
            /\ mask' = mask \o Copies(0, t)
            /\ logprobs' = IF logprobs # <<>> THEN logprobs \o Copies("zero", t) ELSE logprobs
            /\ userTurns' = userTurns + 1
            /\ agentState' = "generating"
    BY <1>4 DEF HandleProcessingTools
  <2>2. /\ Aligned(ids, mask, logprobs) /\ version \in Versions /\ toolCalls \in Nat /\ Len(mask) > 0
        /\ UNCHANGED <<version, toolCalls>> /\ agentState = "tools"
    BY <1>4 DEF HandleProcessingTools, AlignedInv
  <2>3. t \in Nat
    BY <2>2
  <2>4. logprobs # <<>>
    BY <2>2 DEF Aligned
  <2>5. CASE ToolsOverflow(t)
    BY <2>2, <2>5 DEF ToolsOverflow, AlignedInv
  <2>6. CASE /\ ids' = ids \o Copies(ToolToken, t)
             /\ mask' = mask \o Copies(0, t)
             /\ logprobs' = logprobs \o Copies("zero", t)
             /\ agentState' = "generating"
    <3>1. Aligned(ids', mask', logprobs')
      BY <2>2, <2>3, <2>6, ToolsAligned
    <3> QED BY <2>2, <2>6, <3>1 DEF AlignedInv
  <2> QED BY <2>1, <2>4, <2>5, <2>6
<1>5. CASE UNCHANGED toolVars
  BY <1>5 DEF toolVars, AlignedInv
<1> QED BY <1>1, <1>2, <1>3, <1>4, <1>5 DEF ToolNext, Terminated

\* Cutting to the length of the response keeps the first elements.
LEMMA TruncatedParts ==
  ASSUME NEW S, NEW s \in Seq(S)
  PROVE  /\ Truncated(s) \in Seq(S)
         /\ Len(Truncated(s)) = IF Len(s) < ResponseLength THEN Len(s) ELSE ResponseLength
         /\ \A i \in 1..Len(Truncated(s)) : i \in 1..Len(s) /\ Truncated(s)[i] = s[i]
<1> DEFINE n == IF Len(s) < ResponseLength THEN Len(s) ELSE ResponseLength
<1>1. /\ n \in Nat /\ Len(s) \in Nat /\ n <= Len(s)
      /\ \A i \in 1..n : i \in 1..Len(s) /\ 1 + i - 1 = i
  BY ToolConstants, LenProperties
<1>2. \A i \in 1..n : s[i] \in S
  BY <1>1, ElementOfSeq
<1> HIDE DEF n
<1>3. /\ SubSeq(s, 1, n) \in Seq(S)
      /\ Len(SubSeq(s, 1, n)) = IF 1 <= n THEN n - 1 + 1 ELSE 0
      /\ \A i \in 1..(n - 1 + 1) : SubSeq(s, 1, n)[i] = s[1 + i - 1]
  BY <1>1, <1>2, SubSeqProperties
<1>4. n - 1 + 1 = n /\ Len(SubSeq(s, 1, n)) = n
  BY <1>1, <1>3
<1>5. Truncated(s) = SubSeq(s, 1, n)
  BY DEF Truncated, n
<1>6. \A i \in 1..n : SubSeq(s, 1, n)[i] = s[i]
  BY <1>1, <1>3, <1>4
<1>7. Len(SubSeq(s, 1, n)) = IF Len(s) < ResponseLength THEN Len(s) ELSE ResponseLength
  BY <1>4 DEF n
<1> QED BY <1>1, <1>3, <1>4, <1>5, <1>6, <1>7

\* An aligned state with an answer has an output whose parts belong together.
LEMMA OutputAligned ==
  ASSUME Aligned(ids, mask, logprobs), Len(mask) > 0
  PROVE  /\ ToSet(PromptIds) = {PromptToken}
         /\ Len(ResponseIds) = Len(Truncated(mask)) /\ Len(ResponseIds) = Len(Truncated(logprobs))
         /\ \A i \in DOMAIN ResponseIds :
              IF mask[i] = 1 THEN ResponseIds[i] \notin {PromptToken, ToolToken} /\ logprobs[i] = "lp"
                             ELSE ResponseIds[i] = ToolToken /\ logprobs[i] = "zero"
<1>1. ids \in Seq(Tokens) /\ mask \in Seq({0, 1}) /\ logprobs \in Seq({"lp", "zero"})
  BY DEF Aligned
<1> DEFINE p == Len(ids) - Len(mask)
           tail == SubSeq(ids, p + 1, Len(ids))
<1>2. /\ Len(ids) \in Nat /\ Len(mask) \in Nat /\ p \in Nat /\ p > 0 /\ p <= Len(ids)
      /\ Len(ids) = p + Len(mask) /\ Len(logprobs) = Len(mask)
  BY <1>1, LenProperties DEF Aligned
<1>3. /\ \A i \in 1..p : ids[i] = PromptToken
      /\ \A i \in 1..Len(mask) : Row(ids[p + i], mask[i], logprobs[i])
  BY DEF Aligned
<1>4. \A i \in 1..Len(ids) : ids[i] \in Tokens
  BY <1>1, ElementOfSeq
<1>5. mask # <<>>
  OBVIOUS
<1>6. ToSet(PromptIds) = {PromptToken}
  <2> HIDE DEF p
  <2>1. /\ SubSeq(ids, 1, p) \in Seq(Tokens)
        /\ Len(SubSeq(ids, 1, p)) = IF 1 <= p THEN p - 1 + 1 ELSE 0
        /\ \A i \in 1..(p - 1 + 1) : SubSeq(ids, 1, p)[i] = ids[1 + i - 1]
    <3>1. \A i \in 1..p : ids[i] \in Tokens
      BY <1>2, <1>4
    <3> QED BY <1>2, <3>1, SubSeqProperties
  <2>2. p - 1 + 1 = p /\ 1 \in 1..p /\ \A i \in 1..p : 1 + i - 1 = i
    BY <1>2
  <2>3. DOMAIN SubSeq(ids, 1, p) = 1..p
    BY <1>2, <2>1, <2>2, LenProperties
  <2>4. \A i \in 1..p : SubSeq(ids, 1, p)[i] = PromptToken
    BY <1>3, <2>1, <2>2
  <2>5. PromptIds = SubSeq(ids, 1, p)
    BY DEF PromptIds, p
  <2> QED BY <2>2, <2>3, <2>4, <2>5, ZenonT(40) DEF ToSet
<1>7. /\ tail \in Seq(Tokens) /\ Len(tail) = Len(mask)
      /\ \A i \in 1..Len(mask) : tail[i] = ids[p + i]
  <2> HIDE DEF p
  <2>0. \A i \in (p + 1)..Len(ids) : ids[i] \in Tokens
    BY <1>2, <1>4
  <2>1. /\ tail \in Seq(Tokens)
        /\ Len(tail) = IF p + 1 <= Len(ids) THEN Len(ids) - (p + 1) + 1 ELSE 0
        /\ \A i \in 1..(Len(ids) - (p + 1) + 1) : tail[i] = ids[(p + 1) + i - 1]
    <3>1. p + 1 \in Int /\ Len(ids) \in Int
      BY <1>2
    <3> QED BY <2>0, <3>1, SubSeqProperties
  <2> HIDE DEF tail
  <2>2. Len(ids) - (p + 1) + 1 = Len(mask) /\ p + 1 <= Len(ids)
    BY <1>2
  <2>3. \A i \in 1..Len(mask) : (p + 1) + i - 1 = p + i
    BY <1>2
  <2> QED BY <2>1, <2>2, <2>3
<1>8. ResponseIds = Truncated(tail)
  BY <1>5 DEF ResponseIds
<1> HIDE DEF tail, p
<1>9. /\ Truncated(tail) \in Seq(Tokens)
      /\ Len(Truncated(tail)) = IF Len(tail) < ResponseLength THEN Len(tail) ELSE ResponseLength
      /\ \A i \in 1..Len(Truncated(tail)) : i \in 1..Len(tail) /\ Truncated(tail)[i] = tail[i]
  <2>1. tail \in Seq(Tokens)
    BY <1>7
  <2> QED BY <2>1, TruncatedParts
<1>10. Len(Truncated(mask)) = IF Len(mask) < ResponseLength THEN Len(mask) ELSE ResponseLength
  BY <1>1, TruncatedParts
<1>11. Len(Truncated(logprobs)) = IF Len(logprobs) < ResponseLength THEN Len(logprobs) ELSE ResponseLength
  BY <1>1, TruncatedParts
<1>12. Len(ResponseIds) = Len(Truncated(mask)) /\ Len(ResponseIds) = Len(Truncated(logprobs))
  BY <1>2, <1>7, <1>8, <1>9, <1>10, <1>11
<1>13. ASSUME NEW i \in DOMAIN ResponseIds
       PROVE  IF mask[i] = 1 THEN ResponseIds[i] \notin {PromptToken, ToolToken} /\ logprobs[i] = "lp"
                             ELSE ResponseIds[i] = ToolToken /\ logprobs[i] = "zero"
  <2>1. i \in 1..Len(Truncated(tail))
    BY <1>8, <1>9, <1>13, LenProperties
  <2>2. i \in 1..Len(mask) /\ ResponseIds[i] = ids[p + i]
    BY <1>7, <1>8, <1>9, <2>1
  <2>3. Row(ids[p + i], mask[i], logprobs[i])
    BY <1>3, <2>2
  <2> QED BY <2>2, <2>3, ToolConstants DEF Row
<1> QED BY <1>6, <1>12, <1>13

\* When every generation gives a token, the output of a trajectory is aligned
\* wherever it ended: at a limit of turns or tokens, without tool calls, or with
\* tool messages that do not fit.  (prompt_ids[-len(response_mask):] of an empty
\* mask would be the prompt.)
THEOREM ResponseAlignedHolds ==
  ASSUME MinTokens >= 1
  PROVE  ToolSpec => []ResponseAligned
<1>1. ToolInit => AlignedInv
  BY ToolConstants DEF ToolInit, AlignedInv, Versions
<1>2. AlignedInv /\ [ToolNext]_toolVars => AlignedInv'
  BY AlignedStep
<1>3. AlignedInv => ResponseAligned
  BY OutputAligned DEF AlignedInv, ResponseAligned
<1> QED BY <1>1, <1>2, <1>3, PTL DEF ToolSpec

-----------------------------------------------------------------------------
(* The version window *)

\* Tokens that are not generated leave the window as it is.
LEMMA WindowPasses ==
  ASSUME NEW d \in Seq(Tokens), NEW token \in {PromptToken, ToolToken}, NEW n \in Nat
  PROVE  /\ d \o Copies(token, n) \in Seq(Tokens)
         /\ \A i \in 1..Len(d \o Copies(token, n)) : (d \o Copies(token, n))[i] \in Versions =>
              \E j \in 1..Len(d) : (d \o Copies(token, n))[i] = d[j]
<1> DEFINE x == Copies(token, n)
<1>1. token \in Tokens /\ token \notin Versions
  BY ToolConstants DEF Tokens
<1>2. x \in Seq(Tokens) /\ Len(x) = n /\ \A i \in 1..n : x[i] = token
  BY <1>1, CopiesParts
<1> HIDE DEF x
<1>3. /\ d \o x \in Seq(Tokens)
      /\ \A i \in 1..Len(d \o x) :
           \/ \E j \in 1..Len(d) : (d \o x)[i] = d[j]
           \/ \E j \in 1..Len(x) : (d \o x)[i] = x[j]
  <2>1. x \in Seq(Tokens)
    BY <1>2
  <2> QED BY <2>1, ConcatParts, ConcatElements
<1>4. \A i \in 1..Len(d \o x) : (d \o x)[i] \in Versions => \E j \in 1..Len(d) : (d \o x)[i] = d[j]
  BY <1>1, <1>2, <1>3
<1> QED BY <1>3, <1>4 DEF x

\* Every handler keeps the window: a turn of the versions v to w extends it to
\* w, and w is 0 only when all versions so far are.
LEMMA WindowStep ==
  ASSUME WindowInv, [ToolNext]_toolVars
  PROVE  WindowInv'
<1>1. CASE Synchronise
  <2>1. UNCHANGED <<ids, extraFields, toolCalls>> /\ version' = version + 1 /\ version < LastVersion
    BY <1>1 DEF Synchronise
  <2>2. version' \in Versions /\ \A hi \in Versions : hi <= version => hi <= version'
    BY <2>1, ToolConstants DEF WindowInv, Versions
  <2> QED BY <2>1, <2>2 DEF WindowInv, Within
<1>2. CASE HandlePending \/ HandleProcessingTools
  <2>0. UNCHANGED <<extraFields, version, toolCalls>>
    BY <1>2 DEF HandlePending, HandleProcessingTools
  <2>1. /\ ids' \in Seq(Tokens)
        /\ \A i \in 1..Len(ids') : ids'[i] \in Versions => \E j \in 1..Len(ids) : ids'[i] = ids[j]
    <3>1. CASE HandlePending
      <4>1. PICK n \in 1..PromptLength : ids' = Copies(PromptToken, n)
        BY <3>1 DEF HandlePending
      <4>2. ids' \in Seq(Tokens) /\ Len(ids') = n /\ \A i \in 1..n : ids'[i] = PromptToken
        <5>1. n \in Nat /\ PromptToken \in Tokens
          BY ToolConstants DEF Tokens
        <5> QED BY <4>1, <5>1, CopiesParts
      <4> QED BY <4>2, ToolConstants
    <3>2. CASE HandleProcessingTools
      <4> DEFINE calls == IF toolCalls < MaxParallelCalls THEN toolCalls ELSE MaxParallelCalls
      <4>1. PICK t \in calls..MaxToolTokens : ids' = ids \/ ids' = ids \o Copies(ToolToken, t)
        BY <3>2 DEF HandleProcessingTools, ToolsOverflow
      <4>2. t \in Nat /\ ids \in Seq(Tokens)
        BY ToolConstants DEF WindowInv
      <4>3. CASE ids' = ids \o Copies(ToolToken, t)
        <5>1. ToolToken \in {PromptToken, ToolToken}
          OBVIOUS
        <5>2. /\ ids \o Copies(ToolToken, t) \in Seq(Tokens)
              /\ \A i \in 1..Len(ids \o Copies(ToolToken, t)) :
                   (ids \o Copies(ToolToken, t))[i] \in Versions =>
                     \E j \in 1..Len(ids) : (ids \o Copies(ToolToken, t))[i] = ids[j]
          BY <4>2, <5>1, WindowPasses
        <5> QED BY <4>3, <5>2, Zenon
      <4>4. CASE ids' = ids
        <5>1. \A i \in 1..Len(ids) : \E j \in 1..Len(ids) : ids[i] = ids[j]
          BY Zenon
        <5> QED BY <4>2, <4>4, <5>1
      <4> QED BY <4>1, <4>3, <4>4
    <3> QED BY <1>2, <3>1, <3>2
  <2> QED BY <2>0, <2>1 DEF WindowInv, Within
<1>3. CASE HandleGenerating
  <2>1. PICK n \in MinTokens..(PromptLength + ResponseLength - Len(ids)),
             last \in version..LastVersion, c \in 0..MaxCalls : \E switch \in 0..n :
       /\ ids' = ids \o Copies(version, switch) \o Copies(last, n - switch)
       /\ extraFields' = MergedFields(version, last)
       /\ version' = last
       /\ toolCalls' = c
    BY <1>3 DEF HandleGenerating
  <2>2. PICK switch \in 0..n : ids' = ids \o Copies(version, switch) \o Copies(last, n - switch)
    BY <2>1
  <2>3. ids \in Seq(Tokens) /\ version \in Versions /\ Len(ids) \in Nat
    BY LenProperties DEF WindowInv
  <2>4. n \in Nat /\ c \in Nat /\ last \in Versions /\ version <= last
    BY <2>3, ToolConstants DEF Versions
  <2>5. PICK x \in Seq(Tokens) :
          /\ ids' = ids \o x
          /\ Len(x) = n
          /\ \A i \in 1..n : x[i] \in Versions /\ version <= x[i] /\ x[i] <= last
    <3>1. PICK x \in Seq(Tokens) :
            /\ ids \o Copies(version, switch) \o Copies(last, n - switch) = ids \o x
            /\ Len(x) = n
            /\ \A i \in 1..n : x[i] \in Versions /\ version <= x[i] /\ x[i] <= last
      <4>1. /\ ids \in Seq(Tokens) /\ version \in Versions /\ last \in Versions /\ version <= last
            /\ n \in Nat /\ switch \in 0..n
        BY <2>3, <2>4
      <4> QED BY <4>1, TurnTokens, ZenonT(40)
    <3> QED BY <2>2, <3>1, Zenon
  <2>6. /\ ids \o x \in Seq(Tokens)
        /\ \A i \in 1..Len(ids \o x) :
             \/ \E j \in 1..Len(ids) : (ids \o x)[i] = ids[j]
             \/ \E j \in 1..Len(x) : (ids \o x)[i] = x[j]
    <3>1. ids \in Seq(Tokens) /\ x \in Seq(Tokens)
      BY <2>3
    <3> QED BY <3>1, ConcatParts, ConcatElements
  <2>7. /\ ids' \in Seq(Tokens) /\ version' \in Versions /\ toolCalls' \in Nat
        /\ \A i \in 1..Len(ids') :
             \/ \E j \in 1..Len(ids) : ids'[i] = ids[j]
             \/ ids'[i] \in Versions /\ version <= ids'[i] /\ ids'[i] <= last
    BY <2>1, <2>4, <2>5, <2>6
  <2>8. CASE extraFields = <<>> /\ \A i \in 1..Len(ids) : ids[i] \notin Versions
    <3>1. extraFields' = <<version, last>> /\ last <= version'
      BY <2>1, <2>4, <2>8 DEF MergedFields, Versions
    <3>2. Within(ids', version, last)
      BY <2>7, <2>8 DEF Within
    <3> QED BY <2>3, <2>4, <2>7, <3>1, <3>2 DEF WindowInv
  <2>9. ASSUME NEW lo \in Versions, NEW hi \in Versions,
               extraFields = <<lo, hi>>, lo <= hi, hi <= version, Within(ids, lo, hi)
        PROVE  WindowInv'
    <3>1. lo \in Nat /\ hi \in Nat /\ version \in Nat /\ last \in Nat
      BY <2>3, <2>4 DEF Versions
    <3>2. extraFields' = <<lo, last>>
      <4>1. CASE last = 0
        BY <2>1, <2>4, <2>9, <3>1, <4>1 DEF MergedFields
      <4>2. CASE last # 0
        BY <2>1, <2>9, <4>2 DEF MergedFields
      <4> QED BY <4>1, <4>2
    <3>3. lo <= last /\ last <= version'
      BY <2>1, <2>4, <2>9, <3>1
    <3>4. Within(ids', lo, last)
      <4> SUFFICES ASSUME NEW i \in 1..Len(ids'), ids'[i] \in Versions
                   PROVE  lo <= ids'[i] /\ ids'[i] <= last
        BY DEF Within
      <4>1. ids'[i] \in Nat
        BY DEF Versions
      <4>2. (lo <= ids'[i] /\ ids'[i] <= hi) \/ (version <= ids'[i] /\ ids'[i] <= last)
        BY <2>7, <2>9 DEF Within
      <4> QED BY <2>4, <2>9, <3>1, <4>1, <4>2
    <3> QED BY <2>4, <2>7, <3>2, <3>3, <3>4 DEF WindowInv
  <2> QED BY <2>8, <2>9 DEF WindowInv
<1>4. CASE UNCHANGED toolVars
  BY <1>4 DEF toolVars, WindowInv
<1> QED BY <1>1, <1>2, <1>3, <1>4 DEF ToolNext, Terminated

\* The version window of a trajectory covers each of its generated tokens, also
\* when a generation gives none.
THEOREM TurnWindowHolds == ToolSpec => []TurnWindow
<1>1. ToolInit => WindowInv
  BY ToolConstants DEF ToolInit, WindowInv, Versions
<1>2. WindowInv /\ [ToolNext]_toolVars => WindowInv'
  BY WindowStep
<1>3. WindowInv => TurnWindow
  <2> SUFFICES ASSUME WindowInv, NEW i \in DOMAIN ids, ids[i] \notin {PromptToken, ToolToken}
               PROVE  extraFields[1] <= ids[i] /\ ids[i] <= extraFields[2]
    BY DEF TurnWindow
  <2>1. ids \in Seq(Tokens) /\ i \in 1..Len(ids)
    BY LenProperties DEF WindowInv
  <2>2. ids[i] \in Versions
    BY <2>1, ElementOfSeq DEF Tokens
  <2> QED BY <2>1, <2>2 DEF WindowInv, Within
<1> QED BY <1>1, <1>2, <1>3, PTL DEF ToolSpec
=============================================================================
