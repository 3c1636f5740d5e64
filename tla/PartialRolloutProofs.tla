------------------------- MODULE PartialRolloutProofs -------------------------
(***************************************************************************)
(* Interrupted generation, for every number of requests, servers and       *)
(* synchronisations, and for all lengths: what a resumed output looks      *)
(* like, which weights compute it, and that the client implements one      *)
(* uninterrupted generation.                                               *)
(***************************************************************************)
EXTENDS PartialRollout, TLAPS

-----------------------------------------------------------------------------
(* Types *)

StageNames == {"serving", "due", "aborted", "receiving", "received", "labelled"}
Phases == {"calling", "queued", "running", "done", "failed"}
TokenValues == Versions \cup {Mixed}
Labels == Versions \cup {Unknown}
Outputs == [tokens : Seq(TokenValues), rows : Nat,
            stop : {Unknown, "completed", "aborted", "length"},
            min : Labels, max : Labels]

TypeInv ==
  /\ version \in Versions
  /\ stage \in [Servers -> StageNames]
  /\ weights \in [Servers -> TokenValues]
  /\ label \in [Servers -> Versions]
  /\ cache \in [Servers -> SUBSET TokenValues]
  /\ phase \in [Requests -> Phases]
  /\ server \in [Requests -> Servers]
  /\ budget \in [Requests -> Nat]
  /\ chunk \in [Requests -> Seq(TokenValues)]
  /\ final \in [Requests -> Outputs]

\* An output after a merge: out is the old output old with tokens t of steps.
Merged(r, old, out, t, steps) ==
  /\ out.tokens = old.tokens \o t
  /\ out.rows = Rows(r, t)
  /\ out.min = IF old.min = Unknown THEN steps ELSE old.min
  /\ out.max = steps

\* Merging an answer gives an output again.
LEMMA MergeType ==
  ASSUME TypeInv, NEW r \in Requests, NEW t \in Seq(TokenValues),
         NEW stop \in {"completed", "aborted"}, NEW steps \in Labels
  PROVE  Merge(r, t, stop, steps) \in Outputs
<1>1. /\ final[r].tokens \in Seq(TokenValues) /\ final[r].rows \in Nat
      /\ final[r].min \in Labels
  BY DEF TypeInv, Outputs
<1>2. Prompt[r] \in Nat
  BY LengthAssumption
<1>3. Rows(r, t) \in Nat
  BY <1>1, <1>2 DEF Rows, Context
<1>4. final[r].tokens \o t \in Seq(TokenValues)
  BY <1>1
<1> QED BY <1>1, <1>3, <1>4 DEF Merge, Outputs

\* The shape of the state is kept by every step.
LEMMA TypeStep == TypeInv /\ [Next]_vars => TypeInv'
<1> SUFFICES ASSUME TypeInv, [Next]_vars PROVE TypeInv'
  OBVIOUS
<1> USE DEF TypeInv
<1>0. MaxVersion \in Nat
  BY ModeAssumption
<1>1. ASSUME NEW r \in Requests, NEW s \in Servers, Call(r, s) PROVE TypeInv'
  <2>1. MaxTokens(r) \in Nat
    <3>1. /\ Prompt[r] \in Nat /\ MaxModelLen \in Nat /\ PromptLength \in Nat
          /\ ResponseLength \in Nat /\ Len(final[r].tokens) \in Nat
      BY LengthAssumption DEF Outputs
    <3>2. Limit # Unknown => Limit \in Nat
      BY LimitAssumption
    <3> HIDE DEF TypeInv
    <3>3. \A a, b \in Int : Lesser(a, b) \in Int /\ Greater(1, a) \in Nat
      BY DEF Lesser, Greater
    <3> DEFINE wanted == IF Limit # Unknown THEN Limit - Len(final[r].tokens)
                         ELSE Lesser(ResponseLength, PromptLength + ResponseLength - Context(r))
    <3>4. Context(r) \in Int
      BY <3>1 DEF Context
    <3>5. wanted \in Int
      <4>1. CASE Limit # Unknown
        BY <3>1, <3>2, <4>1
      <4>2. CASE Limit = Unknown
        BY <3>1, <3>3, <3>4, <4>2
      <4> QED BY <4>1, <4>2
    <3>6. MaxTokens(r) = Greater(1, Lesser(wanted, MaxModelLen - Context(r)))
      BY DEF MaxTokens
    <3> HIDE DEF wanted
    <3>7. MaxModelLen - Context(r) \in Int
      BY <3>1, <3>4
    <3>8. Lesser(wanted, MaxModelLen - Context(r)) \in Int
      BY <3>3, <3>5, <3>7
    <3> QED BY <3>3, <3>6, <3>8
  <2> QED BY <1>1, <2>1 DEF Call, srv, Phases
<1>2. ASSUME NEW r \in Requests, Admit(r) PROVE TypeInv'
  BY <1>2 DEF Admit, srv, Phases
<1>3. ASSUME NEW r \in Requests, Token(r) PROVE TypeInv'
  <2>1. Append(chunk[r], weights[server[r]]) \in Seq(TokenValues)
    <3>1. chunk[r] \in Seq(TokenValues) /\ weights[server[r]] \in TokenValues
      OBVIOUS
    <3> HIDE DEF TypeInv
    <3> QED BY <3>1
  <2>2. Merge(r, Append(chunk[r], weights[server[r]]), "completed", label[server[r]]) \in Outputs
    BY <2>1, MergeType DEF Labels
  <2>3. \A out : PhaseAfter(out) \in Phases
    BY DEF PhaseAfter, Phases
  <2>4. <<>> \in Seq(TokenValues)
    OBVIOUS
  <2>5. chunk' \in [Requests -> Seq(TokenValues)]
    BY <1>3, <2>1, <2>4 DEF Token
  <2>6. final' \in [Requests -> Outputs] /\ phase' \in [Requests -> Phases]
    <3>1. CASE UNCHANGED client
      BY <3>1 DEF client
    <3>2. ASSUME NEW out \in Outputs, final' = [final EXCEPT ![r] = out],
                 phase' = [phase EXCEPT ![r] = PhaseAfter(out)]
          PROVE  final' \in [Requests -> Outputs] /\ phase' \in [Requests -> Phases]
      <4>1. PhaseAfter(out) \in Phases
        BY <2>3
      <4>2. phase \in [Requests -> Phases] /\ final \in [Requests -> Outputs]
        OBVIOUS
      <4> HIDE DEF TypeInv
      <4> QED BY <3>2, <4>1, <4>2
    <3> QED BY <1>3, <2>2, <3>1, <3>2 DEF Token
  <2> QED BY <1>3, <2>5, <2>6 DEF Token, client
<1>4. CASE BeginSync
  BY <1>4, <1>0 DEF BeginSync, client, StageNames, Versions
<1>5. ASSUME NEW s \in Servers, Abort(s) PROVE TypeInv'
  <2>1. PICK blank \in SUBSET {r \in Requests : TRUE} :
          final' = [r \in Requests |->
                      IF r \in Running(s)
                      THEN Merge(r, chunk[r], "aborted",
                                 IF r \in blank THEN Unknown ELSE label[s])
                      ELSE final[r]]
    BY <1>5 DEF Abort, Running
  <2>2. \A r \in Requests : Merge(r, chunk[r], "aborted",
                                  IF r \in blank THEN Unknown ELSE label[s]) \in Outputs
    BY MergeType DEF Labels
  <2>3. final' \in [Requests -> Outputs]
    BY <2>1, <2>2
  <2>4. \A out : PhaseAfter(out) \in Phases
    BY DEF PhaseAfter, Phases
  <2>5. /\ phase' = [r \in Requests |-> IF r \in Running(s) THEN PhaseAfter(final'[r])
                                        ELSE phase[r]]
        /\ chunk' = [r \in Requests |-> IF r \in Running(s) THEN <<>> ELSE chunk[r]]
        /\ stage' = [stage EXCEPT ![s] = "aborted"]
        /\ UNCHANGED <<version, weights, label, server, budget>>
        /\ cache' = [cache EXCEPT ![s] = {}] \/ cache' = cache
    BY <1>5 DEF Abort, ClearKvCache
  <2>6. phase' \in [Requests -> Phases] /\ chunk' \in [Requests -> Seq(TokenValues)]
    <3>1. chunk \in [Requests -> Seq(TokenValues)] /\ phase \in [Requests -> Phases]
      OBVIOUS
    <3>2. <<>> \in Seq(TokenValues)
      OBVIOUS
    <3> HIDE DEF TypeInv
    <3>3. \A r \in Requests :
            /\ (IF r \in Running(s) THEN PhaseAfter(final'[r]) ELSE phase[r]) \in Phases
            /\ (IF r \in Running(s) THEN <<>> ELSE chunk[r]) \in Seq(TokenValues)
      BY <2>4, <3>1, <3>2
    <3> QED BY <2>5, <3>3
  <2> QED BY <2>3, <2>5, <2>6 DEF StageNames
<1>6. ASSUME NEW s \in Servers, BeginTransfer(s) PROVE TypeInv'
  BY <1>6 DEF BeginTransfer, client, StageNames, TokenValues
<1>7. ASSUME NEW s \in Servers, EndTransfer(s) PROVE TypeInv'
  BY <1>7 DEF EndTransfer, ClearKvCache, client, StageNames, TokenValues
<1>8. ASSUME NEW s \in Servers, SetGlobalSteps(s) PROVE TypeInv'
  BY <1>8 DEF SetGlobalSteps, client, StageNames
<1>9. ASSUME NEW s \in Servers, ResumeGeneration(s) PROVE TypeInv'
  BY <1>9 DEF ResumeGeneration, client, StageNames
<1>10. CASE UNCHANGED vars
  BY <1>10 DEF vars
<1> QED BY <1>1, <1>2, <1>3, <1>4, <1>5, <1>6, <1>7, <1>8, <1>9, <1>10
        DEF Next, Request, Sync, Finished

\* The shape of the state, in every reachable state.
THEOREM ShapeHolds == Spec => []TypeInv
<1>1. Init => TypeInv
  <2> SUFFICES ASSUME Init PROVE TypeInv
    OBVIOUS
  <2>1. NoOutput \in Outputs
    BY DEF NoOutput, Outputs, Labels
  <2>2. 0 \in Versions
    BY ModeAssumption DEF Versions
  <2> QED BY <2>1, <2>2 DEF Init, TypeInv, StageNames, Phases, TokenValues
<1> QED BY <1>1, TypeStep, PTL DEF Spec

-----------------------------------------------------------------------------
(* What a resumed output looks like *)

\* The most tokens that a caller may be given for r.
Bound(r) == IF Limit # Unknown THEN Limit ELSE PromptLength + ResponseLength - Prompt[r]

\* A client that calls again has room for a token, within the bound and in the
\* context; a call under way has a budget that keeps both, and has used less.
SizeInv(r) ==
  /\ phase[r] # "failed"
  /\ phase[r] = "calling" => Len(final[r].tokens) < Bound(r) /\ Context(r) < MaxModelLen
  /\ phase[r] \in {"queued", "running"} =>
       /\ Len(chunk[r]) < budget[r]
       /\ Len(final[r].tokens) + budget[r] <= Bound(r)
       /\ Context(r) + budget[r] <= MaxModelLen
  /\ phase[r] = "done" => Len(final[r].tokens) <= Bound(r)
  /\ phase[r] # "running" => chunk[r] = <<>>
  /\ final[r].rows = IF final[r].tokens = <<>> THEN 0 ELSE Context(r)

-----------------------------------------------------------------------------
(* Which weights compute a token *)

\* Where a server and the others can be in a synchronisation, with what it has
\* loaded, cached and announced there.
ServerInv(s) ==
  /\ stage[s] \in {"due", "aborted", "receiving", "received"} => label[s] + 1 = version
  /\ stage[s] \in {"labelled", "serving"} => label[s] = version
  /\ stage[s] \in {"received", "labelled", "serving"} => weights[s] = version
  /\ stage[s] \in {"due", "aborted"} => weights[s] = label[s]
  /\ stage[s] = "due" => \A q \in Servers : stage[q] \in {"due", "aborted"}
  /\ stage[s] = "serving" => \A q \in Servers : stage[q] \in {"labelled", "serving"}
  /\ cache[s] \subseteq IF stage[s] \in {"serving", "due"} THEN {weights[s]} ELSE {}

\* A request is only in the engine of a server that has not stopped for the
\* transfer, and what it has there was computed with the version announced.
EngineInv(r) ==
  phase[r] = "running" =>
    /\ stage[server[r]] \in {"serving", "due"}
    /\ Range(chunk[r]) \subseteq {label[server[r]]}

\* No token merged so far is newer than any server, nor older than the oldest
\* version noted; an answer that has been returned also has the newest one.
WindowInv(r) ==
  /\ \A v \in Range(final[r].tokens) :
       v \in Versions /\ \A s \in Servers : v <= label[s]
  /\ final[r].min = Unknown => final[r].tokens = <<>>
  /\ final[r].min # Unknown =>
       /\ \A v \in Range(final[r].tokens) : final[r].min <= v
       /\ \A s \in Servers : final[r].min <= label[s]
  /\ phase[r] = "done" =>
       /\ final[r].min # Unknown /\ final[r].max # Unknown
       /\ \A v \in Range(final[r].tokens) : v <= final[r].max

-----------------------------------------------------------------------------
(* What the steps do to one request *)

\* The lengths that a request is measured by are numbers.
LEMMA Lengths ==
  ASSUME TypeInv, NEW r \in Requests
  PROVE  /\ Prompt[r] \in Nat \ {0} /\ MaxModelLen \in Nat \ {0}
         /\ PromptLength \in Nat \ {0} /\ ResponseLength \in Nat \ {0}
         /\ Prompt[r] <= PromptLength /\ Prompt[r] < MaxModelLen
         /\ budget[r] \in Nat /\ final[r].tokens \in Seq(TokenValues)
         /\ chunk[r] \in Seq(TokenValues) /\ Len(chunk[r]) \in Nat
         /\ Len(final[r].tokens) \in Nat /\ Context(r) \in Nat /\ Bound(r) \in Int
<1>1. /\ Prompt[r] \in Nat \ {0} /\ MaxModelLen \in Nat \ {0}
      /\ PromptLength \in Nat \ {0} /\ ResponseLength \in Nat \ {0}
      /\ Prompt[r] <= PromptLength /\ Prompt[r] < MaxModelLen
  BY LengthAssumption
<1>2. /\ budget[r] \in Nat /\ final[r].tokens \in Seq(TokenValues)
      /\ chunk[r] \in Seq(TokenValues)
  BY DEF TypeInv, Outputs
<1>3. Len(chunk[r]) \in Nat /\ Len(final[r].tokens) \in Nat
  BY <1>2
<1>4. Context(r) \in Nat
  BY <1>1, <1>3 DEF Context
<1>5. Bound(r) \in Int
  BY <1>1, LimitAssumption DEF Bound
<1> QED BY <1>1, <1>2, <1>3, <1>4, <1>5

\* The server's clamp leaves a call at least one token, within both bounds.
LEMMA MaxTokensFits ==
  ASSUME TypeInv, NEW r \in Requests,
         Len(final[r].tokens) < Bound(r), Context(r) < MaxModelLen
  PROVE  /\ MaxTokens(r) \in Nat \ {0}
         /\ Len(final[r].tokens) + MaxTokens(r) <= Bound(r)
         /\ Context(r) + MaxTokens(r) <= MaxModelLen
<1> DEFINE n == Len(final[r].tokens)
           wanted == IF Limit # Unknown THEN Limit - n
                     ELSE Lesser(ResponseLength, PromptLength + ResponseLength - Context(r))
<1>1. /\ n \in Nat /\ Context(r) \in Nat /\ Bound(r) \in Int /\ MaxModelLen \in Nat
      /\ PromptLength \in Nat /\ ResponseLength \in Nat \ {0} /\ Prompt[r] \in Nat
  BY Lengths
<1>2. wanted \in Int /\ wanted >= 1 /\ n + wanted <= Bound(r)
  <2>1. CASE Limit # Unknown
    BY <1>1, <2>1, LimitAssumption, SMTT(30) DEF Bound
  <2>2. CASE Limit = Unknown
    <3>1. Bound(r) = PromptLength + ResponseLength - Prompt[r] /\ Context(r) = Prompt[r] + n
      BY <2>2 DEF Bound, Context
    <3> DEFINE left == PromptLength + ResponseLength - Context(r)
    <3>2. wanted = Lesser(ResponseLength, left)
      BY <2>2
    <3>3. n < Bound(r)
      OBVIOUS
    <3> HIDE DEF wanted, n
    <3>4. left \in Int /\ left >= 1 /\ n + left = Bound(r)
      <4>1. left = PromptLength + ResponseLength - (Prompt[r] + n)
        BY <3>1
      <4>2. \A a, b, c, k \in Int : /\ a + b - (c + k) \in Int
                                    /\ k + (a + b - (c + k)) = a + b - c
                                    /\ k < a + b - c => a + b - (c + k) >= 1
        OBVIOUS
      <4>3. n < PromptLength + ResponseLength - Prompt[r]
        BY <3>1, <3>3
      <4> HIDE DEF left
      <4>4. /\ PromptLength \in Int /\ ResponseLength \in Int
            /\ Prompt[r] \in Int /\ n \in Int
        BY <1>1
      <4> QED BY <3>1, <4>1, <4>2, <4>3, <4>4
    <3> HIDE DEF left
    <3> QED BY <1>1, <3>2, <3>4 DEF Lesser
  <2> QED BY <2>1, <2>2
<1> DEFINE room == MaxModelLen - Context(r)
<1>3. MaxTokens(r) = Greater(1, Lesser(wanted, room))
  BY DEF MaxTokens
<1>4. room \in Int /\ room >= 1 /\ Context(r) + room = MaxModelLen
  BY <1>1
<1> HIDE DEF wanted, n, room
<1>5. /\ MaxTokens(r) \in Nat \ {0} /\ n + MaxTokens(r) <= Bound(r)
      /\ Context(r) + MaxTokens(r) <= MaxModelLen
  BY <1>1, <1>2, <1>3, <1>4 DEF Greater, Lesser
<1> QED BY <1>5 DEF n

\* A call that gives tokens t leaves one row for every token of the context.
LEMMA RowsFollow ==
  ASSUME TypeInv, NEW r \in Requests, NEW t \in Seq(TokenValues),
         final[r].rows = IF final[r].tokens = <<>> THEN 0 ELSE Context(r)
  PROVE  /\ Rows(r, t) = IF final[r].tokens \o t = <<>> THEN 0
                         ELSE Prompt[r] + Len(final[r].tokens \o t)
         /\ Len(final[r].tokens \o t) = Len(final[r].tokens) + Len(t)
         /\ final[r].tokens \o t \in Seq(TokenValues)
<1> DEFINE f == final[r].tokens
<1>1. f \in Seq(TokenValues) /\ Prompt[r] \in Nat \ {0} /\ Context(r) = Prompt[r] + Len(f)
  BY Lengths DEF Context
<1>2. f \o t \in Seq(TokenValues) /\ Len(f \o t) = Len(f) + Len(t)
  BY <1>1
<1>3. /\ (f = <<>>) <=> Len(f) = 0
      /\ (t = <<>>) <=> Len(t) = 0
      /\ (f \o t = <<>>) <=> Len(f \o t) = 0
  BY <1>1, <1>2
<1>4. Len(f) \in Nat /\ Len(t) \in Nat
  BY <1>1
<1>5. Rows(r, t) = IF t = <<>> THEN (IF f = <<>> THEN 0 ELSE Context(r))
                   ELSE IF (IF f = <<>> THEN 0 ELSE Context(r)) = 0
                        THEN Context(r) + Len(t)
                        ELSE (IF f = <<>> THEN 0 ELSE Context(r)) + Len(t)
  BY DEF Rows
<1> HIDE DEF f
<1>6. Rows(r, t) = IF f \o t = <<>> THEN 0 ELSE Prompt[r] + Len(f \o t)
  BY <1>1, <1>2, <1>3, <1>4, <1>5
<1> QED BY <1>2, <1>6 DEF f

\* A token is either added to the call under way or ends it and the generation.
LEMMA TokenCases ==
  ASSUME TypeInv, NEW r \in Requests, Token(r)
  PROVE  LET s == server[r]
             tokens == Append(chunk[r], weights[s])
         IN
         /\ phase[r] = "running"
         /\ UNCHANGED <<version, stage, weights, label, server, budget>>
         /\ cache' = [cache EXCEPT ![s] = @ \cup {weights[s]}]
         /\ \A q \in Requests \ {r} : UNCHANGED <<phase[q], chunk[q], final[q]>>
         /\ tokens \in Seq(TokenValues) /\ Len(tokens) = Len(chunk[r]) + 1
         /\ \/ /\ Len(tokens) < budget[r] /\ chunk'[r] = tokens
               /\ UNCHANGED <<phase[r], final[r]>>
            \/ /\ chunk'[r] = <<>> /\ phase'[r] = "done"
               /\ Merged(r, final[r], final'[r], tokens, label[s])
<1> DEFINE s == server[r]
           tokens == Append(chunk[r], weights[s])
           output == Merge(r, tokens, "completed", label[s])
<1>1. /\ chunk \in [Requests -> Seq(TokenValues)] /\ phase \in [Requests -> Phases]
      /\ final \in [Requests -> Outputs]
  BY DEF TypeInv
<1>2. chunk[r] \in Seq(TokenValues) /\ weights[s] \in TokenValues
  BY DEF TypeInv
<1>3. tokens \in Seq(TokenValues) /\ Len(tokens) = Len(chunk[r]) + 1
  BY <1>2
<1>4. output.stop \in {"completed", "length"}
  BY DEF Merge
<1>5. PhaseAfter(output) = "done"
  BY <1>4 DEF PhaseAfter
<1>6. /\ phase[r] = "running"
      /\ UNCHANGED <<version, stage, weights, label, server, budget>>
      /\ cache' = [cache EXCEPT ![s] = @ \cup {weights[s]}]
  BY DEF Token, client
<1>7. \/ /\ Len(tokens) < budget[r]
         /\ chunk' = [chunk EXCEPT ![r] = tokens]
         /\ UNCHANGED <<phase, final>>
      \/ /\ chunk' = [chunk EXCEPT ![r] = <<>>]
         /\ final' = [final EXCEPT ![r] = output]
         /\ phase' = [phase EXCEPT ![r] = PhaseAfter(output)]
  BY DEF Token, client
<1>m. Merged(r, final[r], output, tokens, label[s])
  BY DEF Merged, Merge
<1> HIDE DEF tokens, output
<1>8. /\ \A q \in Requests \ {r} : UNCHANGED <<phase[q], chunk[q], final[q]>>
      /\ \/ /\ Len(tokens) < budget[r] /\ chunk'[r] = tokens
            /\ UNCHANGED <<phase[r], final[r]>>
         \/ /\ chunk'[r] = <<>> /\ phase'[r] = "done"
            /\ Merged(r, final[r], final'[r], tokens, label[s])
  BY <1>1, <1>5, <1>7, <1>m
<1> QED BY <1>3, <1>6, <1>8 DEF tokens, output

\* An abort merges what the requests of the server have, and answers nobody else.
LEMMA AbortCases ==
  ASSUME TypeInv, NEW s \in Servers, Abort(s)
  PROVE  /\ UNCHANGED <<version, weights, label, server, budget>>
         /\ stage[s] = "due" /\ stage' = [stage EXCEPT ![s] = "aborted"]
         /\ Pausing => cache' = [cache EXCEPT ![s] = {}]
         /\ \A q \in Requests \ Running(s) : UNCHANGED <<phase[q], chunk[q], final[q]>>
         /\ \A q \in Running(s) :
              /\ phase[q] = "running" /\ server[q] = s /\ q \in Requests
              /\ chunk'[q] = <<>> /\ phase'[q] = PhaseAfter(final'[q])
              /\ \E steps \in {label[s], Unknown} :
                   /\ steps = Unknown => chunk[q] = <<>>
                   /\ Merged(q, final[q], final'[q], chunk[q], steps)
              /\ phase'[q] = "calling" \/ ~Resume
                   \/ (Limit # Unknown /\ Len(final'[q].tokens) >= Limit)
<1>1. PICK blank \in SUBSET {r \in Running(s) : chunk[r] = <<>>} :
        final' = [r \in Requests |->
                    IF r \in Running(s)
                    THEN Merge(r, chunk[r], "aborted",
                               IF r \in blank THEN Unknown ELSE label[s])
                    ELSE final[r]]
  BY DEF Abort
<1>2. label[s] # Unknown
  BY ValueAssumption, ModeAssumption DEF TypeInv, Versions
<1>3. \A q \in Running(s) : q \in Requests /\ phase[q] = "running" /\ server[q] = s
  BY DEF Running
<1>4. ASSUME NEW q \in Running(s)
      PROVE  /\ \E steps \in {label[s], Unknown} :
                  /\ steps = Unknown => chunk[q] = <<>>
                  /\ Merged(q, final[q], final'[q], chunk[q], steps)
             /\ PhaseAfter(final'[q]) = "calling" \/ ~Resume
                  \/ (Limit # Unknown /\ Len(final'[q].tokens) >= Limit)
  <2> DEFINE steps == IF q \in blank THEN Unknown ELSE label[s]
             out == Merge(q, chunk[q], "aborted", steps)
  <2>1. final'[q] = out
    BY <1>1, <1>3
  <2>2. steps \in {label[s], Unknown} /\ (steps = Unknown => chunk[q] = <<>>)
    BY <1>1, <1>2
  <2> HIDE DEF steps
  <2>3. Merged(q, final[q], out, chunk[q], steps)
    <3>1. out.tokens = final[q].tokens \o chunk[q] /\ out.rows = Rows(q, chunk[q])
      BY DEF Merge
    <3>2. /\ out.min = IF final[q].min = Unknown THEN steps ELSE final[q].min
          /\ out.max = steps
      BY DEF Merge
    <3> HIDE DEF out
    <3> QED BY <3>1, <3>2 DEF Merged
  <2>4. out.stop = IF Limit # Unknown /\ Len(out.tokens) >= Limit THEN "length" ELSE "aborted"
    BY DEF Merge
  <2> HIDE DEF out
  <2>5. PhaseAfter(out) = "calling" \/ ~Resume
          \/ (Limit # Unknown /\ Len(out.tokens) >= Limit)
    <3>1. CASE Limit # Unknown /\ Len(out.tokens) >= Limit
      BY <3>1
    <3>2. CASE ~(Limit # Unknown /\ Len(out.tokens) >= Limit)
      <4>1. out.stop = "aborted"
        BY <2>4, <3>2
      <4>2. Resume => PhaseAfter(out) = "calling"
        BY <4>1, Zenon DEF PhaseAfter
      <4> QED BY <4>2
    <3> QED BY <3>1, <3>2
  <2> QED BY <2>1, <2>2, <2>3, <2>5
<1>5. /\ UNCHANGED <<version, weights, label, server, budget>>
      /\ stage[s] = "due" /\ stage' = [stage EXCEPT ![s] = "aborted"]
      /\ phase' = [r \in Requests |-> IF r \in Running(s) THEN PhaseAfter(final'[r])
                                      ELSE phase[r]]
      /\ chunk' = [r \in Requests |-> IF r \in Running(s) THEN <<>> ELSE chunk[r]]
  BY DEF Abort
<1>c. Pausing => cache' = [cache EXCEPT ![s] = {}]
  BY DEF Abort, ClearKvCache
<1>6. \A q \in Requests \ Running(s) : UNCHANGED <<phase[q], chunk[q], final[q]>>
  BY <1>1, <1>5
<1>7. \A q \in Running(s) : chunk'[q] = <<>> /\ phase'[q] = PhaseAfter(final'[q])
  BY <1>3, <1>5
<1> QED BY <1>3, <1>4, <1>5, <1>6, <1>7, <1>c

-----------------------------------------------------------------------------
(* The sizes are kept *)

\* A request that a step does not touch keeps its sizes.
LEMMA SizeFrame ==
  ASSUME NEW q \in Requests, SizeInv(q),
         UNCHANGED <<phase[q], budget[q], chunk[q], final[q]>>
  PROVE  SizeInv(q)'
BY DEF SizeInv, Context, Bound

\* No step of the client or of a server lets a request outgrow its bounds.
LEMMA SizeStep ==
  ASSUME TypeInv, \A r \in Requests : SizeInv(r), [Next]_vars
  PROVE  \A r \in Requests : SizeInv(r)'
<1> TAKE q \in Requests
<1>0. SizeInv(q)
  OBVIOUS
<1> DEFINE f == Len(final[q].tokens)
           c == Len(chunk[q])
           b == budget[q]
           p == Prompt[q]
<1>n. f \in Nat /\ c \in Nat /\ b \in Nat /\ p \in Nat /\ MaxModelLen \in Nat /\ Bound(q) \in Int
  BY Lengths
<1>r. c < b /\ f + b <= Bound(q) =>
        /\ f + c < Bound(q) /\ f + c <= Bound(q) /\ f + (c + 1) <= Bound(q)
        /\ (p + f) + b <= MaxModelLen => p + (f + c) < MaxModelLen
  <2> HIDE DEF f, c, b, p
  <2> QED BY <1>n
<1>1. ASSUME NEW r \in Requests, NEW s \in Servers, Call(r, s) PROVE SizeInv(q)'
  <2>1. /\ UNCHANGED <<chunk, final>> /\ phase[r] = "calling"
        /\ phase \in [Requests -> Phases] /\ budget \in [Requests -> Nat]
    BY <1>1 DEF Call, TypeInv
  <2>2. CASE q # r
    <3>1. UNCHANGED <<phase[q], budget[q], chunk[q], final[q]>>
      BY <1>1, <2>1, <2>2 DEF Call
    <3> QED BY <1>0, <3>1, SizeFrame
  <2>3. CASE q = r
    <3>1. /\ Len(final[r].tokens) < Bound(r) /\ Context(r) < MaxModelLen
          /\ chunk[r] = <<>>
      BY <1>0, <2>1, <2>3 DEF SizeInv
    <3>2. Context(r) \in Nat /\ MaxModelLen \in Nat
      BY Lengths
    <3>3. phase'[r] = "queued" /\ budget'[r] = MaxTokens(r)
      BY <1>1, <2>1, <3>1, <3>2 DEF Call
    <3>4. Len(chunk[r]) = 0
      BY <3>1
    <3>5. Len(chunk[r]) < MaxTokens(r)
      BY <3>1, <3>4, MaxTokensFits
    <3> QED BY <1>0, <2>1, <2>3, <3>1, <3>3, <3>5, MaxTokensFits DEF SizeInv, Context, Bound
  <2> QED BY <2>2, <2>3
<1>2. ASSUME NEW r \in Requests, Admit(r) PROVE SizeInv(q)'
  <2>1. phase \in [Requests -> Phases]
    BY DEF TypeInv
  <2> QED BY <1>0, <1>2, <2>1 DEF Admit, SizeInv, Context, Bound
<1>3. ASSUME NEW r \in Requests, Token(r) PROVE SizeInv(q)'
  <2>1. CASE q # r
    <3>1. UNCHANGED <<phase[q], budget[q], chunk[q], final[q]>>
      BY <1>3, <2>1, TokenCases
    <3> QED BY <1>0, <3>1, SizeFrame
  <2>2. CASE q = r
    <3> DEFINE tokens == Append(chunk[r], weights[server[r]])
    <3>1. /\ phase[r] = "running" /\ UNCHANGED budget
          /\ tokens \in Seq(TokenValues) /\ Len(tokens) = Len(chunk[r]) + 1
          /\ \/ /\ Len(tokens) < budget[r] /\ chunk'[r] = tokens
                /\ UNCHANGED <<phase[r], final[r]>>
             \/ /\ chunk'[r] = <<>> /\ phase'[r] = "done"
                /\ Merged(r, final[r], final'[r], tokens, label[server[r]])
      BY <1>3, TokenCases
    <3> HIDE DEF tokens
    <3>2. CASE Len(tokens) < budget[r] /\ chunk'[r] = tokens /\ UNCHANGED <<phase[r], final[r]>>
      BY <1>0, <2>2, <3>1, <3>2 DEF SizeInv, Context, Bound
    <3>3. CASE /\ chunk'[r] = <<>> /\ phase'[r] = "done"
               /\ Merged(r, final[r], final'[r], tokens, label[server[r]])
      <4>1. /\ final'[r].tokens = final[r].tokens \o tokens
            /\ final'[r].rows = Rows(r, tokens)
        BY <3>3 DEF Merged
      <4>2. /\ Rows(r, tokens) = IF final[r].tokens \o tokens = <<>> THEN 0
                                 ELSE Prompt[r] + Len(final[r].tokens \o tokens)
            /\ Len(final[r].tokens \o tokens) = Len(final[r].tokens) + Len(tokens)
        BY <1>0, <2>2, <3>1, RowsFollow DEF SizeInv
      <4>3. Len(chunk[r]) < budget[r] /\ Len(final[r].tokens) + budget[r] <= Bound(r)
        BY <1>0, <2>2, <3>1 DEF SizeInv
      <4>4. Len(final[r].tokens) + Len(tokens) <= Bound(r)
        <5>1. f + (c + 1) <= Bound(q) /\ Len(tokens) = c + 1
          BY <1>r, <2>2, <3>1, <4>3
        <5> QED BY <2>2, <5>1
      <4> QED BY <2>2, <3>3, <4>1, <4>2, <4>4 DEF SizeInv, Context, Bound
    <3> QED BY <3>1, <3>2, <3>3
  <2> QED BY <2>1, <2>2
<1>4. ASSUME NEW s \in Servers, Abort(s) PROVE SizeInv(q)'
  <2>1. CASE q \notin Running(s)
    <3>1. UNCHANGED <<phase[q], budget[q], chunk[q], final[q]>>
      BY <1>4, <2>1, AbortCases
    <3> QED BY <1>0, <3>1, SizeFrame
  <2>2. CASE q \in Running(s)
    <3>1. /\ phase[q] = "running" /\ chunk'[q] = <<>>
          /\ phase'[q] = PhaseAfter(final'[q])
          /\ \E steps \in {label[s], Unknown} :
               Merged(q, final[q], final'[q], chunk[q], steps)
      BY <1>4, <2>2, AbortCases
    <3>2. /\ final'[q].tokens = final[q].tokens \o chunk[q]
          /\ final'[q].rows = Rows(q, chunk[q])
      BY <3>1 DEF Merged
    <3>3. chunk[q] \in Seq(TokenValues)
      BY Lengths
    <3>4. /\ Rows(q, chunk[q]) = IF final[q].tokens \o chunk[q] = <<>> THEN 0
                                 ELSE Prompt[q] + Len(final[q].tokens \o chunk[q])
          /\ Len(final[q].tokens \o chunk[q]) = Len(final[q].tokens) + Len(chunk[q])
      BY <1>0, <3>3, RowsFollow DEF SizeInv
    <3>5. /\ Len(chunk[q]) < budget[q] /\ Len(final[q].tokens) + budget[q] <= Bound(q)
          /\ Context(q) + budget[q] <= MaxModelLen
      BY <1>0, <3>1 DEF SizeInv
    <3>6. /\ Len(final[q].tokens) + Len(chunk[q]) < Bound(q)
          /\ Prompt[q] + (Len(final[q].tokens) + Len(chunk[q])) < MaxModelLen
      <4>1. Context(q) = Prompt[q] + Len(final[q].tokens)
        BY DEF Context
      <4> QED BY <1>r, <3>5, <4>1
    <3>7. phase'[q] \in {"calling", "done"}
      BY <3>1 DEF PhaseAfter
    <3>8. Len(final[q].tokens) + Len(chunk[q]) <= Bound(q)
      BY <1>r, <3>5
    <3> QED BY <3>1, <3>2, <3>4, <3>6, <3>7, <3>8 DEF SizeInv, Context, Bound
  <2> QED BY <2>1, <2>2
<1>5. CASE UNCHANGED <<client, chunk>>
  BY <1>0, <1>5, SizeFrame DEF client
<1>6. CASE BeginSync \/ (\E s \in Servers : BeginTransfer(s) \/ EndTransfer(s)
                            \/ SetGlobalSteps(s) \/ ResumeGeneration(s))
  BY <1>5, <1>6 DEF BeginSync, BeginTransfer, EndTransfer, SetGlobalSteps, ResumeGeneration
<1>7. CASE UNCHANGED vars
  BY <1>5, <1>7 DEF vars, client
<1> QED BY <1>1, <1>2, <1>3, <1>4, <1>6, <1>7 DEF Next, Request, Sync, Finished

\* What generate has merged and what the call under way adds to it stay within
\* the limits that the server was called with.
THEOREM SizesHold == Spec => []\A r \in Requests : SizeInv(r)
<1>1. Init => \A r \in Requests : SizeInv(r)
  <2> SUFFICES ASSUME Init, NEW r \in Requests PROVE SizeInv(r)
    OBVIOUS
  <2>1. /\ phase[r] = "calling" /\ chunk[r] = <<>> /\ final[r].tokens = <<>>
        /\ final[r].rows = 0
    BY DEF Init, NoOutput
  <2>2. Len(final[r].tokens) = 0
    BY <2>1
  <2>3. /\ Prompt[r] \in Nat /\ PromptLength \in Nat /\ ResponseLength \in Nat \ {0}
        /\ Prompt[r] <= PromptLength /\ Prompt[r] < MaxModelLen
    BY LengthAssumption
  <2>4. Bound(r) > 0
    BY <2>3, LimitAssumption DEF Bound
  <2>5. Context(r) = Prompt[r]
    BY <2>2, <2>3 DEF Context
  <2> QED BY <2>1, <2>2, <2>3, <2>4, <2>5 DEF SizeInv
<1>2. TypeInv /\ (\A r \in Requests : SizeInv(r)) /\ [Next]_vars
        => (\A r \in Requests : SizeInv(r))'
  BY SizeStep
<1> QED BY <1>1, <1>2, ShapeHolds, PTL DEF Spec

\* ResumedOutput, in both modes of the client and for every engine: however
\* often a generation is aborted and resumed, the output stays within the bound
\* of a single call, routed_experts has a row for every token, and resuming
\* never meets a full context.
THEOREM ResumedOutputHolds == Spec => []ResumedOutput
<1>1. TypeInv /\ (\A r \in Requests : SizeInv(r)) => ResumedOutput
  <2> SUFFICES ASSUME TypeInv, NEW r \in Requests, SizeInv(r)
               PROVE  /\ phase[r] # "failed"
                      /\ Len(final[r].tokens) + Len(chunk[r]) <= Bound(r)
                      /\ final[r].rows = IF final[r].tokens = <<>> THEN 0 ELSE Context(r)
    BY DEF ResumedOutput, Bound
  <2>1. phase[r] \in Phases
    BY DEF TypeInv
  <2>2. chunk[r] = <<>> => Len(chunk[r]) = 0
    OBVIOUS
  <2> DEFINE f == Len(final[r].tokens)
             c == Len(chunk[r])
             b == budget[r]
  <2>n. f \in Nat /\ c \in Nat /\ b \in Nat /\ Bound(r) \in Int
    BY Lengths
  <2>3. Len(final[r].tokens) + Len(chunk[r]) <= Bound(r)
    <3>1. CASE phase[r] \in {"queued", "running"}
      <4>1. c < b /\ f + b <= Bound(r)
        BY <3>1 DEF SizeInv
      <4> HIDE DEF f, c, b
      <4>2. f + c <= Bound(r)
        BY <2>n, <4>1
      <4> QED BY <4>2 DEF f, c
    <3>2. CASE phase[r] \in {"calling", "done"}
      <4>1. c = 0 /\ (f < Bound(r) \/ f <= Bound(r))
        BY <2>2, <3>2 DEF SizeInv
      <4> HIDE DEF f, c
      <4>2. f + c <= Bound(r)
        BY <2>n, <4>1
      <4> QED BY <4>2 DEF f, c
    <3> QED BY <2>1, <3>1, <3>2 DEF Phases, SizeInv
  <2> QED BY <2>3 DEF SizeInv
<1> QED BY <1>1, ShapeHolds, SizesHold, PTL

-----------------------------------------------------------------------------
(* The synchronisation keeps each server to one version *)

\* A server that has not stopped computes with the version that it announces,
\* and no other server has been told another one.
LEMMA ServingLabel ==
  ASSUME TypeInv, \A s \in Servers : ServerInv(s), NEW s \in Servers,
         stage[s] \in {"serving", "due"}
  PROVE  weights[s] = label[s] /\ \A t \in Servers : label[t] = label[s]
<1>1. CASE stage[s] = "serving"
  BY <1>1 DEF ServerInv
<1>2. CASE stage[s] = "due"
  <2>1. weights[s] = label[s] /\ label[s] + 1 = version
    BY <1>2 DEF ServerInv
  <2>2. \A t \in Servers : label[t] + 1 = version
    BY <1>2 DEF ServerInv
  <2>3. \A t \in Servers : label[t] \in Int
    BY ModeAssumption DEF TypeInv, Versions
  <2> QED BY <2>1, <2>2, <2>3
<1> QED BY <1>1, <1>2

\* A server changes its weights, its label and its pause in the order of the
\* synchronisation.
LEMMA ServerStep ==
  ASSUME Pausing, TypeInv, \A s \in Servers : ServerInv(s),
         \A r \in Requests : EngineInv(r), [Next]_vars
  PROVE  \A t \in Servers : ServerInv(t)'
<1> TAKE t \in Servers
<1>0. /\ stage \in [Servers -> StageNames] /\ weights \in [Servers -> TokenValues]
      /\ label \in [Servers -> Versions] /\ cache \in [Servers -> SUBSET TokenValues]
      /\ version \in Versions
  BY DEF TypeInv
<1>1. ASSUME NEW s \in Servers, Abort(s) PROVE ServerInv(t)'
  <2>1. /\ UNCHANGED <<version, weights, label>>
        /\ stage[s] = "due" /\ stage' = [stage EXCEPT ![s] = "aborted"]
        /\ cache' = [cache EXCEPT ![s] = {}]
    BY <1>1, AbortCases
  <2> QED BY <1>0, <2>1 DEF ServerInv
<1>2. ASSUME NEW s \in Servers, BeginTransfer(s) PROVE ServerInv(t)'
  BY <1>0, <1>2 DEF ServerInv, BeginTransfer
<1>3. ASSUME NEW s \in Servers, EndTransfer(s) PROVE ServerInv(t)'
  BY <1>0, <1>3 DEF ServerInv, EndTransfer, ClearKvCache
<1>4. ASSUME NEW s \in Servers, SetGlobalSteps(s) PROVE ServerInv(t)'
  BY <1>0, <1>4 DEF ServerInv, SetGlobalSteps
<1>5. ASSUME NEW s \in Servers, ResumeGeneration(s) PROVE ServerInv(t)'
  BY <1>0, <1>5 DEF ServerInv, ResumeGeneration
<1>6. CASE BeginSync
  BY <1>0, <1>6 DEF ServerInv, BeginSync
<1>7. ASSUME NEW r \in Requests, Token(r) PROVE ServerInv(t)'
  <2>1. /\ UNCHANGED <<version, stage, weights, label>> /\ phase[r] = "running"
        /\ cache' = [cache EXCEPT ![server[r]] = @ \cup {weights[server[r]]}]
    BY <1>7, TokenCases
  <2>2. stage[server[r]] \in {"serving", "due"}
    BY <2>1 DEF EngineInv
  <2> QED BY <1>0, <2>1, <2>2 DEF ServerInv
<1>8. CASE UNCHANGED srv
  BY <1>8 DEF srv, ServerInv
<1>9. CASE (\E r \in Requests : Admit(r) \/ \E s \in Servers : Call(r, s)) \/ UNCHANGED vars
  BY <1>8, <1>9 DEF Call, Admit, vars, srv
<1> QED BY <1>1, <1>2, <1>3, <1>4, <1>5, <1>6, <1>7, <1>9
        DEF Next, Request, Sync, Finished

\* The elements of a sequence and of its extensions.
LEMMA RangeSeq ==
  ASSUME NEW S, NEW a \in Seq(S), NEW b \in Seq(S), NEW e \in S
  PROVE  /\ Range(Append(a, e)) = Range(a) \cup {e}
         /\ Range(a \o b) = Range(a) \cup Range(b)
         /\ Range(<<>>) = {} /\ Range(a) \subseteq S
<1>1. Range(Append(a, e)) \subseteq Range(a) \cup {e}
  BY DEF Range
<1>2. Range(a) \cup {e} \subseteq Range(Append(a, e))
  <2>1. Append(a, e)[Len(a) + 1] = e /\ Len(a) + 1 \in DOMAIN Append(a, e)
    OBVIOUS
  <2>2. \A i \in DOMAIN a : Append(a, e)[i] = a[i] /\ i \in DOMAIN Append(a, e)
    OBVIOUS
  <2> QED BY <2>1, <2>2 DEF Range
<1>3. Range(a \o b) \subseteq Range(a) \cup Range(b)
  <2> SUFFICES ASSUME NEW i \in DOMAIN (a \o b)
               PROVE  (a \o b)[i] \in Range(a) \cup Range(b)
    BY DEF Range
  <2>1. CASE i \in 1..Len(a)
    BY <2>1 DEF Range
  <2>2. CASE i \notin 1..Len(a)
    <3>1. i - Len(a) \in 1..Len(b) /\ (a \o b)[i] = b[i - Len(a)]
      BY <2>2
    <3> QED BY <3>1 DEF Range
  <2> QED BY <2>1, <2>2
<1>4. Range(a) \cup Range(b) \subseteq Range(a \o b)
  <2>1. \A i \in DOMAIN a : (a \o b)[i] = a[i] /\ i \in DOMAIN (a \o b)
    OBVIOUS
  <2>2. \A i \in DOMAIN b : /\ (a \o b)[Len(a) + i] = b[i]
                            /\ Len(a) + i \in DOMAIN (a \o b)
    OBVIOUS
  <2> QED BY <2>1, <2>2 DEF Range
<1>5. Range(<<>>) = {} /\ Range(a) \subseteq S
  BY DEF Range
<1> QED BY <1>1, <1>2, <1>3, <1>4, <1>5

\* A call that an engine runs is on a server that has not been aborted for the
\* transfer, and its tokens are of the version that the server announced.
LEMMA EngineStep ==
  ASSUME Pausing, TypeInv, \A r \in Requests : SizeInv(r),
         \A s \in Servers : ServerInv(s), \A r \in Requests : EngineInv(r), [Next]_vars
  PROVE  \A q \in Requests : EngineInv(q)'
<1> TAKE q \in Requests
<1>0. /\ stage \in [Servers -> StageNames] /\ label \in [Servers -> Versions]
      /\ phase \in [Requests -> Phases] /\ server \in [Requests -> Servers]
  BY DEF TypeInv
<1>t. /\ chunk[q] \in Seq(TokenValues) /\ server[q] \in Servers
      /\ weights[server[q]] \in TokenValues
  BY DEF TypeInv
<1>1. ASSUME NEW r \in Requests, NEW s \in Servers, Call(r, s) PROVE EngineInv(q)'
  <2>1. /\ UNCHANGED <<stage, label, chunk>> /\ phase'[r] # "running"
        /\ q # r => phase'[q] = phase[q] /\ server'[q] = server[q]
    BY <1>0, <1>1 DEF Call, srv
  <2> QED BY <2>1 DEF EngineInv
<1>2. ASSUME NEW r \in Requests, Admit(r) PROVE EngineInv(q)'
  <2>1. /\ UNCHANGED <<stage, label, chunk, server>>
        /\ q # r => phase'[q] = phase[q]
        /\ phase[r] = "queued" /\ stage[server[r]] \in {"serving", "due"}
    BY <1>0, <1>2 DEF Admit, srv, Paused
  <2>2. q = r => Range(chunk[q]) = {}
    BY <1>t, <2>1, RangeSeq DEF SizeInv
  <2> QED BY <2>1, <2>2 DEF EngineInv
<1>3. ASSUME NEW r \in Requests, Token(r) PROVE EngineInv(q)'
  <2>1. /\ UNCHANGED <<stage, label, server>> /\ phase[r] = "running"
        /\ q # r => UNCHANGED <<phase[q], chunk[q]>>
        /\ \/ chunk'[r] = Append(chunk[r], weights[server[r]]) /\ phase'[r] = phase[r]
           \/ phase'[r] = "done"
    BY <1>3, TokenCases
  <2>2. CASE q # r
    BY <2>1, <2>2 DEF EngineInv
  <2>3. CASE q = r
    <3>1. stage[server[r]] \in {"serving", "due"} /\ Range(chunk[r]) \subseteq {label[server[r]]}
      BY <2>1 DEF EngineInv
    <3>2. weights[server[q]] = label[server[q]]
      BY <1>t, <2>3, <3>1, ServingLabel
    <3>3. Range(Append(chunk[q], weights[server[q]])) = Range(chunk[q]) \cup {weights[server[q]]}
      BY <1>t, RangeSeq
    <3> QED BY <2>1, <2>3, <3>1, <3>2, <3>3 DEF EngineInv
  <2> QED BY <2>2, <2>3
<1>4. ASSUME NEW s \in Servers, Abort(s) PROVE EngineInv(q)'
  <2>1. /\ UNCHANGED <<label, server>> /\ stage' = [stage EXCEPT ![s] = "aborted"]
        /\ q \notin Running(s) => UNCHANGED <<phase[q], chunk[q]>>
        /\ q \in Running(s) => phase'[q] = PhaseAfter(final'[q])
    BY <1>4, AbortCases
  <2>2. PhaseAfter(final'[q]) # "running"
    BY DEF PhaseAfter
  <2>3. phase'[q] = "running" => phase[q] = "running" /\ server[q] # s /\ chunk'[q] = chunk[q]
    BY <2>1, <2>2 DEF Running
  <2> QED BY <1>0, <1>t, <2>1, <2>3 DEF EngineInv
<1>5. ASSUME NEW s \in Servers,
             stage[s] \notin {"serving", "due"}, UNCHANGED <<client, chunk>>,
             \A u \in Servers \ {s} : stage'[u] = stage[u] /\ label'[u] = label[u]
      PROVE  EngineInv(q)'
  <2>1. UNCHANGED <<phase, server, chunk>>
    BY <1>5 DEF client
  <2>2. phase[q] = "running" => server[q] # s
    BY <1>5 DEF EngineInv
  <2> QED BY <1>5, <1>t, <2>1, <2>2 DEF EngineInv
<1>6. ASSUME NEW s \in Servers,
             BeginTransfer(s) \/ EndTransfer(s) \/ SetGlobalSteps(s) \/ ResumeGeneration(s)
      PROVE  EngineInv(q)'
  <2>1. /\ stage[s] \notin {"serving", "due"} /\ UNCHANGED <<client, chunk>>
        /\ \A u \in Servers \ {s} : stage'[u] = stage[u] /\ label'[u] = label[u]
    BY <1>0, <1>6 DEF BeginTransfer, EndTransfer, SetGlobalSteps, ResumeGeneration
  <2> QED BY <1>5, <2>1
<1>7. CASE BeginSync
  BY <1>t, <1>7 DEF BeginSync, client, EngineInv
<1>8. CASE UNCHANGED vars
  BY <1>8 DEF vars, EngineInv
<1> QED BY <1>1, <1>2, <1>3, <1>4, <1>6, <1>7, <1>8 DEF Next, Request, Sync, Finished

\* The servers, and the calls in their engines, in every reachable state.
THEOREM ServersHold ==
  ASSUME Pausing
  PROVE  Spec => []((\A s \in Servers : ServerInv(s)) /\ (\A r \in Requests : EngineInv(r)))
<1>1. Init => (\A s \in Servers : ServerInv(s)) /\ (\A r \in Requests : EngineInv(r))
  BY DEF Init, ServerInv, EngineInv
<1>2. /\ TypeInv /\ (\A r \in Requests : SizeInv(r))
      /\ (\A s \in Servers : ServerInv(s)) /\ (\A r \in Requests : EngineInv(r))
      /\ [Next]_vars
      => ((\A s \in Servers : ServerInv(s)) /\ (\A r \in Requests : EngineInv(r)))'
  BY ServerStep, EngineStep
<1> QED BY <1>1, <1>2, ShapeHolds, SizesHold, PTL DEF Spec

\* ServesOneVersion, for every engine with pause_generation: a token is computed
\* with complete weights, after a prefix cached with the same ones, and under
\* the label of these weights.
THEOREM ServesOneVersionHolds == ASSUME Pausing PROVE Spec => []ServesOneVersion
<1>1. /\ TypeInv /\ (\A s \in Servers : ServerInv(s)) /\ (\A r \in Requests : EngineInv(r))
      => ServesOneVersion
  <2> SUFFICES ASSUME TypeInv, \A s \in Servers : ServerInv(s), NEW r \in Requests,
                      EngineInv(r), phase[r] = "running"
               PROVE  /\ weights[server[r]] = label[server[r]]
                      /\ cache[server[r]] \subseteq {weights[server[r]]}
    BY DEF ServesOneVersion
  <2>1. server[r] \in Servers /\ stage[server[r]] \in {"serving", "due"}
    BY DEF TypeInv, EngineInv
  <2>2. weights[server[r]] = label[server[r]]
    BY <2>1, ServingLabel
  <2>3. cache[server[r]] \subseteq {weights[server[r]]}
    BY <2>1 DEF ServerInv
  <2> QED BY <2>2, <2>3
<1> QED BY <1>1, ShapeHolds, ServersHold, PTL

-----------------------------------------------------------------------------
(* The versions noted for a generation *)

\* An output that a step does not touch stays within its versions, as the labels
\* of the servers only grow.
LEMMA WindowFrame ==
  ASSUME TypeInv, TypeInv', NEW q \in Requests, WindowInv(q), final'[q] = final[q],
         phase'[q] = "done" => phase[q] = "done",
         \A u \in Servers : label[u] <= label'[u]
  PROVE  WindowInv(q)'
<1>1. \A u \in Servers : label[u] \in Int /\ label'[u] \in Int
  BY ModeAssumption DEF TypeInv, Versions
<1>2. \A v \in Versions : v \in Int
  BY ModeAssumption DEF Versions
<1> DEFINE tokens == Range(final[q].tokens)
           min == final[q].min
<1>3. /\ Range(final'[q].tokens) = tokens /\ final'[q].min = min
      /\ final'[q].tokens = final[q].tokens /\ final'[q].max = final[q].max
  OBVIOUS
<1>4. min \in Versions \cup {Unknown}
  BY DEF TypeInv, Outputs, Labels
<1>5. \A v \in tokens : v \in Versions /\ \A s \in Servers : v <= label[s]
  BY DEF WindowInv
<1>6. min # Unknown => /\ \A v \in tokens : min <= v
                       /\ \A s \in Servers : min <= label[s]
  BY DEF WindowInv
<1> HIDE DEF tokens, min
<1>7. \A v \in tokens : \A s \in Servers : v <= label'[s]
  <2> SUFFICES ASSUME NEW v \in tokens, NEW s \in Servers PROVE v <= label'[s]
    OBVIOUS
  <2>1. v \in Int /\ v <= label[s] /\ label[s] <= label'[s] /\ label[s] \in Int /\ label'[s] \in Int
    BY <1>1, <1>2, <1>5
  <2> QED BY <2>1
<1>8. min # Unknown => \A s \in Servers : min <= label'[s]
  <2> SUFFICES ASSUME min # Unknown, NEW s \in Servers PROVE min <= label'[s]
    OBVIOUS
  <2>1. min \in Int /\ min <= label[s] /\ label[s] <= label'[s] /\ label[s] \in Int /\ label'[s] \in Int
    BY <1>1, <1>2, <1>4, <1>6
  <2> QED BY <2>1
<1> QED BY <1>3, <1>5, <1>6, <1>7, <1>8 DEF WindowInv, tokens, min

\* Merging tokens of the version l that every server announces keeps an output
\* within its versions.
LEMMA WindowMerge ==
  ASSUME TypeInv, NEW q \in Requests, WindowInv(q), UNCHANGED label,
         NEW l \in Versions, \A u \in Servers : label[u] = l,
         NEW t \in Seq(TokenValues), Range(t) \subseteq {l},
         NEW steps \in {l, Unknown}, steps = Unknown => t = <<>>,
         Merged(q, final[q], final'[q], t, steps),
         phase'[q] = "done" => steps # Unknown
  PROVE  WindowInv(q)'
<1> DEFINE old == final[q]
           out == final'[q]
<1>1. /\ old.tokens \in Seq(TokenValues) /\ old.min \in Versions \cup {Unknown}
  BY DEF TypeInv, Outputs, Labels
<1>2. /\ out.tokens = old.tokens \o t
      /\ out.min = IF old.min = Unknown THEN steps ELSE old.min
      /\ out.max = steps
  BY DEF Merged
<1>3. \A v \in Versions : v \in Int /\ v # Unknown
  BY ModeAssumption, ValueAssumption DEF Versions
<1>4. Range(out.tokens) = Range(old.tokens) \cup Range(t)
  <2>1. Range(old.tokens \o t) = Range(old.tokens) \cup Range(t)
    <3>1. PICK e : e \in TokenValues
      BY DEF TokenValues
    <3> QED BY <1>1, <3>1, RangeSeq
  <2> QED BY <1>2, <2>1
<1>5. /\ \A v \in Range(old.tokens) : v \in Versions /\ \A s \in Servers : v <= label[s]
      /\ old.min = Unknown => old.tokens = <<>>
      /\ old.min # Unknown => /\ \A v \in Range(old.tokens) : old.min <= v
                              /\ \A s \in Servers : old.min <= label[s]
  BY DEF WindowInv
<1>6. Range(<<>>) = {} /\ <<>> \o <<>> = <<>>
  BY DEF Range
<1>7. server[q] \in Servers /\ l \in Int
  BY <1>3 DEF TypeInv
<1>8. \A v \in Range(old.tokens) : v <= l
  BY <1>5, <1>7
<1>9. old.min # Unknown => old.min \in Int /\ old.min <= l
  BY <1>1, <1>3, <1>5, <1>7
<1>10. \A v \in Range(out.tokens) : v \in Versions /\ v <= l
  BY <1>4, <1>5, <1>7, <1>8
<1>11. out.min = Unknown => out.tokens = <<>>
  BY <1>2, <1>5, <1>6
<1>12. out.min # Unknown => (\A v \in Range(out.tokens) : out.min <= v) /\ out.min <= l
  <2>1. CASE old.min = Unknown
    <3>1. Range(out.tokens) \subseteq {l} /\ out.min \in {l, Unknown}
      BY <1>2, <1>4, <1>5, <1>6, <2>1
    <3> QED BY <1>7, <3>1
  <2>2. CASE old.min # Unknown
    BY <1>2, <1>4, <1>5, <1>7, <1>9, <2>2
  <2> QED BY <2>1, <2>2
<1>13. steps # Unknown => out.min # Unknown /\ out.max # Unknown /\ out.max = l
  BY <1>2
<1> HIDE DEF old, out
<1>14. /\ \A v \in Range(out.tokens) : v \in Versions /\ \A s \in Servers : v <= label'[s]
       /\ out.min = Unknown => out.tokens = <<>>
       /\ out.min # Unknown =>
            /\ \A v \in Range(out.tokens) : out.min <= v
            /\ \A s \in Servers : out.min <= label'[s]
       /\ phase'[q] = "done" =>
            /\ out.min # Unknown /\ out.max # Unknown
            /\ \A v \in Range(out.tokens) : v <= out.max
  BY <1>10, <1>11, <1>12, <1>13
<1> QED BY <1>14 DEF WindowInv, out

\* What keeps the versions of an output, together with them.
GenerationInv ==
  /\ TypeInv
  /\ \A r \in Requests : SizeInv(r)
  /\ \A s \in Servers : ServerInv(s)
  /\ \A r \in Requests : EngineInv(r)
  /\ \A r \in Requests : WindowInv(r)

\* An aborted generation is resumed: it cannot have reached the limit of the
\* caller, as the engine would have ended it.
LEMMA AbortResumes ==
  ASSUME Resume, TypeInv, \A r \in Requests : SizeInv(r), NEW s \in Servers, Abort(s),
         NEW q \in Running(s)
  PROVE  phase'[q] = "calling"
<1>1. /\ q \in Requests /\ phase[q] = "running"
      /\ \E steps \in {label[s], Unknown} : Merged(q, final[q], final'[q], chunk[q], steps)
      /\ phase'[q] = "calling" \/ ~Resume
           \/ (Limit # Unknown /\ Len(final'[q].tokens) >= Limit)
  BY AbortCases
<1>2. final'[q].tokens = final[q].tokens \o chunk[q]
  BY <1>1 DEF Merged
<1> DEFINE f == Len(final[q].tokens)
           c == Len(chunk[q])
           b == budget[q]
<1>3. c < b /\ f + b <= Bound(q)
  BY <1>1 DEF SizeInv
<1>4. /\ f \in Nat /\ c \in Nat /\ b \in Nat /\ Bound(q) \in Int
      /\ final[q].tokens \in Seq(TokenValues) /\ chunk[q] \in Seq(TokenValues)
  BY <1>1, Lengths
<1>5. Len(final'[q].tokens) = f + c
  BY <1>2, <1>4
<1>6. Limit # Unknown => Bound(q) = Limit
  BY DEF Bound
<1> HIDE DEF f, c, b
<1>7. ~(f + c >= Bound(q))
  BY <1>3, <1>4
<1> QED BY <1>1, <1>5, <1>6, <1>7

\* The merged window of versions covers the tokens of the request after every
\* step.
LEMMA WindowStep ==
  ASSUME Pausing, Resume, GenerationInv, TypeInv', [Next]_vars
  PROVE  \A q \in Requests : WindowInv(q)'
<1> TAKE q \in Requests
<1> USE DEF GenerationInv
<1>0. /\ phase \in [Requests -> Phases] /\ label \in [Servers -> Versions]
      /\ \A s \in Servers : label[s] \in Int
  BY ModeAssumption DEF TypeInv, Versions
<1>f. ASSUME UNCHANGED label, final'[q] = final[q], phase'[q] = "done" => phase[q] = "done"
      PROVE  WindowInv(q)'
  <2>1. \A u \in Servers : label[u] <= label'[u]
    BY <1>0, <1>f
  <2> QED BY <1>f, <2>1, WindowFrame
<1>1. ASSUME NEW r \in Requests, NEW s \in Servers, Call(r, s) PROVE WindowInv(q)'
  <2>1. UNCHANGED <<label, final>> /\ (phase'[q] = "done" => phase[q] = "done")
    BY <1>0, <1>1 DEF Call, srv
  <2> QED BY <1>f, <2>1
<1>2. ASSUME NEW r \in Requests, Admit(r) PROVE WindowInv(q)'
  <2>1. UNCHANGED <<label, final>> /\ (phase'[q] = "done" => phase[q] = "done")
    BY <1>0, <1>2 DEF Admit, srv
  <2> QED BY <1>f, <2>1
<1>3. ASSUME NEW r \in Requests, Token(r) PROVE WindowInv(q)'
  <2> DEFINE s == server[r]
             tokens == Append(chunk[r], weights[s])
  <2>1. /\ phase[r] = "running" /\ UNCHANGED label
        /\ q # r => UNCHANGED <<phase[q], final[q]>>
        /\ tokens \in Seq(TokenValues)
        /\ \/ UNCHANGED <<phase[r], final[r]>>
           \/ Merged(r, final[r], final'[r], tokens, label[s])
    BY <1>3, TokenCases
  <2>2. CASE UNCHANGED <<phase[q], final[q]>>
    BY <1>f, <2>1, <2>2
  <2>3. CASE q = r /\ Merged(r, final[r], final'[r], tokens, label[s])
    <3>1. s \in Servers /\ label[s] \in Versions /\ stage[s] \in {"serving", "due"}
          /\ chunk[r] \in Seq(TokenValues) /\ weights[s] \in TokenValues
          /\ Range(chunk[r]) \subseteq {label[s]}
      BY <2>1 DEF TypeInv, EngineInv
    <3>2. weights[s] = label[s] /\ \A u \in Servers : label[u] = label[s]
      BY <3>1, ServingLabel
    <3>3. Range(tokens) \subseteq {label[s]}
      BY <3>1, <3>2, RangeSeq
    <3>4. label[s] # Unknown
      BY <3>1, ValueAssumption, ModeAssumption DEF Versions
    <3> HIDE DEF tokens, s
    <3> QED BY <2>1, <2>3, <3>1, <3>2, <3>3, <3>4, WindowMerge
  <2> QED BY <2>1, <2>2, <2>3
<1>4. ASSUME NEW s \in Servers, Abort(s) PROVE WindowInv(q)'
  <2>1. CASE q \notin Running(s)
    BY <1>4, <1>f, <2>1, AbortCases
  <2>2. CASE q \in Running(s)
    <3>1. /\ UNCHANGED label /\ stage[s] = "due" /\ phase[q] = "running" /\ server[q] = s
          /\ \E steps \in {label[s], Unknown} :
               /\ steps = Unknown => chunk[q] = <<>>
               /\ Merged(q, final[q], final'[q], chunk[q], steps)
      BY <1>4, <2>2, AbortCases
    <3>2. PICK steps \in {label[s], Unknown} :
            /\ steps = Unknown => chunk[q] = <<>>
            /\ Merged(q, final[q], final'[q], chunk[q], steps)
      BY <3>1
    <3>3. /\ label[s] \in Versions /\ chunk[q] \in Seq(TokenValues)
          /\ Range(chunk[q]) \subseteq {label[s]}
      BY <3>1 DEF TypeInv, EngineInv
    <3>4. \A u \in Servers : label[u] = label[s]
      BY <3>1, ServingLabel
    <3>5. phase'[q] = "calling"
      BY <1>4, <2>2, AbortResumes
    <3> QED BY <3>1, <3>2, <3>3, <3>4, <3>5, WindowMerge
  <2> QED BY <2>1, <2>2
<1>5. ASSUME NEW s \in Servers, SetGlobalSteps(s) PROVE WindowInv(q)'
  <2>1. /\ UNCHANGED <<phase, final>> /\ stage[s] = "received"
        /\ label' = [label EXCEPT ![s] = version]
    BY <1>5 DEF SetGlobalSteps, client
  <2>2. label[s] + 1 = version
    BY <2>1 DEF ServerInv
  <2>3. \A u \in Servers : label[u] <= label'[u]
    BY <1>0, <2>1, <2>2
  <2> QED BY <2>1, <2>3, WindowFrame
<1>6. CASE BeginSync \/ (\E s \in Servers : BeginTransfer(s) \/ EndTransfer(s)
                                            \/ ResumeGeneration(s))
  <2>1. UNCHANGED <<label, final, phase>>
    BY <1>6 DEF BeginSync, BeginTransfer, EndTransfer, ResumeGeneration, client
  <2> QED BY <1>f, <2>1
<1>7. CASE UNCHANGED vars
  BY <1>f, <1>7 DEF vars
<1> QED BY <1>1, <1>2, <1>3, <1>4, <1>5, <1>6, <1>7 DEF Next, Request, Sync, Finished

\* The inductive invariant of interrupted generation, when the engines pause and
\* the client resumes.
THEOREM GenerationInvHolds == ASSUME Pausing, Resume PROVE Spec => []GenerationInv
<1>1. Init => \A r \in Requests : WindowInv(r)
  BY DEF Init, WindowInv, NoOutput, Range
<1>2. GenerationInv /\ TypeInv' /\ [Next]_vars => (\A r \in Requests : WindowInv(r))'
  BY WindowStep
<1> QED BY <1>1, <1>2, ShapeHolds, SizesHold, ServersHold, PTL DEF Spec, GenerationInv

\* VersionWindow: the versions that assemble_batch reads from a returned answer
\* are known and enclose the version of every token of it, however often it was
\* aborted and whichever servers resumed it.
THEOREM VersionWindowHolds == ASSUME Pausing, Resume PROVE Spec => []VersionWindow
<1>1. GenerationInv => VersionWindow
  BY DEF GenerationInv, TypeInv, Outputs, Labels, WindowInv, VersionWindow
<1> QED BY <1>1, GenerationInvHolds, PTL

-----------------------------------------------------------------------------
(* The client implements one uninterrupted generation *)

\* The response that the caller is owed so far.
Response(r) == final[r].tokens \o chunk[r]

\* Steps that change no response and return nothing are invisible to the caller.
LEMMA Invisible ==
  ASSUME \A r \in Requests : Response(r)' = Response(r) /\ (phase'[r] = "done") = (phase[r] = "done")
  PROVE  UNCHANGED Promise!vars
<1>1. [r \in Requests |-> final[r].tokens \o chunk[r]]'
        = [r \in Requests |-> final[r].tokens \o chunk[r]]
  BY DEF Response
<1>2. [r \in Requests |-> phase[r] = "done"]' = [r \in Requests |-> phase[r] = "done"]
  OBVIOUS
<1> QED BY <1>1, <1>2 DEF Promise!vars

\* Concatenation and Append, as Merge and Token use them.
LEMMA SeqFacts ==
  ASSUME NEW S, NEW a \in Seq(S), NEW b \in Seq(S), NEW e \in S
  PROVE  /\ a \o Append(b, e) = Append(a \o b, e)
         /\ a \o <<>> = a
         /\ a # <<>> => Last(a) \in Range(a)
<1>1. a \o Append(b, e) = Append(a \o b, e)
  OBVIOUS
<1>2. a \o <<>> = a
  OBVIOUS
<1>3. a # <<>> => Last(a) \in Range(a)
  <2>1. a # <<>> => Len(a) \in DOMAIN a
    OBVIOUS
  <2> QED BY <2>1 DEF Last, Range
<1> QED BY <1>1, <1>2, <1>3

\* A token is one step of the generation, whether or not it is the last one.
LEMMA TokenGrows ==
  ASSUME GenerationInv, NEW r \in Requests, Token(r)
  PROVE  \E v \in Versions : Promise!Grow(r, v)
<1> DEFINE s == server[r]
           v == weights[s]
           f == final[r].tokens
           c == chunk[r]
<1>1. /\ phase[r] = "running"
      /\ \A q \in Requests \ {r} : UNCHANGED <<phase[q], chunk[q], final[q]>>
      /\ \/ chunk'[r] = Append(c, v) /\ UNCHANGED <<phase[r], final[r]>>
         \/ chunk'[r] = <<>> /\ phase'[r] = "done" /\ final'[r].tokens = f \o Append(c, v)
  BY TokenCases DEF GenerationInv, Merged
<1>2. /\ f \in Seq(TokenValues) /\ c \in Seq(TokenValues) /\ v \in TokenValues
      /\ s \in Servers /\ label[s] \in Versions
  BY Lengths DEF GenerationInv, TypeInv
<1>3. stage[s] \in {"serving", "due"} /\ Range(c) \subseteq {label[s]}
  BY <1>1 DEF GenerationInv, EngineInv
<1>4. v = label[s]
  BY <1>2, <1>3, ServingLabel DEF GenerationInv
<1>5. \A w \in Range(f) : w <= v
  BY <1>2, <1>4 DEF GenerationInv, WindowInv
<1>6. v \in Versions /\ v <= v
  BY <1>2, <1>4, ModeAssumption DEF Versions
<1>7. /\ f \o Append(c, v) = Append(f \o c, v) /\ f \o c \in Seq(TokenValues)
      /\ Append(f \o c, v) \o <<>> = Append(f \o c, v)
  <2>1. f \o c \in Seq(TokenValues)
    BY <1>2
  <2>2. Append(f \o c, v) \in Seq(TokenValues)
    BY <1>2, <2>1
  <2> HIDE DEF f, c, v
  <2>3. f \o Append(c, v) = Append(f \o c, v)
    BY <1>2, SeqFacts
  <2>4. Append(f \o c, v) \o <<>> = Append(f \o c, v)
    BY <1>2, <2>2, SeqFacts
  <2> QED BY <2>1, <2>3, <2>4
<1>8. f \o c = <<>> \/ Last(f \o c) <= v
  <2>1. Range(f \o c) = Range(f) \cup Range(c)
    BY <1>2, RangeSeq
  <2>2. f \o c # <<>> => Last(f \o c) \in Range(f \o c)
    BY <1>2, <1>7, SeqFacts
  <2> QED BY <1>3, <1>4, <1>5, <1>6, <2>1, <2>2
<1> DEFINE resp == [q \in Requests |-> final[q].tokens \o chunk[q]]
           ret == [q \in Requests |-> phase[q] = "done"]
<1>9. resp' = [resp EXCEPT ![r] = Append(@, v)]
  <2>1. \A q \in Requests \ {r} : final'[q].tokens \o chunk'[q] = final[q].tokens \o chunk[q]
    BY <1>1
  <2>2. final'[r].tokens \o chunk'[r] = Append(f \o c, v)
    <3>1. CASE chunk'[r] = Append(c, v) /\ UNCHANGED <<phase[r], final[r]>>
      BY <1>7, <3>1
    <3>2. CASE chunk'[r] = <<>> /\ phase'[r] = "done" /\ final'[r].tokens = f \o Append(c, v)
      BY <1>7, <3>2
    <3> QED BY <1>1, <3>1, <3>2
  <2> HIDE DEF v
  <2> QED BY <2>1, <2>2
<1>10. ret' \in {ret, [ret EXCEPT ![r] = TRUE]}
  <2>1. CASE UNCHANGED phase[r]
    BY <1>1, <2>1
  <2>2. CASE phase'[r] = "done"
    BY <1>1, <2>2
  <2> QED BY <1>1, <2>1, <2>2
<1>11. ~ret[r] /\ resp[r] = f \o c
  BY <1>1
<1>12. ASSUME NEW w \in Versions, w = v PROVE Promise!Grow(r, w)
  <2> HIDE DEF v
  <2>1. /\ ~ret[r]
        /\ resp[r] = <<>> \/ Last(resp[r]) <= w
        /\ resp' = [resp EXCEPT ![r] = Append(@, w)]
        /\ ret' \in {ret, [ret EXCEPT ![r] = TRUE]}
    <3> HIDE DEF resp, ret, f, c
    <3> QED BY <1>8, <1>9, <1>10, <1>11, <1>12
  <2> QED BY <2>1 DEF Promise!Grow, Promise!Last, Last
<1> QED BY <1>6, <1>12

\* Every step is a step of the uninterrupted generation or invisible.
LEMMA StepImplements ==
  ASSUME Pausing, Resume, GenerationInv, [Next]_vars
  PROVE  [Promise!Next]_(Promise!vars)
<1>0. /\ TypeInv /\ phase \in [Requests -> Phases] /\ \A r \in Requests : SizeInv(r)
  BY DEF GenerationInv, TypeInv
<1>1. ASSUME NEW r \in Requests, NEW s \in Servers, Call(r, s) PROVE UNCHANGED Promise!vars
  <2>1. UNCHANGED <<chunk, final>> /\ \A q \in Requests : (phase'[q] = "done") = (phase[q] = "done")
    BY <1>0, <1>1 DEF Call
  <2> QED BY <2>1, Invisible DEF Response
<1>2. ASSUME NEW r \in Requests, Admit(r) PROVE UNCHANGED Promise!vars
  <2>1. UNCHANGED <<chunk, final>> /\ \A q \in Requests : (phase'[q] = "done") = (phase[q] = "done")
    BY <1>0, <1>2 DEF Admit
  <2> QED BY <2>1, Invisible DEF Response
<1>3. ASSUME NEW r \in Requests, Token(r) PROVE Promise!Next
  BY <1>3, TokenGrows DEF Promise!Next
<1>4. ASSUME NEW s \in Servers, Abort(s) PROVE UNCHANGED Promise!vars
  <2> SUFFICES ASSUME NEW q \in Requests
               PROVE  Response(q)' = Response(q) /\ (phase'[q] = "done") = (phase[q] = "done")
    BY Invisible
  <2>1. CASE q \notin Running(s)
    <3>1. UNCHANGED <<phase[q], chunk[q], final[q]>>
      BY <1>0, <1>4, <2>1, AbortCases
    <3> QED BY <3>1 DEF Response
  <2>2. CASE q \in Running(s)
    <3>1. /\ phase[q] = "running" /\ chunk'[q] = <<>>
          /\ \E steps \in {label[s], Unknown} : Merged(q, final[q], final'[q], chunk[q], steps)
      BY <1>0, <1>4, <2>2, AbortCases
    <3>2. final'[q].tokens = final[q].tokens \o chunk[q]
      BY <3>1 DEF Merged
    <3>3. phase'[q] = "calling"
      BY <1>0, <1>4, <2>2, AbortResumes
    <3>4. final[q].tokens \o chunk[q] \in Seq(TokenValues)
      BY <1>0, Lengths
    <3>5. (final[q].tokens \o chunk[q]) \o <<>> = final[q].tokens \o chunk[q]
      BY <3>4
    <3> QED BY <3>1, <3>2, <3>3, <3>5 DEF Response
  <2> QED BY <2>1, <2>2
<1>5. CASE UNCHANGED <<client, chunk>>
  BY <1>5, Invisible DEF client, Response
<1>6. CASE BeginSync \/ (\E s \in Servers : BeginTransfer(s) \/ EndTransfer(s)
                            \/ SetGlobalSteps(s) \/ ResumeGeneration(s))
  BY <1>5, <1>6 DEF BeginSync, BeginTransfer, EndTransfer, SetGlobalSteps, ResumeGeneration
<1>7. CASE UNCHANGED vars
  BY <1>5, <1>7 DEF vars, client
<1> QED BY <1>1, <1>2, <1>3, <1>4, <1>6, <1>7 DEF Next, Request, Sync, Finished

\* ImplementsGeneration: with engines that pause and a client that resumes, what
\* the agent loop sees is one generation that only grows, whose versions never
\* fall from one token to the next, and that is returned once and never changed.
THEOREM GenerationImplemented ==
  ASSUME Pausing, Resume PROVE Spec => ImplementsGeneration
<1>1. Init => Promise!Init
  <2> SUFFICES ASSUME Init PROVE Promise!Init
    OBVIOUS
  <2>1. \A r \in Requests : final[r].tokens \o chunk[r] = <<>> /\ (phase[r] = "done") = FALSE
    BY DEF Init, NoOutput
  <2> QED BY <2>1 DEF Promise!Init
<1>2. GenerationInv /\ [Next]_vars => [Promise!Next]_(Promise!vars)
  BY StepImplements
<1> QED BY <1>1, <1>2, GenerationInvHolds, PTL DEF Spec, ImplementsGeneration, Promise!Spec
=============================================================================
