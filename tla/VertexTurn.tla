----------------------------- MODULE VertexTurn -----------------------------
(***************************************************************************)
(* One turn of the Atri assistant, from the generation slot that           *)
(* _atri_message takes to the answer or the error it gets.  The supervisor *)
(* (_vertex_generate) may let a worker of the free pool draft the answer   *)
(* and have the draft verified, at most twice; every generation            *)
(* (_vertex_generate_vertex) is a loop of rounds in which Vertex answers,  *)
(* asks for tools, or says nothing; every round is a POST with retries     *)
(* (post_vertex).                                                          *)
(*                                                                         *)
(* Vertex, the tools and the pool answer anything they can.  Prompts are   *)
(* data; the requests a tool makes itself are part of the tool.            *)
(***************************************************************************)
EXTENDS Naturals, Sequences, FiniteSets

CONSTANTS
    MaxToolRounds,     \* max_tool_rounds
    MaxContinuations,  \* MAX_CONTINUATION_ROUNDS
    MaxEmpty,          \* max_empty_text_retries
    MaxCalls,          \* bound on the tool calls of a round
    Concurrency        \* CODE_TOOL_CONCURRENCY

ASSUME VertexAssumption ==
    /\ MaxToolRounds \in Nat /\ MaxContinuations \in Nat /\ MaxEmpty \in Nat
    /\ MaxCalls \in Nat \ {0} /\ Concurrency \in Nat \ {0}

Rounds == MaxToolRounds + MaxContinuations + MaxEmpty + 1

Modes == {"chat", "web", "tools", "code"}
Tools == {"search", "call", "other"}  \* code_plugin_search, code_plugin_call
Workers == {"worker", "worker again"}
Verifiers == {"verify", "verify again"}
Generations == Verifiers \cup {"final", "instead"}
Ends == {"answered", "failed"}

VARIABLES
    request,    \* what the route depends on
    stage,      \* of the supervisor
    step,       \* of the generation
    round,      \* request_round
    attempt,    \* of post_vertex
    fresh,      \* whether a token was refreshed for this POST
    continued,  \* continuation_rounds
    empties,    \* empty_text_retries
    found,      \* github_plugin_search_done
    called,     \* github_mcp_call_done
    calls,      \* the function calls of the round
    error,      \* what failed last
    consulted   \* history variable: GitHub has answered a call

loopVars == <<round, continued, empties, found, called>>
postVars == <<attempt, fresh>>
turnVars == <<request, stage, step, loopVars, postVars, calls, error, consulted>>

\* public: the text alone is a request that passes the privacy gate; task: and
\* it is one for workers, not bound to Vertex by a skill; preloaded: the
\* catalogue of the GitHub tools is in the prompt
RequestKinds ==
    {q \in [mode : Modes, forced : BOOLEAN, public : BOOLEAN, task : BOOLEAN,
            preloaded : BOOLEAN] :
        /\ q.forced \/ q.preloaded => q.mode = "code"
        /\ q.task => q.public /\ ~q.forced /\ q.mode \in {"chat", "code"}}

Mode == IF stage = "final" THEN request.mode ELSE "chat"
Forced == stage = "final" /\ request.forced

-----------------------------------------------------------------------------
(* The supervisor *)

Generate(next) ==
    /\ stage' = next /\ step' = "post"
    /\ attempt' = 0 /\ fresh' = FALSE
    /\ round' = 0 /\ continued' = 0 /\ empties' = 0
    /\ found' = (next = "final" /\ request.preloaded)
    /\ called' = FALSE
    /\ calls' = <<>>

Quit(next) ==
    /\ stage' = next /\ step' = "idle"
    /\ UNCHANGED <<loopVars, postVars, calls>>

Route ==
    /\ stage = "route"
    /\ IF request.task THEN Quit("worker") ELSE Generate("final")
    /\ UNCHANGED <<request, error, consulted>>

\* generate_free_chat gives a draft, nothing, or an exception.
Worker(drafted) ==
    /\ stage \in Workers
    /\ CASE ~drafted -> Generate("final")
         [] drafted /\ stage = "worker" -> Generate("verify")
         [] OTHER -> Generate("verify again")
    /\ UNCHANGED <<request, error, consulted>>

\* An error of the generation.  A verifier's counts for nothing; of the final
\* one, a 400 in web mode falls back to chat mode and a passing failure ("busy")
\* in chat mode to the pool.
Raise(kind) ==
    /\ error' = kind
    /\ CASE stage \in Verifiers -> Generate("final")
         [] stage = "final" /\ request.mode = "web" /\ kind = "400" -> Generate("instead")
         [] stage = "final" /\ request.mode = "chat" /\ kind = "busy" /\ request.public ->
              Quit("pool")
         [] OTHER -> Quit("failed")
    /\ UNCHANGED <<request, consulted>>

\* _atri_public_chat_outage_fallback
Pool ==
    /\ stage = "pool"
    /\ \E next \in Ends : Quit(next)
    /\ UNCHANGED <<request, error, consulted>>

\* A generation returns its text; a verifier's text is its verdict.
Return ==
    /\ step = "return"
    /\ CASE stage = "verify" -> Generate("final") \/ Quit("worker again")
         [] stage = "verify again" -> Generate("final")
         [] OTHER -> Quit("answered")
    /\ UNCHANGED <<request, error, consulted>>

-----------------------------------------------------------------------------
(* A round *)

\* Broken on purpose: the token is refreshed for the last attempt.
PostFailsStale ==
    /\ step = "post"
    /\ \/ /\ attempt < 2
          /\ attempt' = attempt + 1
          /\ fresh' = (attempt' = 2)
          /\ UNCHANGED <<request, stage, step, loopVars, calls, error, consulted>>
       \/ attempt > 0 /\ Raise("401")
       \/ attempt = 2 /\ Raise("busy")
       \/ Raise("400") \/ Raise("other")

\* A 401 is tried once more with a refreshed token, what may pass (429, 5xx,
\* network) twice, nothing else.
PostFails ==
    /\ step = "post"
    /\ \/ /\ attempt < 2
          /\ attempt' = attempt + 1
          /\ fresh' = (fresh \/ attempt' = 1)
          /\ UNCHANGED <<request, stage, step, loopVars, calls, error, consulted>>
       \/ attempt > 0 /\ Raise("401")
       \/ attempt = 2 /\ Raise("busy")
       \/ Raise("400") \/ Raise("other")

\* What toolConfig demands, in mode ANY, that Vertex calls in this round
Demanded ==
    CASE ~Forced -> Tools
      [] Forced /\ ~found -> {"search"}
      [] Forced /\ found /\ ~called -> {"call"}
      [] OTHER -> Tools
Free == Demanded = Tools
Callable == IF Mode = "tools" THEN {"other"} ELSE Demanded

\* no text, whatever the finish reason
Empty ==
    /\ step = "post"
    /\ IF empties >= MaxEmpty
       THEN Raise("other")
       ELSE /\ empties' = empties + 1
            /\ step' = "next"
            /\ UNCHANGED <<request, stage, round, continued, found, called,
                           postVars, calls, error, consulted>>

\* text that is whole, or cut off by MAX_TOKENS and continued if that is allowed
Text(cut) ==
    /\ step = "post" /\ Free
    /\ empties' = 0
    /\ IF cut /\ continued < MaxContinuations
       THEN continued' = continued + 1 /\ step' = "next"
       ELSE step' = "return" /\ UNCHANGED continued
    /\ UNCHANGED <<request, stage, round, found, called, postVars, calls, error, consulted>>

\* Vertex calls tools: those of the mode, or the one that is demanded.
Call ==
    /\ step = "post" /\ Mode \in {"code", "tools"}
    /\ \E n \in 1..MaxCalls :
         \E names \in [1..n -> Callable] :
            calls' = [i \in 1..n |-> [tool |-> names[i], pc |-> "waiting"]]
    /\ step' = "tools"
    /\ UNCHANGED <<request, stage, round, continued, empties, found, called, postVars, error, consulted>>

InState(p) == {i \in 1..Len(calls) : calls[i].pc = p}

\* in order, one at a time; or in code mode several
StartTool(i) ==
    /\ step = "tools" /\ i \in InState("waiting")
    /\ \A j \in InState("waiting") : i <= j
    /\ Cardinality(InState("running")) < IF Mode = "code" THEN Concurrency ELSE 1
    /\ calls' = [calls EXCEPT ![i].pc = "running"]
    /\ UNCHANGED <<request, stage, step, loopVars, postVars, error, consulted>>

\* Broken on purpose: a call that failed counts.
EndToolAnyhow(i, ok) ==
    /\ step = "tools" /\ i \in InState("running")
    /\ calls' = [calls EXCEPT ![i].pc = "ended"]
    /\ found' = (found \/ (Forced /\ calls[i].tool = "search"))
    /\ called' = (called \/ (Forced /\ calls[i].tool = "call"))
    /\ consulted' = (consulted \/ (calls[i].tool = "call" /\ ok))
    /\ UNCHANGED <<request, stage, step, round, continued, empties, postVars, error>>

\* A result, an error, or the end of CODE_TOOL_TIMEOUT_SECONDS; when GitHub is
\* demanded every search and call is one of GitHub's.
EndTool(i, ok) ==
    /\ step = "tools" /\ i \in InState("running")
    /\ calls' = [calls EXCEPT ![i].pc = "ended"]
    /\ found' = (found \/ (Forced /\ ok /\ calls[i].tool = "search"))
    /\ called' = (called \/ (Forced /\ ok /\ calls[i].tool = "call"))
    /\ consulted' = (consulted \/ (calls[i].tool = "call" /\ ok))
    /\ UNCHANGED <<request, stage, step, round, continued, empties, postVars, error>>

\* all results are in: they go into contents
Gather ==
    /\ step = "tools" /\ InState("ended") = 1..Len(calls)
    /\ calls' = <<>>
    /\ step' = "next"
    /\ UNCHANGED <<request, stage, loopVars, postVars, error, consulted>>

\* Broken on purpose: every round has the retries of a new request.
NextRoundForever ==
    /\ step = "next"
    /\ round' = IF round + 1 < Rounds THEN round + 1 ELSE 0
    /\ step' = "post" /\ attempt' = 0 /\ fresh' = FALSE
    /\ UNCHANGED <<request, stage, continued, empties, found, called, calls, error, consulted>>

NextRound ==
    /\ step = "next"
    /\ IF round + 1 < Rounds
       THEN /\ round' = round + 1
            /\ step' = "post" /\ attempt' = 0 /\ fresh' = FALSE
            /\ UNCHANGED <<request, stage, continued, empties, found, called,
                           calls, error, consulted>>
       ELSE Raise("rounds")

TurnInit ==
    /\ request \in RequestKinds
    /\ stage = "route" /\ step = "idle"
    /\ round = 0 /\ attempt = 0 /\ fresh = FALSE
    /\ continued = 0 /\ empties = 0
    /\ found = FALSE /\ called = FALSE
    /\ calls = <<>>
    /\ error = "none" /\ consulted = FALSE

TurnNext ==
    \/ Route \/ Pool \/ Return \/ \E drafted \in BOOLEAN : Worker(drafted)
    \/ PostFails \/ Empty \/ Call \/ Gather \/ NextRound
    \/ \E cut \in BOOLEAN : Text(cut)
    \/ \E i \in 1..MaxCalls : StartTool(i) \/ \E ok \in BOOLEAN : EndTool(i, ok)

\* Every request has a timeout and so has every tool.
TurnSpec == TurnInit /\ [][TurnNext]_turnVars
FairTurnSpec == TurnSpec /\ WF_turnVars(TurnNext)

-----------------------------------------------------------------------------

TurnTypeOK ==
    /\ request \in RequestKinds
    /\ stage \in {"route", "pool"} \cup Workers \cup Generations \cup Ends
    /\ step \in {"idle", "post", "tools", "next", "return"}
    /\ step # "idle" <=> stage \in Generations
    /\ round \in 0..(Rounds - 1) /\ attempt \in 0..2 /\ fresh \in BOOLEAN
    /\ continued \in 0..MaxContinuations /\ empties \in 0..MaxEmpty
    /\ found \in BOOLEAN /\ called \in BOOLEAN /\ consulted \in BOOLEAN
    /\ calls \in Seq([tool : Tools, pc : {"waiting", "running", "ended"}])
    /\ error \in {"none", "401", "busy", "400", "other", "rounds"}

\* A turn that must look at GitHub is not answered before GitHub has been
\* called successfully, whatever fails, is retried or falls back.
GitHubFirst ==
    stage = "answered" /\ request.forced => consulted

\* An answer is refused for want of authentication only after this very POST
\* was tried with a refreshed token.
RefusedWithFreshToken ==
    stage = "failed" /\ error = "401" => fresh

\* Every turn is answered or fails, though text resets the count of empty
\* answers and a verifier's failure starts another generation.
TurnEnds == stage = "route" ~> stage \in Ends

=============================================================================
