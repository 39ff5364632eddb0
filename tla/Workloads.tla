----------------------------- MODULE Workloads -----------------------------
(***************************************************************************)
(* The three scripts that measure with one_request, as one specification:  *)
(*   sweep   p02-bench/bench.py                                            *)
(*   mixed   p08-chunked-prefill/experiment.py: a base wave of decodes,    *)
(*           then the same decodes next to one long prompt, the hog        *)
(*   turns   p04-prefix-proxy/workload.py: conversations, some at a time,  *)
(*           whose turns each wait for the one before                      *)
(* A script runs once.  It gives up without a server, and Ctrl-C may end   *)
(* it wherever it waits; what it had in memory is gone then.               *)
(***************************************************************************)
EXTENDS BenchHarness, FiniteSetsExt, Ledger

CONSTANTS Decodes, MixedRepeats,  \* --decode-conc, --repeats of experiment.py
          Convs, ConcConvs, Turns \* --convs, --conc-convs, len(USER_TURNS)

ASSUME WorkloadConstants ==
  /\ Decodes \in 1..MostTasks - 1 /\ MixedRepeats \in Nat \ {0}
  /\ Convs \in Nat \ {0} /\ ConcConvs \in 1..MostTasks /\ Turns \in Nat \ {0}

\* Only p06 serves with speculative decoding, and it measures with bench.py.
VARIABLES driver,  \* the script
          samples, \* lengths of base_itls, mixed_itls and hog_ttfts
          history, \* of each conversation of the group: what its turns brought
          said     \* the rows conversation() has so far

asked == <<driver, burst>>  \* fixed when the script starts
driverVars == <<samples, history, said>>
workVars == <<benchVars, driver, driverVars>>

NoSamples == [base |-> 0, mixed |-> 0, hog |-> 0]
NoTalk == [i \in Tasks |-> << >>]

WorkInit ==
  /\ Init
  /\ driver \in {"sweep", "mixed", "turns"}
  /\ burst = Batch <=> driver = "sweep"
  /\ samples = NoSamples /\ history = NoTalk /\ said = NoTalk

\* append_csv for every row; what the tasks and their results held is dropped.
File(more) == csv' = csv \o more
Forget == /\ attempt' = [i \in Tasks |-> 1]
          /\ result' = [i \in Tasks |-> Nothing]

-----------------------------------------------------------------------------
(* experiment.py: key is the phase *)

Base == 1
Mixed == 2
Hog == Decodes + 1

MixedBegin ==
  /\ key = NotBegun
  /\ \/ key' = Base /\ rep' = 1 /\ pc' = Start(Decodes)
     \/ key' = Fatal /\ UNCHANGED <<rep, pc>>
  /\ UNCHANGED <<attempt, tokens, usage, made, result, rows, waves, csv, driverVars>>

OkAmong(T) == Cardinality({i \in T : result[i].ok})

\* Phase 1 is filed and sampled before phase 2 starts.
BaseEnds ==
  /\ key = Base /\ \A i \in 1..Decodes : pc[i] = "returned"
  /\ File([i \in 1..Decodes |-> Row("base:decode", i)])
  /\ samples' = [samples EXCEPT !.base = @ + OkAmong(1..Decodes)]
  /\ key' = Mixed /\ pc' = Start(Hog) /\ Forget
  /\ UNCHANGED <<rep, tokens, usage, made, rows, waves, history, said>>

\* *dec_res, hog_res = mixed
MutDecodeResults == 1..Hog
DecodeResults == 1..Decodes

MixedEnds ==
  /\ key = Mixed /\ \A i \in 1..Hog : pc[i] = "returned"
  /\ File([i \in 1..Hog |-> Row(IF i = Hog THEN "mixed:hog" ELSE "mixed:decode", i)])
  /\ samples' = [samples EXCEPT !.mixed = @ + OkAmong(DecodeResults),
                                !.hog = @ + OkAmong({Hog})]
  /\ IF rep < MixedRepeats
     THEN key' = Base /\ rep' = rep + 1 /\ pc' = Start(Decodes)
     ELSE key' = Mixed + 1 /\ pc' = Start(0) /\ UNCHANGED rep
  /\ Forget
  /\ UNCHANGED <<tokens, usage, made, rows, waves, history, said>>

-----------------------------------------------------------------------------
(* workload.py: key is the group of conversations *)

LastGroup == (Convs + ConcConvs - 1) \div ConcConvs
Conv(g, i) == (g - 1) * ConcConvs + i
\* range(batch, min(batch + a.conc_convs, a.convs))
GroupSize(g) == IF g * ConcConvs < Convs THEN ConcConvs ELSE Convs - (g - 1) * ConcConvs

TurnsBegin ==
  /\ key = NotBegun
  /\ \/ key' = 1 /\ pc' = Start(GroupSize(1))
     \/ key' = Fatal /\ UNCHANGED pc
  /\ UNCHANGED <<rep, attempt, tokens, usage, made, result, rows, waves, csv, driverVars>>

\* What later prompts have of this turn: the user's line and the length of the
\* answer, which is 0 after a request that failed.
MutSaidOk(i) == IF result[i].ok THEN Append(history[i], result[i].gen) ELSE history[i]
Said(i) == Append(history[i], result[i].gen)

\* The prompt of a row, line by line: in the history the user's line is without the
\* conversation it is sent with.
Line(conv, gen) == [conv |-> conv, gen |-> gen]
Prompt(row) == Append([k \in DOMAIN row.history |-> Line(0, row.history[k])], Line(row.conv, 0))

TurnEnds(i) ==
  /\ pc[i] = "returned" /\ Len(said[i]) < Turns
  /\ said' = [said EXCEPT ![i] = Append(@,
       [key |-> Len(@), conv |-> Conv(key, i), history |-> history[i], ok |-> result[i].ok,
        gen |-> result[i].gen, made |-> result[i].made])]
  /\ history' = [history EXCEPT ![i] = Said(i)]
  /\ pc' = [pc EXCEPT ![i] = IF Len(said'[i]) < Turns THEN "send" ELSE "returned"]
  /\ attempt' = [attempt EXCEPT ![i] = 1]
  /\ result' = [result EXCEPT ![i] = Nothing]
  /\ UNCHANGED <<key, rep, tokens, usage, made, rows, waves, csv, samples>>

\* gather() returns the conversations in their order; the file is written when
\* the last group is through.
MutFiledEach(more) == csv' = csv \o more /\ rows' = << >>
GroupFiled(more) == IF key = LastGroup THEN File(rows \o more) /\ rows' = << >>
                                    ELSE rows' = rows \o more /\ UNCHANGED csv

Talks == [n \in 1..GroupSize(key) * Turns |->
            said[(n - 1) \div Turns + 1][((n - 1) % Turns) + 1]]

GroupEnds ==
  /\ key \in 1..LastGroup /\ \A i \in 1..GroupSize(key) : Len(said[i]) = Turns
  /\ GroupFiled(Talks)
  /\ key' = key + 1
  /\ pc' = Start(IF key = LastGroup THEN 0 ELSE GroupSize(key + 1))
  /\ history' = NoTalk /\ said' = NoTalk
  /\ UNCHANGED <<rep, attempt, tokens, usage, made, result, waves, samples>>

-----------------------------------------------------------------------------

Phases == [sweep |-> Len(Concs), mixed |-> Mixed, turns |-> LastGroup][driver]
Working == key \in 1..Phases

Coordinate ==
  \/ driver = "sweep" /\ (Begin \/ Gather) /\ UNCHANGED driverVars
  \/ driver = "mixed" /\ (MixedBegin \/ BaseEnds \/ MixedEnds)
  \/ driver = "turns" /\ (TurnsBegin \/ GroupEnds \/ \E i \in Tasks : TurnEnds(i))

\* Ctrl-C: the process is gone, and the file is as it was last closed.
Interrupt ==
  /\ Working
  /\ key' = Fatal /\ rep' = 0 /\ pc' = Start(0) /\ Forget
  /\ tokens' = [i \in Tasks |-> 0] /\ usage' = tokens' /\ made' = tokens'
  /\ rows' = << >> /\ waves' = << >> /\ samples' = NoSamples
  /\ history' = NoTalk /\ said' = NoTalk
  /\ UNCHANGED csv

Over == key \notin {NotBegun} \cup 1..Phases /\ UNCHANGED workVars

WorkNext ==
  /\ \/ Coordinate \/ Interrupt \/ Over
     \/ \E i \in Tasks : Step(i) /\ UNCHANGED driverVars
  /\ UNCHANGED asked

WorkSpec == WorkInit /\ [][WorkNext]_workVars

\* A server may hang: aiohttp's total timeout ends the attempt.
FairSpec == /\ WorkSpec
            /\ WF_workVars(Coordinate /\ UNCHANGED asked)
            /\ \A i \in Tasks :
                 /\ WF_workVars((Send(i) \/ Wake(i)) /\ UNCHANGED <<asked, driverVars>>)
                 /\ WF_workVars(ConnectionLost(i) /\ UNCHANGED <<asked, driverVars>>)

-----------------------------------------------------------------------------
(* Properties *)

\* The three samples of starvation_x and the hog's TTFT are the ok rows of their
\* own phase: a decode next to the hog is in no base sample, the hog in no sample
\* of decodes, and a failed request in none.
PhasesApart ==
  driver = "mixed" /\ key # Fatal =>
    LET ok(label) == Cardinality({n \in DOMAIN csv : csv[n].key = label /\ csv[n].ok}) IN
    samples = [base |-> ok("base:decode"), mixed |-> ok("mixed:decode"),
               hog |-> ok("mixed:hog")]

\* "turns within a conversation stay sequential (causal history)": on file, the
\* history of every turn is that of the one before it and what came of that, failed
\* turns included, which is what the server may find in its prefix cache; and groups
\* that run at the same time are not mixed up.
TurnsExtendHistory ==
  driver = "turns" =>
    \A n \in DOMAIN csv :
      /\ csv[n].conv = (n - 1) \div Turns + 1 /\ csv[n].key = (n - 1) % Turns
      /\ csv[n].history = IF csv[n].key = 0 THEN << >>
                          ELSE Append(csv[n - 1].history, csv[n - 1].gen)

\* "SYSTEM + history + new user turn - exactly the shape that benefits from prefix
\* caching on turn >= 2": a turn's prompt begins with all of the one before it.
PromptsExtendPrompts ==
  driver = "turns" =>
    \A n \in DOMAIN csv : csv[n].key > 0 => IsStrictPrefix(Prompt(csv[n - 1]), Prompt(csv[n]))

\* What a script leaves when it is interrupted can be compared with a complete run
\* as far as it goes: a file has all rows of a key, or phase, or none of them.
\* workload.py loses every conversation.
WholeUnits ==
  LET filed(label) == Cardinality({n \in DOMAIN csv : csv[n].key = label})
      count(label, k) == Cardinality({n \in DOMAIN csv : csv[n].key = label /\ csv[n].rep = k}) IN
  /\ driver = "sweep" => \A k \in DOMAIN Concs : filed(k) \in {0, Repeats * Concs[k]}
  /\ driver = "mixed" => \A k \in 1..MixedRepeats :
       /\ count("mixed:decode", k) = Decodes * count("mixed:hog", k)
       /\ count("base:decode", k) \in {0, Decodes}
  /\ driver = "turns" => Len(csv) \in {0, Convs * Turns}

\* Whenever rows are filed, a ledger of the file gives every group its rows and
\* the whole cost to the groups, none of it to one that served no token; only where
\* no ok row has a token is nothing attributed.  The budget's buckets add up to its
\* totals whichever rows are slow, and the rows after the last failure are ok.
Balanced(file) ==
  LET s == LoadRows(file)
      groups == Groups(s)
      sum(f(_), S) == FoldSet(LAMBDA g, t : t + f(g), 0, S) IN
  /\ sum(LAMBDA g : g.requests, groups) = Len(s)
  /\ sum(LAMBDA g : g.cost, groups) = IF Total(Took, s) = 0 THEN 0 ELSE Cost
  /\ \A g \in groups : g.cost > 0 <=> g.out > 0
  /\ \A slow \in SUBSET MaybeSlow(file) :
       LET burn == Burn(file, slow) IN
       /\ sum(LAMBDA b : burn.per10[b].bad, DOMAIN burn.per10) = burn.bad
       /\ sum(LAMBDA b : burn.per10[b].all, DOMAIN burn.per10) = burn.n
       /\ burn.n - burn.available <= burn.bad
  /\ LET rest == SubSeq(file, Len(file) - MttrProxy(file) + 1, Len(file)) IN rest = LoadRows(rest)
AccountsAddUp == [][csv' # csv => Balanced(csv')]_csv

\* A script that begins comes to its end, and if nobody interrupts it with every
\* request on file.
DriverEnds ==
  <>(\/ key = Fatal
     \/ /\ key > Phases
        /\ Len(csv) = [sweep |-> Repeats * FoldLeft(LAMBDA a, c : a + c, 0, Concs),
                       mixed |-> MixedRepeats * (Decodes + Hog),
                       turns |-> Convs * Turns][driver])
=============================================================================
