---------------------------- MODULE DecodeSession ----------------------------
(***************************************************************************)
(* A whole session: pack_weights.py, reference_run.py and the launcher are *)
(* run one at a time, in any order and with any arguments, over the files  *)
(* they leave each other, whole, torn or of different runs.  The launcher  *)
(* is fleet_launch.hip's main as far as it decides what is decoded: the    *)
(* tests it makes before it starts, token and position bookkeeping over    *)
(* launches and repeats, and the verdict.  The kernel decodes one token at *)
(* a time here; what happens inside a token is DecodeDataflow's.           *)
(***************************************************************************)
EXTENDS ReferenceRun, Packer

CONSTANTS
  LaunchTokens,   \* values of --tokens
  PerLaunch,      \* values of --tokens-per-launch
  Repeats,        \* values of --repeat
  StackWords,     \* what an offset may hold that load_manifest never wrote
  MaxLaunches     \* bound: how often the launcher is run

ASSUME SessionAssumption ==
  /\ LaunchTokens \cup PerLaunch \cup Repeats \subseteq Nat \ {0}
  /\ MaxLaunches \in Nat
  /\ StackWords \subseteq Nat /\ StackWords # {}
  /\ RopeType \in {"none", "yarn"}      \* the host's tables know no other kind

\* What pack writes, in its order.
ASSUME PackAssumption == Names = PackedNames /\ Tensor = PackedTensors

VARIABLES
  lstage,       \* "idle", "decode", or "exit" with its code
  opts,         \* the launcher's arguments
  readable,     \* the layers whose weights lie where the kernel reads them
  rows,         \* kv.data, [layers][kv.max_pos] in one sequence
  token_in, token_out,
  i0, tok, run, \* first token of the launch, token in it, repeat
  dump,         \* layer_dump
  code,         \* exit code
  layers_ok,
  launches

launcherVars == <<lstage, opts, readable, rows, token_in, token_out, i0, tok, run, dump, code, layers_ok, launches>>

NoOpts == [context |-> 0, tokens |-> 0, per_launch |-> 1, teacher |-> FALSE, repeat |-> 1]
Options ==
  { o \in [context : Contexts, tokens : LaunchTokens, per_launch : PerLaunch, teacher : BOOLEAN,
           repeat : Repeats] : o.per_launch <= o.tokens }   \* a longer launch is cut to the tokens

golden == golden_txt.data
golden_hidden == hidden_bin.data
kv_max_pos == Len(cache_bin.data) \div NLayers

\* load_manifest: an offset that is not there stays what the stack held.
load_manifest(m, word) ==
  [n \in DOMAIN m.tensors |->
     IF m.tensors[n].offset = NoNumber THEN [m.tensors[n] EXCEPT !.offset = word] ELSE m.tensors[n]]

\* The manifest names every tensor, and the blob has its length.  Offsets are
\* not tested.
BlobTaken == manifest # NoManifest /\ Accepted /\ ManifestComplete(manifest.tensors)

\* Every die() between the arguments and the first launch.
Refused(o) ==
  \/ ~BlobTaken
  \/ Len(cache_bin.data) % NLayers # 0
  \/ o.context + o.tokens > kv_max_pos
  \/ golden = << >>
  \/ o.teacher /\ Len(golden) < o.tokens

\* tin: every input token with a teacher, else the first one.
Inputs(o) ==
  [i \in 1 .. o.tokens + 1 |-> IF i = 1 \/ (o.teacher /\ i <= o.tokens) THEN golden[i] ELSE 0]

AllIdle == stage = "idle" /\ packing = "idle" /\ lstage = "idle"

\* Bound: the packings, whole or interrupted, come first; packing shares no file
\* with the reference run.
PacksDone == packs = MaxPacks

StartLaunch(o) ==
  /\ AllIdle /\ PacksDone /\ launches < MaxLaunches
  /\ launches' = launches + 1
  /\ opts' = o
  /\ IF Refused(o)
     THEN lstage' = "exit" /\ code' = 1 /\ UNCHANGED <<readable, rows, token_in>>
     ELSE /\ lstage' = "decode" /\ rows' = cache_bin.data /\ token_in' = Inputs(o)
          /\ \E word \in StackWords :
               readable' = { l \in Layers : \A part \in MatrixParts(l) :
                               PartReadable(file, load_manifest(manifest, word), l, part) }
          /\ UNCHANGED code
  /\ UNCHANGED <<token_out, i0, tok, run, dump, layers_ok>>

-----------------------------------------------------------------------------
\* n of the current launch.
LaunchSize == IF opts.per_launch < opts.tokens - i0 THEN opts.per_launch ELSE opts.tokens - i0

PositionInLaunch(first, t) == opts.context + t      \* mutant: d.context is not moved on
Position(first, t) == opts.context + first + t

RowAt(l, p) == l * kv_max_pos + p + 1

\* One decode step of a layer's attention: the row of this position joins the
\* layer's rows, and the query sees all of them.
OwnRow(h, p) == Row(h, [pos |-> p, base |-> 0])
attention_absorbed(l, h, p) ==
  Attend(h, [pos |-> p, base |-> 0],
         Append([i \in 1 .. p |-> rows[RowAt(l, i - 1)]], OwnRow(h, p)))

\* A layer whose weights are not where the kernel reads them computes something else.
decoder_layer(l, h, p) ==
  IF l \in readable THEN AfterMlp(attention_absorbed(l, h, p)) ELSE Garbage

\* The hidden state before every layer, and after the last.
HiddenAt(t, p) ==
  LET h[l \in 0 .. NLayers] == IF l = 0 THEN Embed(t) ELSE decoder_layer(l - 1, h[l - 1], p)
  IN h

DecodeToken ==
  LET p == Position(i0, tok)
      i == i0 + tok + 1
      h == HiddenAt(token_in[i], p)
      best == NextToken(h[NLayers])
  IN /\ lstage = "decode" /\ tok < LaunchSize
     /\ rows' = [k \in DOMAIN rows |->
                   IF \E l \in Layers : k = RowAt(l, p)
                   THEN OwnRow(h[(k - 1) \div kv_max_pos], p) ELSE rows[k]]
     /\ token_out' = [j \in DOMAIN token_out \cup {i} |-> IF j = i THEN best ELSE token_out[j]]
     /\ token_in' = IF opts.teacher THEN token_in ELSE [token_in EXCEPT ![i + 1] = best]
     /\ dump' = IF tok = 0 /\ i0 = 0 /\ run = opts.repeat - 1
                THEN [l \in Layers |-> h[l + 1]] ELSE dump
     /\ tok' = tok + 1
     /\ UNCHANGED <<lstage, opts, readable, i0, run, code, layers_ok, launches>>

NextLaunch ==
  /\ lstage = "decode" /\ tok = LaunchSize /\ i0 + opts.per_launch < opts.tokens
  /\ i0' = i0 + opts.per_launch /\ tok' = 0
  /\ UNCHANGED <<lstage, opts, readable, rows, token_in, token_out, run, dump, code, layers_ok, launches>>

RunDone == lstage = "decode" /\ tok = LaunchSize /\ i0 + opts.per_launch >= opts.tokens

NextRepeat ==
  /\ RunDone /\ run + 1 < opts.repeat
  /\ run' = run + 1 /\ i0' = 0 /\ tok' = 0
  /\ token_in' = Inputs(opts)
  /\ UNCHANGED <<lstage, opts, readable, rows, token_out, dump, code, layers_ok, launches>>

HasReference(i) == i + 1 <= Len(golden)
Compared == { i \in 1 .. opts.tokens : HasReference(i) }
Matched == { i \in Compared : token_out[i] = golden[i + 1] }

AllMatched(compared, matched) == matched = compared     \* mutant: nothing compared is a match
Passed(compared, matched) == compared = opts.tokens /\ matched = compared

\* Consecutive layers of the first token that agree with the reference's.
LayersOk ==
  IF Len(golden_hidden) # NLayers THEN -1
  ELSE Cardinality({ l \in Layers : \A m \in 0 .. l : dump[m] = golden_hidden[m + 1] })

Report ==
  /\ RunDone /\ run + 1 = opts.repeat
  /\ lstage' = "exit"
  /\ code' = IF Passed(Cardinality(Compared), Cardinality(Matched)) THEN 0 ELSE 3
  /\ layers_ok' = LayersOk
  /\ UNCHANGED <<opts, readable, rows, token_in, token_out, i0, tok, run, dump, launches>>

\* The kernel raised its abort word; which tokens it completed is of no consequence.
LaunchAborts ==
  /\ lstage = "decode"
  /\ lstage' = "exit" /\ code' = 2
  /\ UNCHANGED <<opts, readable, rows, token_in, token_out, i0, tok, run, dump, layers_ok, launches>>

LauncherInit ==
  /\ opts = NoOpts /\ readable = {} /\ rows = << >> /\ token_in = << >> /\ token_out = << >>
  /\ i0 = 0 /\ tok = 0 /\ run = 0 /\ dump = << >> /\ code = 0 /\ layers_ok = -1

\* The process is gone; nothing of it stays.
LauncherGone ==
  /\ lstage = "exit"
  /\ lstage' = "idle"
  /\ opts' = NoOpts /\ readable' = {} /\ rows' = << >> /\ token_in' = << >> /\ token_out' = << >>
  /\ i0' = 0 /\ tok' = 0 /\ run' = 0 /\ dump' = << >> /\ code' = 0 /\ layers_ok' = -1
  /\ UNCHANGED launches

LauncherStep ==
  \/ DecodeToken \/ NextLaunch \/ NextRepeat \/ Report \/ LaunchAborts \/ LauncherGone

-----------------------------------------------------------------------------
SessionInit == PackerInit /\ RefInit /\ lstage = "idle" /\ launches = 0 /\ LauncherInit

\* Bound: a blob the launcher refuses is refused whatever the other files are, so
\* no reference run is made to go with it; beside a blob with a lost tensor one is enough.
WorthARun == BlobTaken /\ (manifest.lost = {} \/ runs = 0)

StartPack == AllIdle /\ OpenBlob
PackStep == CloseBlob \/ WriteManifest \/ TearManifest \/ PackDies \/ (\E n \in DOMAIN Tensor : Write(n))
StartRef == AllIdle /\ PacksDone /\ WorthARun /\ \E c \in Contexts, d \in Decodes : StartReference(c, d)

Next ==
  \/ (StartPack \/ PackStep) /\ UNCHANGED <<refVars, launcherVars>>
  \/ (StartRef \/ RefStep) /\ UNCHANGED <<packerVars, launcherVars>>
  \/ ((\E o \in Options : StartLaunch(o)) \/ LauncherStep) /\ UNCHANGED <<packerVars, refVars>>

vars == <<packerVars, refVars, launcherVars>>

Spec == SessionInit /\ [][Next]_vars

-----------------------------------------------------------------------------
\* Type correctness of the three tools' state, with the lengths that main's
\* loops and buffers fix (reference_run.py main, fleet_launch.hip main).
TypeOK ==
  /\ packing \in {"idle", "open", "closed"} /\ pos \in Nat /\ packs \in 0 .. MaxPacks
  /\ DOMAIN offsets \subseteq ToSet(Names)
  /\ stage \in Stages /\ context \in Contexts /\ decode \in Decodes /\ runs \in 0 .. MaxRuns
  /\ layer \in 0 .. NLayers /\ hooks \subseteq {"layer", "kv"}
  /\ Len(gen_ids) <= decode + 1
  /\ \A l \in Layers : Len(past[l]) <= max_pos /\ cached[l] \in 0 .. max_pos
  /\ DOMAIN hidden \subseteq Layers /\ DOMAIN compressed \subseteq Layers
  /\ lstage \in {"idle", "decode", "exit"} /\ readable \subseteq Layers /\ opts \in Options \cup {NoOpts}
  /\ DOMAIN token_out \subseteq 1 .. opts.tokens
  /\ tok \in 0 .. opts.per_launch /\ run \in 0 .. opts.repeat - 1
  /\ code \in 0 .. 3 /\ layers_ok \in -1 .. NLayers

\* A blob the launcher accepts holds every word where the kernel will read it:
\* expert by expert, half by half, row by row, however often packing was
\* interrupted, but for the tensor of the manifest's last line when the cut fell
\* into its offset: tested where a packing ends (pack against load_manifest,
\* layer_table, resolve_unit and the row pointers).
PackedAsRead ==
  [][packing' = "idle" /\ BlobTaken' =>
       /\ manifest'.lost \subseteq {LastName}
       /\ \A word \in StackWords :
            WeightsReadable(file', load_manifest(manifest', word), manifest'.lost)]_packing

\* The files of one whole reference run and one whole packing.
WholeFiles ==
  /\ BlobTaken /\ manifest.lost = {}
  /\ cache_bin.by # Nobody /\ golden_txt.by = cache_bin.by /\ hidden_bin.by = cache_bin.by

\* Over whole files of one run, asked for its context and no more than its
\* tokens, the launcher starts, reproduces every golden token and the hidden
\* state after every layer: with a teacher or without, however the tokens are
\* cut into launches, and in a repeat over the rows the last one wrote.
LaunchReproducesGolden ==
  (/\ lstage = "exit" /\ WholeFiles
   /\ opts.context = cache_bin.by[1] /\ opts.tokens <= cache_bin.by[2])
  => code = 2 \/ (code = 0 /\ layers_ok = NLayers)

\* Exit code 0 means the tokens are the model's own greedy choice after the
\* prompt and the tokens fed, whatever mixture of files was read (main's
\* return value, which the session scripts gate on).
ExitZeroIsGreedy ==
  (lstage = "exit" /\ code = 0) =>
    \A i \in 1 .. opts.tokens :
      LET fed == <<golden[1]>> \o
                 [k \in 1 .. i - 1 |-> IF opts.teacher THEN golden[k + 1] ELSE token_out[k]]
      IN token_out[i] = Greedy(SubSeq(Prompt, 1, opts.context) \o fed)

=============================================================================
