---------------------------- MODULE LegacySystem ----------------------------
(***************************************************************************)
(* The earlier decoder (old/), up to its search: its phrase table, then    *)
(* how it starts.                                                          *)
(*                                                                         *)
(* The table is the trie it is read into, the block of memory that each    *)
(* node is flattened to, how the device reads such a block, and the lookup *)
(* of the spans of a sentence.                                             *)
(*                                                                         *)
(* A node of the trie is the path of words that leads to it. A cell of     *)
(* memory has four bytes; scores are their logarithms, as integers.        *)
(***************************************************************************)
EXTENDS Integers, Sequences, SequencesExt, FiniteSetsExt, TLC

CONSTANTS NUMSCORES,              \* the scores of a phrase, as the device has it
          LowestScore             \* LOWEST_SCORE

ASSUME NumScoresAssumption == NUMSCORES \in Nat

RootNode == <<>>

EmptyTable == [path \in {RootNode} |-> <<>>]

Beginnings(source) == {SubSeq(source, 1, n) : n \in DOMAIN source}

\* Node::GetOrCreate, from the root.
GetOrCreate(table, source) ==
  [path \in DOMAIN table \union Beginnings(source) |->
     IF path \in DOMAIN table THEN table[path] ELSE <<>>]

TransformScore(score) == IF score < LowestScore THEN LowestScore ELSE score

\* Scores::CreateFromString: a line with fewer scores leaves the others at 0.
\* One with more writes past the end of the vector, see Load.
ScoresOf(line, numScores) ==
  [n \in 1 .. numScores |->
     IF n <= Len(line.scores) THEN TransformScore(line.scores[n]) ELSE 0]

\* An iteration of PhraseTableMemory::Load.
AddLine(table, line, numScores) ==
  [GetOrCreate(table, line.source) EXCEPT
     ![line.source] = Append(@, [words  |-> line.target,
                                 scores |-> ScoresOf(line, numScores)])]

Load(lines, numScores) ==
  LET table[n \in 0 .. Len(lines)] ==
        IF n = 0 THEN EmptyTable ELSE AddLine(table[n - 1], lines[n], numScores)
  IN  table[Len(lines)]

-----------------------------------------------------------------------------
(* The memory of a node *)

Count(n) == [is |-> "count", val |-> n]
WordCell(w) == [is |-> "word", val |-> w]
ScoreCell(s) == [is |-> "score", val |-> s]

\* TargetPhrase::CreateMemory.
PhraseMemory(tp) ==
  <<Count(Len(tp.words))>>
    \o [n \in DOMAIN tp.words |-> WordCell(tp.words[n])]
    \o [n \in DOMAIN tp.scores |-> ScoreCell(tp.scores[n])]

\* TargetPhrases::CreateMemory.
NodeMemory(tpColl) ==
  <<Count(Len(tpColl))>> \o FlattenSeq([n \in DOMAIN tpColl |-> PhraseMemory(tpColl[n])])

\* What follows a block is nobody's.
Beyond == [is |-> "beyond", val |-> 0]

Cell(mem, at) == IF at \in DOMAIN mem THEN mem[at] ELSE Beyond

Unreadable == [words |-> <<>>, scores |-> <<>>, end |-> 0]

\* TargetPhraseDev::Initialize of the phrase at `at'.  A score, or what is
\* beyond the block, is no number of words that the device has memory for.
Initialize(mem, at) ==
  LET numWords == Cell(mem, at).val
  IN  IF Cell(mem, at).is \notin {"count", "word"} THEN Unreadable
      ELSE [words  |-> [n \in 1 .. numWords |-> Cell(mem, at + n)],
            scores |-> [n \in 1 .. NUMSCORES |-> Cell(mem, at + numWords + n)],
            end    |-> at + 1 + numWords + NUMSCORES]

\* The phrases of a block, as CreateTPSDev makes them: a sequence.
ReadMemory(mem) ==
  LET at[n \in 1 .. mem[1].val] ==
        IF n = 1 THEN 2 ELSE Initialize(mem, at[n - 1]).end
  IN  [n \in 1 .. mem[1].val |->
         IF at[n] = Unreadable.end THEN Unreadable ELSE Initialize(mem, at[n])]

Readable(tps) == Unreadable \notin ToSet(tps)

-----------------------------------------------------------------------------
(* The spans of a sentence *)

Path(start, end) == [startPos |-> start, endPos |-> end]

\* Manager::CreateInputPaths: those that start with a word, then the next one's.
InputPaths(sentence) ==
  LET n == Len(sentence)
  IN  FlattenSeq([s \in 1 .. n |-> [k \in 1 .. (n - s + 1) |->
                                      Path(s - 1, s - 1 + k - 1)]])

\* No node: words are not negative.
NoNode == <<-1>>

\* Mutant: the first word of the path is looked up.
NextWordFirst(sentence, path) == sentence[path.startPos + 1]

\* The last word of the path.
NextWord(sentence, path) == sentence[path.endPos + 1]

\* PhraseTableMemory::Lookup: from the node of the path that is one word
\* shorter, the one before it in the queue, or from the root.
LookupNode(table, sentence, path, prevNode) ==
  LET node == IF path.startPos = path.endPos THEN RootNode ELSE prevNode
      next == Append(node, NextWord(sentence, path))
  IN  IF node = NoNode \/ next \notin DOMAIN table THEN NoNode ELSE next

-----------------------------------------------------------------------------
(***************************************************************************)
(* How the earlier decoder starts (old/System.cpp, old/FF): the sections   *)
(* of its configuration, the features with their slots and names, the      *)
(* weights, and the phrase tables.                                         *)
(*                                                                         *)
(* A line of the configuration is trimmed and has been split: a section, a *)
(* value, or neither. "crash" stands for the ways to end that no return of *)
(* main is: assertion, abort, an exception that nothing catches, and what  *)
(* is undefined and in practice a segmentation fault.                      *)
(***************************************************************************)

CONSTANTS IniFiles,               \* configurations: sequences of lines
          TableFiles              \* the lines of each phrase table, by path

TableLines == [source : Seq(Nat), target : Seq(Nat), scores : Seq(Int)]

ASSUME TablesAssumption ==
  /\ LowestScore \in Int
  /\ \A path \in DOMAIN TableFiles : TableFiles[path] \in Seq(TableLines)

\* The only kind of feature that InitFF knows.
PhraseDictionary == "PhraseDictionaryMemory"

IsSequence(s) == s \in Seq(Range(s))

\* A number of features is read as a size_t.
IsFeature(line) ==
  /\ IsSequence(line.args)
  /\ \A n \in DOMAIN line.args :
       line.args[n].key = "num-features" => line.args[n].value \in Nat

ASSUME IniAssumption ==
  \A lines \in IniFiles :
    /\ IsSequence(lines)
    /\ \A n \in DOMAIN lines :
         /\ lines[n].is \in {"section", "blank", "value"}
         /\ lines[n].is = "value" /\ lines[n].kind = PhraseDictionary => IsFeature(lines[n])

VARIABLES params,                 \* m_params
          ffs, nextInd, nameInd,  \* m_ffs, m_nextInd, m_nameInd
          weights,                \* System::weights
          tables,                 \* the tries of the tables loaded so far
          next,                   \* the index of the loop that runs, from 1
          pc

config == <<params, ffs, nextInd, nameInd, weights, tables>>

systemVars == <<config, next>>

NoSection == "no section"

\* The loop of System::Init: a value before any section has nowhere to go.
ReadLine(ini, line) ==
  CASE line.is = "section" ->
         [key |-> line.key, ok |-> ini.ok,
          params |-> [k \in DOMAIN ini.params \union {line.key} |->
                        IF k \in DOMAIN ini.params THEN ini.params[k] ELSE <<>>]]
    [] line.is = "blank"   -> ini
    [] line.is = "value"   ->
         IF ini.key = NoSection THEN [ini EXCEPT !.ok = FALSE]
         ELSE [ini EXCEPT !.params[ini.key] = Append(@, line)]

NothingRead == [key |-> NoSection, params |-> [k \in {} |-> <<>>], ok |-> TRUE]

Ini(lines) ==
  LET ini[n \in 0 .. Len(lines)] ==
        IF n = 0 THEN NothingRead ELSE ReadLine(ini[n - 1], lines[n])
  IN  ini[Len(lines)]

SystemInit ==
  /\ params = [k \in {} |-> <<>>]
  /\ ffs = <<>>
  /\ nextInd = 0
  /\ nameInd = [k \in {} |-> 0]
  /\ weights = [s \in {} |-> 0]
  /\ tables = <<>>
  /\ next = 1
  /\ pc = "init"

Section(key) == IF key \in DOMAIN params THEN params[key] ELSE <<>>

\* System::Init up to InitParams, whose two settings nothing reads; each takes
\* the first line of its section.
ReadIni(lines) ==
  LET ini == Ini(lines)
      empty == \E key \in {"[stack]", "[distortion-limit]"} \intersect DOMAIN ini.params :
                 ini.params[key] = <<>>
  IN  /\ pc = "init"
      /\ params' = ini.params
      /\ pc' = IF ini.ok /\ ~empty THEN "features" ELSE "crash"
      /\ UNCHANGED <<ffs, nextInd, nameInd, weights, tables, next>>

-----------------------------------------------------------------------------
(* InitFF *)

Args(line, key) == {n \in DOMAIN line.args : line.args[n].key = key}

\* FeatureFunction::ParseLine and PhraseTableMemory::SetParameter: the last of
\* several arguments counts.
ArgOr(line, key, default) ==
  IF Args(line, key) = {} THEN default ELSE line.args[Max(Args(line, key))].value

\* FeatureFunction::CreateName.  The index is kept at 0, never increased.
NameIndex(kind) == IF kind \in DOMAIN nameInd THEN nameInd[kind] ELSE 0

NameOf(line) ==
  ArgOr(line, "name", line.kind \o ToString(NameIndex(line.kind)))

\* FeatureFunction::Register.
NextInd(startInd, numScores) == startInd + numScores

\* A line is of a known kind, and each of its arguments has a value.
WellFormed(line) ==
  /\ line.kind = PhraseDictionary
  /\ \A n \in DOMAIN line.args : line.args[n].key # ""

InitFeature ==
  /\ pc = "features" /\ next \in DOMAIN Section("[feature]")
  /\ LET line == Section("[feature]")[next]
         num  == ArgOr(line, "num-features", 1)
     IN  \/ /\ WellFormed(line)
            /\ ffs' = Append(ffs, [name |-> NameOf(line), startInd |-> nextInd,
                                   numScores |-> num, path |-> ArgOr(line, "path", "")])
            /\ nextInd' = NextInd(nextInd, num)
            /\ nameInd' = IF Args(line, "name") # {} THEN nameInd
                          ELSE nameInd @@ (line.kind :> 0)
            /\ next' = next + 1
            /\ UNCHANGED pc
         \/ /\ ~WellFormed(line)
            /\ pc' = "crash"
            /\ UNCHANGED <<ffs, nextInd, nameInd, next>>
  /\ UNCHANGED <<params, weights, tables>>

\* GetTotalNumScores, and SetNumScores of the weights.
FeaturesDone ==
  /\ pc = "features" /\ next = Len(Section("[feature]")) + 1
  /\ weights' = [s \in 0 .. (nextInd - 1) |-> 0]
  /\ next' = 1
  /\ pc' = "weights"
  /\ UNCHANGED <<params, ffs, nextInd, nameInd, tables>>

-----------------------------------------------------------------------------
(* InitWeight *)

\* System::FindFeatureFunction: the first of that name.
Named(name) == {n \in DOMAIN ffs : ffs[n].name = name}

FindFeatureFunction(name) == CHOOSE n \in Named(name) : \A m \in Named(name) : n <= m

SlotsOf(ff) == ff.startInd .. (ff.startInd + ff.numScores - 1)

\* Mutant: the weights of every feature go to the first slots.
SetFirstWeights(ff, values) ==
  [s \in DOMAIN weights |-> IF s < ff.numScores THEN values[s + 1] ELSE weights[s]]

\* Weights::SetWeights.
SetWeights(ff, values) ==
  [s \in DOMAIN weights |->
     IF s \in SlotsOf(ff) THEN values[s - ff.startInd + 1] ELSE weights[s]]

InitWeight ==
  /\ pc = "weights" /\ next \in DOMAIN Section("[weight]")
  /\ LET line  == Section("[weight]")[next]
         fits  == /\ line.kind = "weight"
                  /\ Named(line.name) # {}
                  /\ Len(line.values) = ffs[FindFeatureFunction(line.name)].numScores
     IN  \/ /\ fits
            /\ weights' = SetWeights(ffs[FindFeatureFunction(line.name)], line.values)
            /\ next' = next + 1
            /\ UNCHANGED pc
         \/ /\ ~fits
            /\ pc' = "crash"
            /\ UNCHANGED <<weights, next>>
  /\ UNCHANGED <<params, ffs, nextInd, nameInd, tables>>

WeightsDone ==
  /\ pc = "weights" /\ next = Len(Section("[weight]")) + 1
  /\ next' = 1
  /\ pc' = "load"
  /\ UNCHANGED <<params, ffs, nextInd, nameInd, weights, tables>>

-----------------------------------------------------------------------------
(* Load: every feature is a phrase table, and its place is its ptId. *)

\* The file cannot be opened: InputFileStream exits.  A line with too many
\* scores writes past its vector, and what becomes of that is open.
LoadTable ==
  /\ pc = "load" /\ next \in DOMAIN ffs
  /\ LET ff    == ffs[next]
         exists == ff.path \in DOMAIN TableFiles
         overflow == \E n \in DOMAIN TableFiles[ff.path] :
                       Len(TableFiles[ff.path][n].scores) > ff.numScores
     IN  \/ /\ exists
            /\ tables' = Append(tables, Load(TableFiles[ff.path], ff.numScores))
            /\ next' = next + 1
            /\ UNCHANGED pc
         \/ /\ ~exists
            /\ pc' = "exit 1"
            /\ UNCHANGED <<tables, next>>
         \/ /\ exists /\ overflow
            /\ pc' = "crash"
            /\ UNCHANGED <<tables, next>>
  /\ UNCHANGED <<params, ffs, nextInd, nameInd, weights>>

\* Main goes on to InitGPU, with six weights of its own.
LoadDone ==
  /\ pc = "load" /\ next = Len(ffs) + 1
  /\ pc' = "input"
  /\ UNCHANGED systemVars

SystemNext ==
  \/ InitFeature \/ FeaturesDone \/ InitWeight \/ WeightsDone
  \/ LoadTable \/ LoadDone
  \/ \E lines \in IniFiles : ReadIni(lines)

-----------------------------------------------------------------------------
(***************************************************************************)
(* Once the weights are read, a slot has the weight that the last line for *)
(* the first feature of that name gives it; no line reaches a feature that *)
(* shares its name with an earlier one, as the second unnamed feature of a *)
(* kind does, and its weights stay 0 (System.cpp:148-169, 193-203,         *)
(* FeatureFunction.cpp:71-92).                                             *)
(***************************************************************************)
LegacyWeights ==
  pc \notin {"init", "features", "weights", "crash"} =>
    \A n \in DOMAIN ffs : \A k \in 1 .. ffs[n].numScores :
      LET lines == {m \in DOMAIN Section("[weight]") :
                      Section("[weight]")[m].name = ffs[n].name}
          before == {m \in 1 .. (n - 1) : ffs[m].name = ffs[n].name}
          slots[m \in 0 .. (n - 1)] ==
            IF m = 0 THEN 0 ELSE slots[m - 1] + ffs[m].numScores
      IN  weights[slots[n - 1] + k - 1]
            = IF lines = {} \/ before # {} THEN 0
              ELSE Section("[weight]")[Max(lines)].values[k]

=============================================================================
