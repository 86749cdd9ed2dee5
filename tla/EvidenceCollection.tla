-------------------------- MODULE EvidenceCollection --------------------------
(***************************************************************************)
(* The bounded evidence collector, evidence/collector.py: list the files,  *)
(* search every keyword, rank the files that matched, read the best of     *)
(* them, keep the excerpts that fit.  Every tool call counts against one   *)
(* limit, is recorded, and may fail (tools/executor.py turns whatever a    *)
(* tool raises into a failed result).                                      *)
(*                                                                         *)
(* Abstracted: keywords and paths (a file is its number in path order; its *)
(* kind is what the access policy and the decoder make of it), what a line *)
(* says (a keyword has at most one match in a file, as long as Size says), *)
(* hashes.  The files do not change while they are read.                   *)
(***************************************************************************)
EXTENDS Naturals, Sequences, FiniteSets

CONSTANTS
  Keywords,      \* how many keywords the requirement has at most
  Files,         \* how many files the repository has at most
  Depth,         \* file -> the path component of its rank, lower is better
  Size,          \* file -> characters of an excerpt of it
  Kinds,         \* file -> its kind, for each repository considered
  ToolCallLimits,  \* the values of max_tool_calls considered
  MaxSelectedFiles, MaxEvidenceChars, MaxSearchMatches

ASSUME EvidenceAssumption ==
  /\ Keywords \in Nat /\ Files \in Nat
  /\ Depth \in [1..Files -> Nat] /\ Size \in [1..Files -> Nat]
  /\ Kinds \subseteq [1..Files -> {"text", "opaque", "sensitive", "link", "odd"}]
  \* EvidenceCollectionConfig.__post_init__
  /\ ToolCallLimits \cup {MaxSelectedFiles, MaxEvidenceChars, MaxSearchMatches}
       \subseteq Nat \ {0}

VARIABLES
  limit,       \* max_tool_calls
  kind,        \* file -> its kind
  hits,        \* keyword -> the files it occurs in
  stage,       \* the collector's step
  discovered,  \* whether list_files found any file
  todo,        \* the keywords, later the selected files, still to be done
  records,     \* the tool calls made: tool, argument, whether it succeeded
  matches,     \* the matches found, in order: keyword and file
  selected,    \* the files picked for reading, best first
  hashed,      \* the files read, whose content hash is in the bundle
  excerpts,    \* the matches quoted
  truncated,   \* what the bundle says about its own completeness
  filed        \* what the run will store of it: call statuses, any sources

given == <<limit, kind, hits>>
collected == <<todo, records, matches, selected, hashed, excerpts, truncated>>
evars == <<given, collected, stage, discovered, filed>>

File == 1..Files

\* is_sensitive_path: by its name or that of a directory above it.
Sensitive(f) == kind[f] = "sensitive"

\* iter_allowed_files: the files of the walk, in the order of their paths.
Listed(f) == ~ Sensitive(f) /\ kind[f] # "link"

\* resolve_file looks again at what was listed, and raises on a pipe or on a
\* name it normalises into another.
Resolves(f) == Listed(f) /\ kind[f] # "odd"

\* _read_text: UTF-8 without a zero byte, of a file that can be opened.
Readable(f) == Resolves(f) /\ kind[f] # "opaque"

Elements(s) == {s[i] : i \in 1..Len(s)}
CallsLeft == Len(records) < limit

\* A result: a success has an output and no error, a failure the reverse.
Success(output) == [status |-> "success", output |-> output]
Failed == [status |-> "failed"]
Record(tool, arg, result) == [tool |-> tool, arg |-> arg, status |-> result.status]
Called(tool, arg, result) == records' = Append(records, Record(tool, arg, result))

\* The tools.  Each may stop at a limit of its own and then says so; all may
\* raise, which the executor reports as a failure.
ToolResults(answers) == {Success(a) : a \in answers} \cup {Failed}

ListAnswers ==
  {a \in [found : BOOLEAN, truncated : BOOLEAN] :
     /\ (\E k \in DOMAIN hits : \E f \in hits[k] : Listed(f)) => a.found
     /\ a.truncated => a.found}

\* A file that cannot be read is passed over; one that does not resolve ends
\* the search with its error, unless a limit ended it before.
SearchAnswers(k) ==
  LET there == {f \in hits[k] : Readable(f)}
      odd == {f \in File : Listed(f) /\ ~ Resolves(f)}
  IN  {a \in [found : SUBSET there, truncated : BOOLEAN] :
         /\ a.found # there => a.truncated
         /\ odd # {} => a.truncated /\ \A f \in a.found, g \in odd : f < g}

ReadAnswers(f) == IF Readable(f) THEN [truncated : BOOLEAN] ELSE {}

\* The matches of one search, file after file.
InPathOrder(k, found) ==
  [i \in 1..Cardinality(found) |->
     [keyword |-> k,
      file |-> CHOOSE f \in found : Cardinality({g \in found : g < f}) = i - 1]]

\* _rank_files: depth, then more matches, then path.
Score(f) == Cardinality({i \in 1..Len(matches) : matches[i].file = f})
Outranks(f, g) ==
  \/ Depth[f] < Depth[g]
  \/ Depth[f] = Depth[g] /\ Score(f) > Score(g)
  \/ Depth[f] = Depth[g] /\ Score(f) = Score(g) /\ f < g
MatchedFiles == {matches[i].file : i \in 1..Len(matches)}
Place(f) == Cardinality({g \in MatchedFiles : Outranks(g, f)}) + 1
Ranked ==
  LET n == Cardinality(MatchedFiles)
  IN  [i \in 1..IF n < MaxSelectedFiles THEN n ELSE MaxSelectedFiles |->
         CHOOSE f \in MatchedFiles : Place(f) = i]

\* The matches in one file, in the order they were found.
MatchesIn(f) ==
  LET of[i \in 0..Len(matches)] ==
        IF i = 0 THEN <<>>
        ELSE IF matches[i].file = f THEN Append(of[i - 1], matches[i]) ELSE of[i - 1]
  IN  of[Len(matches)]

Chars(s) == LET sum[i \in 0..Len(s)] == IF i = 0 THEN 0 ELSE sum[i - 1] + Size[s[i].file]
            IN  sum[Len(s)]

\* Excerpts over the limit are passed over, shorter ones after them kept.
Trimmed(s) ==
  LET kept[i \in 0..Len(s)] ==
        IF i = 0 THEN <<>>
        ELSE IF Chars(kept[i - 1]) + Size[s[i].file] <= MaxEvidenceChars
             THEN Append(kept[i - 1], s[i]) ELSE kept[i - 1]
  IN  kept[Len(s)]
-------------------------------------------------------------------------------
\* extract_keywords: distinct, the best first, and possibly none.
KeywordCounts == 0..Keywords

\* The files that are not text hold every keyword.
EvidenceInit ==
  /\ limit \in ToolCallLimits /\ kind \in Kinds
  /\ LET others == {f \in File : kind[f] # "text"}
     IN  hits \in UNION {[1..n -> {others \cup s : s \in SUBSET (File \ others)}] :
                        n \in KeywordCounts}
  /\ stage = "list" /\ discovered = FALSE
  /\ todo = <<>> /\ records = <<>> /\ matches = <<>> /\ selected = <<>>
  /\ hashed = {} /\ excerpts = <<>> /\ truncated = FALSE
  /\ filed = [calls |-> {}, sources |-> FALSE]

\* A failed list_files is not checked for: the collector raises on it.
ListFiles ==
  /\ stage = "list"
  /\ \E result \in ToolResults(ListAnswers) :
       /\ Called("list", 0, result)
       /\ IF result = Failed
          THEN stage' = "failed" /\ UNCHANGED <<discovered, truncated, todo>>
          ELSE /\ discovered' = result.output.found
               /\ truncated' = result.output.truncated
               /\ todo' = [k \in DOMAIN hits |-> k]
               /\ stage' = "search"
  /\ UNCHANGED <<given, matches, selected, hashed, excerpts, filed>>

\* One keyword; a failed search is passed over without a word.
Search ==
  /\ stage = "search" /\ todo # <<>> /\ CallsLeft
  /\ todo' = Tail(todo)
  /\ \E result \in ToolResults(SearchAnswers(Head(todo))) :
       /\ Called("search", Head(todo), result)
       /\ IF result = Failed THEN UNCHANGED <<matches, truncated>>
          ELSE /\ matches' = matches \o InPathOrder(Head(todo), result.output.found)
               /\ truncated' = (truncated \/ result.output.truncated)
  /\ UNCHANGED <<given, stage, discovered, selected, hashed, excerpts, filed>>

\* The searches end, all done or out of calls; the best files are picked.
SelectFiles ==
  /\ stage = "search" /\ (todo = <<>> \/ ~ CallsLeft)
  /\ truncated' = (truncated \/ todo # <<>>)
  /\ selected' = Ranked
  /\ todo' = Ranked
  /\ stage' = "read"
  /\ UNCHANGED <<given, discovered, records, matches, hashed, excerpts, filed>>

\* One selected file: its hash and its matches, or nothing if it cannot be
\* read.
ReadFile ==
  /\ stage = "read" /\ todo # <<>> /\ CallsLeft
  /\ todo' = Tail(todo)
  /\ LET f == Head(todo)
     IN  \E result \in ToolResults(ReadAnswers(f)) :
           /\ Called("read", f, result)
           /\ IF result = Failed THEN UNCHANGED <<hashed, excerpts, truncated>>
              ELSE /\ hashed' = hashed \cup {f}
                   /\ excerpts' = excerpts \o MatchesIn(f)
                   /\ truncated' = (truncated \/ result.output.truncated)
  /\ UNCHANGED <<given, stage, discovered, matches, selected, filed>>

\* Mutant of Bundle: running out of calls while reading goes unsaid.
MutBundle ==
  /\ stage = "read" /\ (todo = <<>> \/ ~ CallsLeft)
  /\ LET fits == Chars(excerpts) <= MaxEvidenceChars
         kept == IF fits THEN excerpts ELSE Trimmed(excerpts)
     IN  /\ truncated' = (truncated \/ ~ fits)
         /\ excerpts' = SubSeq(kept, 1, IF Len(kept) < MaxSearchMatches THEN Len(kept)
                                        ELSE MaxSearchMatches)
  /\ stage' = "bundled"
  /\ UNCHANGED <<given, discovered, todo, records, matches, selected, hashed, filed>>

Bundle ==
  /\ stage = "read" /\ (todo = <<>> \/ ~ CallsLeft)
  /\ LET fits == Chars(excerpts) <= MaxEvidenceChars
         kept == IF fits THEN excerpts ELSE Trimmed(excerpts)
     IN  /\ truncated' = (truncated \/ todo # <<>> \/ ~ fits)
         /\ excerpts' = SubSeq(kept, 1, IF Len(kept) < MaxSearchMatches THEN Len(kept)
                                        ELSE MaxSearchMatches)
  /\ stage' = "bundled"
  /\ UNCHANGED <<given, discovered, todo, records, matches, selected, hashed, filed>>

Collect == ListFiles \/ Search \/ SelectFiles \/ ReadFile \/ Bundle

\* Of the bundle only whether there were files reaches the workers; the rest
\* is written down as it is, of which the evaluation will look at the calls'
\* statuses and at whether there are sources; the limits are spent.
HandOver ==
  /\ stage' = "handed"
  /\ filed' = [calls |-> {r.status : r \in Elements(records)}, sources |-> MatchedFiles # {}]
  /\ limit' = 0 /\ kind' = <<>> /\ hits' = <<>>
  /\ todo' = <<>> /\ records' = <<>> /\ matches' = <<>> /\ selected' = <<>>
  /\ hashed' = {} /\ excerpts' = <<>> /\ truncated' = FALSE
  /\ UNCHANGED discovered
-------------------------------------------------------------------------------
(* A bundle keeps its limits and is honest about what it leaves out.  Every *)
(* call was recorded and there were no more than allowed; nothing is quoted *)
(* that was not found in a file whose content was read and hashed, and no   *)
(* file the policy refuses or that is no text is among these; no file was   *)
(* passed over for one that ranks lower.  And if the bundle does not call   *)
(* itself truncated, every keyword was searched, every selected file tried, *)
(* every match a successful search should give was found, and all of what   *)
(* was found in the files read is quoted, up to the match limit.            *)
(* (EvidenceCollector.collect.)                                             *)
EvidenceSound ==
  /\ Len(records) <= limit
  /\ stage = "bundled" =>
       /\ Chars(excerpts) <= MaxEvidenceChars /\ Len(excerpts) <= MaxSearchMatches
       /\ Len(selected) <= MaxSelectedFiles
       /\ \A e \in Elements(excerpts) : e \in Elements(matches) /\ e.file \in hashed
       /\ \A f \in MatchedFiles \cup hashed : kind[f] = "text"
       /\ \A f \in MatchedFiles \ Elements(selected) : \A g \in Elements(selected) :
            Outranks(g, f)
       /\ \/ truncated
          \/ /\ \A k \in DOMAIN hits : \E r \in Elements(records) :
                  /\ r.tool = "search" /\ r.arg = k
                  /\ r.status = "success" =>
                       \A f \in hits[k] :
                         kind[f] = "text" => [keyword |-> k, file |-> f] \in Elements(matches)
             /\ \A f \in Elements(selected) : \E r \in Elements(records) :
                  r.tool = "read" /\ r.arg = f
             /\ \/ Len(excerpts) = MaxSearchMatches
                \/ \A x \in Elements(matches) : x.file \in hashed => x \in Elements(excerpts)
===============================================================================
