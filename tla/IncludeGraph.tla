---------------------------- MODULE IncludeGraph ----------------------------
(***************************************************************************)
(* resolveXmlIncludeGraph (lib/dialects/xml-include-resolver.js): the      *)
(* depth-first walk over the <include> directives of a dialect, one step   *)
(* for each file entered, each include skipped and each file left.         *)
(* What a name resolves to is data: a file, or a target that is refused    *)
(* (a URL, no such file, a file outside the allowed directories).          *)
(***************************************************************************)
EXTENDS Integers, Sequences, FiniteSets

CONSTANTS Files,       \* dialect files
          RefusedFile  \* an include that is refused

VARIABLES includes, \* file -> its includes, in document order, as they resolve
          root,
          stack,    \* stackOrder, each file with the index of its next include
          visited,
          ordered,  \* orderedFiles
          result    \* "running", "ordered", "cycle" or "refused"

vars == <<includes, root, stack, visited, ordered, result>>

-----------------------------------------------------------------------------
Top == stack[Len(stack)]
Due == includes[Top.file][Top.next]
OnStack(f) == \E k \in DOMAIN stack : stack[k].file = f
Pushed(s, f) == Append(s, [file |-> f, next |-> 1])
Advanced == [stack EXCEPT ![Len(stack)].next = @ + 1]
Running == result = "running" /\ stack # <<>>
HasMore == Top.next <= Len(includes[Top.file])

\* Fault: the files entered are taken for resolved.
SkipsEntered(f) == f \in visited \/ OnStack(f)

\* "Already fully resolved; do not duplicate".
Skips(f) == f \in visited

\* An include that resolves to a file not seen yet is entered.
Enter ==
  /\ Running /\ HasMore
  /\ Due # RefusedFile /\ ~Skips(Due) /\ ~OnStack(Due)
  /\ stack' = Pushed(Advanced, Due)
  /\ UNCHANGED <<includes, root, visited, ordered, result>>

Skip ==
  /\ Running /\ HasMore
  /\ Due # RefusedFile /\ Skips(Due)
  /\ stack' = Advanced
  /\ UNCHANGED <<includes, root, visited, ordered, result>>

\* DIALECT_INCLUDE_CYCLE
Cycle ==
  /\ Running /\ HasMore
  /\ Due # RefusedFile /\ ~Skips(Due) /\ OnStack(Due)
  /\ result' = "cycle"
  /\ UNCHANGED <<includes, root, stack, visited, ordered>>

\* DIALECT_INCLUDE_NOT_FOUND
Refuse ==
  /\ Running /\ HasMore
  /\ Due = RefusedFile
  /\ result' = "refused"
  /\ UNCHANGED <<includes, root, stack, visited, ordered>>

\* All includes of the file are resolved: it is ordered after them.
Leave ==
  /\ Running /\ ~HasMore
  /\ ordered' = Append(ordered, Top.file)
  /\ visited' = visited \cup {Top.file}
  /\ stack' = SubSeq(stack, 1, Len(stack) - 1)
  /\ result' = IF Len(stack) = 1 THEN "ordered" ELSE result
  /\ UNCHANGED <<includes, root>>

-----------------------------------------------------------------------------
Start(graph, file) ==
  /\ includes = graph
  /\ root = file
  /\ stack = Pushed(<<>>, file)
  /\ visited = {}
  /\ ordered = <<>>
  /\ result = "running"

Next == Enter \/ Skip \/ Cycle \/ Refuse \/ Leave

-----------------------------------------------------------------------------
(* Properties *)

Included(f) == {includes[f][k] : k \in DOMAIN includes[f]} \ {RefusedFile}

\* The files reachable from f in one include or more: those in every set that
\* holds what f includes, and what its own members include.
Below(f) ==
  {g \in Files : \A S \in SUBSET Files :
     (Included(f) \subseteq S /\ \A h \in S : Included(h) \subseteq S) => g \in S}

Reached == {root} \cup Below(root)

\* "orderedFiles is dependency-first, root-last, de-duplicated": a walk that
\* succeeds has ordered exactly the files the root reaches, each once and
\* after all it includes, and none of them is part of a cycle; one that fails
\* found a cycle, or a refused include, among them.
OrderIsSound ==
  /\ result = "ordered" =>
       /\ {ordered[k] : k \in DOMAIN ordered} = Reached
       /\ Len(ordered) = Cardinality(Reached)
       /\ \A j, k \in DOMAIN ordered : ordered[j] \in Below(ordered[k]) => j < k
  /\ result = "cycle" => \E f \in Reached : f \in Below(f)
  /\ result = "refused" => \E f \in Reached : \E k \in DOMAIN includes[f] : includes[f][k] = RefusedFile
=============================================================================
