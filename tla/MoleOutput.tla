----------------------------- MODULE MoleOutput -----------------------------
(***************************************************************************)
(* What the Mole adapter reads in Mole's output (crates/adapter-mole): the *)
(* cleanup preview file, the transcript of an uninstall dry run and of a   *)
(* real one, the report of an optimization and the log of a cleanup.       *)
(*                                                                         *)
(* A line is what kind of line it is, its text and the number in it; how a *)
(* kind is told from another (markers, prefixes, sizes, colour codes) is   *)
(* left out.  Beside each parser stands the writer of the text, from the   *)
(* recorded output under fixtures/mole/1.48.1.                             *)
(***************************************************************************)
EXTENDS Integers, Sequences, FiniteSets, FiniteSetsExt, SequencesExt

None == -1
Line(kind, text, n) == [kind |-> kind, text |-> text, n |-> n]
Plain(kind) == Line(kind, kind, 0)
Kinds(lines) == {lines[k].kind : k \in DOMAIN lines}

NotAPlan == [plan |-> <<>>, malformed |-> TRUE]
APlan(plan) == [plan |-> plan, malformed |-> FALSE]

-----------------------------------------------------------------------------
(* The cleanup preview file: parse_cleanup_preview.  A section is          *)
(* [name, items], an item [path, count]; a path is the sequence of its     *)
(* physical lines, because a name may contain a newline.                   *)

NewFile == [sections |-> <<>>, current |-> 0, pending |-> <<>>, bad |-> FALSE,
            fields |-> 0, potential |-> 0, items |-> 0, categories |-> 0]
Bad(s) == [s EXCEPT !.bad = TRUE]

(* parse_cleanup_row: only the line with the size marker ends a row.       *)
Row(s, line) ==
  LET path == Append(s.pending, line.text)
      item == [path |-> path, count |-> line.n]
  IN  IF line.kind # "row" THEN [s EXCEPT !.pending = path]
      ELSE IF line.n = None \/ path = <<"">> \/ s.current = 0 THEN Bad(s)
      ELSE [s EXCEPT !.pending = <<>>, !.sections[s.current].items = Append(@, item)]

Section(s, name) ==
  LET known == {k \in DOMAIN s.sections : s.sections[k].name = name}
  IN  IF name = "" THEN Bad(s)
      ELSE IF known # {} THEN [s EXCEPT !.current = Min(known)]
      ELSE [s EXCEPT !.sections = Append(@, [name |-> name, items |-> <<>>]), !.current = Len(s.sections) + 1]

(* The trailer's three lines come last, once each and in this order.       *)
Trailer == <<"potential", "items", "categories">>

ReadFileLine(s, line) ==
  CASE s.bad                    -> s
    [] s.pending # <<>>         -> Row(s, line)
    [] line.kind = "blank"      -> s
    [] line.kind \in ToSet(Trailer) ->
         IF s.fields = 3 \/ line.kind # Trailer[s.fields + 1] \/ line.n = None THEN Bad(s)
         ELSE [s EXCEPT !.fields = @ + 1, ![line.kind] = line.n]
    [] s.fields # 0             -> Bad(s)
    [] line.kind = "section"    -> Section(s, line.text)
    [] line.kind = "comment"    -> s
    [] OTHER                    -> Row(s, line)

CountOf(sections) ==
  FoldLeft(LAMBDA sum, section : sum + FoldLeft(LAMBDA n, item : n + item.count, 0, section.items), 0, sections)

(* Mutant: the trailer is read and not compared with the rows.             *)
ReadCleanupTrusting(lines) ==
  IF lines = <<>> \/ Head(lines).kind # "header" THEN NotAPlan
  ELSE LET s == FoldLeft(ReadFileLine, NewFile, Tail(lines))
       IN  IF s.bad \/ s.pending # <<>> \/ s.fields # 3 THEN NotAPlan ELSE APlan(s.sections)

(* The header opens the file, the trailer closes it and adds up.           *)
ReadCleanup(lines) ==
  IF lines = <<>> \/ Head(lines).kind # "header" THEN NotAPlan
  ELSE LET s == FoldLeft(ReadFileLine, NewFile, Tail(lines))
       IN  IF \/ s.bad \/ s.pending # <<>> \/ s.fields # 3
              \/ s.items # CountOf(s.sections) \/ s.categories # Len(s.sections)
           THEN NotAPlan ELSE APlan(s.sections)

(* Mole's side: a row whose path has newlines takes that many lines, and a *)
(* line of a path can look like the end of a row.                          *)
ItemLines(item, looksLikeARow) ==
  [k \in DOMAIN item.path |->
     IF k = Len(item.path) THEN Line("row", item.path[k], item.count)
     ELSE IF item.path[k] \in looksLikeARow THEN Line("row", item.path[k], 1)
     ELSE Line("text", item.path[k], 0)]

CleanupFile(sections, looksLikeARow) ==
  LET lines(section) == <<Line("section", section.name, 0)>>
                        \o FlattenSeq([k \in DOMAIN section.items |-> ItemLines(section.items[k], looksLikeARow)])
                        \o <<Plain("blank")>>
      names == {sections[k].name : k \in DOMAIN sections}
  IN  <<Plain("header"), Plain("comment")>> \o FlattenSeq([k \in DOMAIN sections |-> lines(sections[k])])
      \o <<Plain("comment"), Line("potential", "potential", 0), Line("items", "items", CountOf(sections)),
           Line("categories", "categories", Cardinality(names))>>

(* The plan such a file stands for: two sections of one name are one.      *)
CategoriesOf(sections) ==
  LET add(merged, section) ==
        LET same == {k \in DOMAIN merged : merged[k].name = section.name}
        IN  IF same = {} THEN Append(merged, section)
            ELSE [merged EXCEPT ![Min(same)].items = @ \o section.items]
  IN  FoldLeft(add, <<>>, sections)

-----------------------------------------------------------------------------
(* The transcript of an uninstall dry run: parse_uninstall_preview.  An    *)
(* app is [name, items], an item [scope, path].                            *)

Position(lines, kind) == SelectInSeq(lines, LAMBDA line : line.kind = kind)
After(lines, k) == SubSeq(lines, k + 1, Len(lines))

(* parse_matched_apps: the numbered names below the header, up to the      *)
(* first blank or other line, as many of them as it says.                  *)
MatchedApps(lines) ==
  LET header == Position(lines, "matched")
      below == After(lines, header)
      skipped == SelectInSeq(below, LAMBDA line : line.kind # "blank")
      names == After(below, skipped - 1)
      end == SelectInSeq(names, LAMBDA line : line.kind # "name")
      listed == SubSeq(names, 1, IF end = 0 THEN Len(names) ELSE end - 1)
  IN  IF header = 0 \/ skipped = 0 \/ Len(listed) # lines[header].n THEN <<>>
      ELSE [k \in DOMAIN listed |-> listed[k].text]

Scopes == {"removed", "system", "review only"}

(* An app's header and a notice share their marker: which it is depends on *)
(* the matched names.  Totals, notes and any other line are no part of the *)
(* plan.                                                                   *)
ReadPlanLine(matched, s, line) ==
  CASE line.kind \in Scopes ->
         IF s.plan = <<>> THEN [s EXCEPT !.malformed = TRUE]
         ELSE [s EXCEPT !.plan[Len(s.plan)].items = Append(@, [scope |-> line.kind, path |-> line.text])]
    [] line.kind = "circled" /\ line.text \in ToSet(matched) ->
         [s EXCEPT !.plan = Append(@, [name |-> line.text, items |-> <<>>])]
    [] OTHER -> s

(* "the one line that proves the run reached its own summary"              *)
ReadUninstall(lines) ==
  LET matched == MatchedApps(lines)
      start == Position(lines, "begin")
      s == FoldLeft(LAMBDA t, line : ReadPlanLine(matched, t, line), APlan(<<>>), After(lines, start))
  IN  IF \/ matched = <<>> \/ start = 0 \/ Position(lines, "title") = 0
         \/ s.malformed \/ Len(s.plan) # Len(matched)
      THEN NotAPlan ELSE s

(* Mole's side, for a dry run and for a real one: only the end differs.    *)
Matched(apps) ==
  <<Plain("notice"), Plain("blank"), Line("matched", "matched", Len(apps))>>
  \o [k \in DOMAIN apps |-> Line("name", apps[k].name, k)]
  \o <<Plain("blank"), Plain("prompt")>>

UninstallPlan(apps) ==
  LET section(app) == <<Plain("blank"), Line("circled", app.name, 0)>>
                      \o [k \in DOMAIN app.items |-> Line(app.items[k].scope, app.items[k].path, 0)]
  IN  Matched(apps) \o <<Plain("begin"), Line("circled", "notice", 0)>>
      \o FlattenSeq([k \in DOMAIN apps |-> section(apps[k])]) \o <<Plain("blank"), Plain("total")>>

UninstallDryRun(apps) == UninstallPlan(apps) \o <<Plain("title"), Plain("freed"), Plain("note")>>

(* parse_uninstall_execution: the summary names what was removed; a line   *)
(* for each that was not follows it.                                       *)
UninstallOutcome(lines) ==
  LET summaries == {line \in ToSet(lines) : line.kind = "freed"}
  IN  [removed |-> UNION {line.text : line \in summaries},
       completion |-> IF "failed" \in Kinds(lines) THEN "partial" ELSE IF summaries # {} THEN "finished" ELSE "failed"]

-----------------------------------------------------------------------------
(* The report of an optimization: parse_optimize_sections.  Items before   *)
(* the first section belong to one made for them.                          *)
ReadReportLine(s, line) ==
  CASE line.kind = "section" -> Append(s, [name |-> line.text, items |-> <<>>])
    [] line.kind = "item"    ->
         LET t == IF s = <<>> THEN <<[name |-> "Mole report", items |-> <<>>]>> ELSE s
         IN  [t EXCEPT ![Len(t)].items = Append(@, line.text)]
    [] OTHER -> s

(* Both markers and the count, or it is no preview.                        *)
ReadOptimize(lines) ==
  IF {"marker", "complete", "would apply"} \subseteq Kinds(lines)
  THEN APlan(FoldLeft(ReadReportLine, <<>>, lines)) ELSE NotAPlan

OptimizeReport(sections) ==
  FlattenSeq([k \in DOMAIN sections |->
                <<Line("section", sections[k].name, 0)>>
                \o [i \in DOMAIN sections[k].items |-> Line("item", sections[k].items[i], 0)]])

OptimizeDryRun(sections) ==
  <<Plain("marker")>> \o OptimizeReport(sections) \o <<Plain("complete"), Plain("would apply")>>

-----------------------------------------------------------------------------
(* The log of a cleanup: parse_cleanup_execution.  Whatever Mole says it   *)
(* could not do is a warning, and so is a scope it does not report.        *)
CleanupOutcome(lines) ==
  [removed |-> {},
   completion |-> IF "included" \in Kinds(lines) /\ "failed" \notin Kinds(lines)
                  THEN "finished" ELSE "partial"]
=============================================================================
