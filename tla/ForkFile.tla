------------------------------ MODULE ForkFile ------------------------------
(***************************************************************************)
(* The fork file format (frontmatter.rs, duration.rs): what a markdown     *)
(* file of a forks tree says, and what it is taken for.                    *)
(*                                                                         *)
(* A YAML value is a record [k |-> its kind, v |-> what the field's parser *)
(* tells apart in it]: a word or a name for a string ("" when it is        *)
(* blank), a duration [num, unit] or a list of comma-separated pieces      *)
(* where the field takes one.                                              *)
(***************************************************************************)
EXTENDS Moments, SequencesExt, TLC

CONSTANTS
    None,
    Word            \* 2^64: durations are u64

Str(x)  == [k |-> "str", v |-> x]
Num(n)  == [k |-> "num", v |-> n]       \* n < 0: not an unsigned integer
Bool(b) == [k |-> "bool", v |-> b]
List(s) == [k |-> "list", v |-> s]
Map(f)  == [k |-> "map", v |-> f]
Unset   == [k |-> "unset", v |-> None]  \* missing, or null

\* A duration's text: a number, None when it is none, and its suffix.
Text(num, unit) == Str([num |-> num, unit |-> unit])

\* The raw fields of a file; `other` holds the unsupported keys that are set.
BlankRaw == [opens |-> TRUE, closes |-> TRUE, yaml |-> TRUE, fork |-> Unset, description |-> Unset,
             run_on |-> Unset, throttle |-> Unset, after |-> Unset, overlap |-> Unset,
             tags |-> Unset, other |-> {}]

\* The values of the fields are of the kinds above.
IsList(s)     == Len(s) \in Nat /\ s = [i \in 1..Len(s) |-> s[i]]
IsDuration(v) == /\ v.k = "num" => v.v \in Int
                 /\ v.k = "str" => v.v.num = None \/ v.v.num \in Int

IsRaw(raw) ==
    LET strs == {i \in DOMAIN raw.tags.v : raw.tags.v[i].k = "str"}
        maps == {i \in DOMAIN raw.run_on.v : raw.run_on.v[i].k = "map"}
        idles == {i \in maps : "idle" \in DOMAIN raw.run_on.v[i].v}
    IN  /\ \A f \in {"run_on", "after", "tags"} : raw[f].k = "list" => IsList(raw[f].v)
        /\ raw.run_on.k = "list" => \A i \in idles : IsDuration(raw.run_on.v[i].v["idle"])
        /\ raw.tags.k = "str" => IsList(raw.tags.v)
        /\ raw.tags.k = "list" => \A i \in strs : IsList(raw.tags.v[i].v)

-----------------------------------------------------------------------------
\* A value that is not understood is None, or NoTrigger.

\* parse_duration_str: a number that is no u64 fails, a product that overflows
\* wraps in a release build.
ParseDurationStr(s) ==
    LET mult == [s |-> 1, m |-> 60, h |-> 3600, d |-> 86400]
        secs == s.num * (IF s.unit = "" THEN 1 ELSE mult[s.unit])
    IN  IF s.unit \in {""} \cup DOMAIN mult /\ s.num \in 0..(Word-1) THEN secs % Word ELSE None

Unsigned(n) == IF n < 0 THEN None ELSE n

ParseDurationYaml(v) ==
    IF v.k = "num" THEN Unsigned(v.v) ELSE IF v.k = "str" THEN ParseDurationStr(v.v) ELSE None

\* A number as such, or as text with one of the suffixes.
ParseCount(v, suffixes) ==
    CASE v.k = "num" -> Unsigned(v.v)
      [] v.k = "str" /\ v.v.unit \in suffixes -> v.v.num
      [] OTHER -> None

ParseTokenCount(v) == ParseCount(v, {""})

ParsePercent(v) ==
    LET n == ParseCount(v, {"", "%"}) IN IF n # None /\ n \in 1..100 THEN n ELSE None

Supported == {"idle", "context_tokens", "context_used", "context_left"}

PlainTriggers ==
    [idle |-> <<"idle", Bare>>, compact |-> <<"compact", 0>>, compaction |-> <<"compact", 0>>,
     session_start |-> <<"session_start", 0>>, session_end |-> <<"session_end", 0>>,
     manual_stop |-> <<"manual_stop", 0>>, boot |-> <<"boot", 0>>]

\* A plain word, or a map of one trigger to its value.
ParseRunOnEntry(v) ==
    LET key == CHOOSE key \in DOMAIN v.v : TRUE
        n == CASE key = "idle" -> ParseDurationYaml(v.v[key])
               [] key \in {"context_tokens", "context_left"} -> ParseTokenCount(v.v[key])
               [] key = "context_used" -> ParsePercent(v.v[key])
               [] OTHER -> None
    IN  CASE v.k = "str" /\ v.v \in DOMAIN PlainTriggers -> PlainTriggers[v.v]
          [] v.k = "map" /\ Cardinality(DOMAIN v.v) = 1 /\ n # None -> <<key, n>>
          [] OTHER -> NoTrigger

DefaultRunOn == <<<<"idle", Bare>>>>

ParsedRunOn(entries) ==
    LET add(out, e) == IF ParseRunOnEntry(e) = NoTrigger THEN out ELSE Append(out, ParseRunOnEntry(e))
    IN  FoldLeft(add, <<>>, entries)

ParseRunOn(v) ==
    IF v.k = "unset" \/ ParsedRunOn(v.v) = <<>> THEN DefaultRunOn ELSE ParsedRunOn(v.v)

\* A name, or a map with the name under `fork` or else under `skill`.
ParseAfterEntry(v) ==
    LET get(key) == IF key \in DOMAIN v.v /\ v.v[key].k = "str" THEN v.v[key].v ELSE None
        name == CASE v.k = "str" -> v.v
                  [] v.k = "map" -> IF get("fork") # None THEN get("fork") ELSE get("skill")
                  [] OTHER -> None
    IN  IF name = "" THEN None ELSE name

\* The values of a list, each once and in order, but not None and not `skip`.
DistinctBut(skip, values) ==
    LET add(out, x) == IF x \in {None, skip} \cup Range(out) THEN out ELSE Append(out, x)
    IN  FoldLeft(add, <<>>, values)

AfterEntries(v) == IF v.k = "list" THEN v.v ELSE <<v>>

ParsedAfter(v) == [i \in DOMAIN AfterEntries(v) |-> ParseAfterEntry(AfterEntries(v)[i])]

\* Mutant of ParseAfter: a fork may wait for itself.
ParseAfterSelf(v, name) ==
    IF v.k = "unset" THEN <<>> ELSE DistinctBut(None, ParsedAfter(v))

ParseAfter(v, name) ==
    IF v.k = "unset" THEN <<>> ELSE DistinctBut(name, ParsedAfter(v))

\* The comma-separated pieces of a string, or of the strings of a list.
Pieces(v) ==
    CASE v.k = "str" -> v.v
      [] v.k = "list" -> FlattenSeq([i \in DOMAIN v.v |-> IF v.v[i].k = "str" THEN v.v[i].v ELSE <<>>])
      [] OTHER -> <<>>

ParseTags(v) == DistinctBut("", Pieces(v))

-----------------------------------------------------------------------------
\* split_frontmatter: a block that is opened and closed.
HasFrontmatter(raw) == raw.opens /\ raw.closes

\* serde: the block is YAML, and the fields that are typed have their type.
Deserializes(raw) ==
    /\ raw.yaml
    /\ raw.description.k \in {"unset", "str"}
    /\ raw.run_on.k \in {"unset", "list"}

IsMarked(raw) == raw.fork = Bool(TRUE)

HasForkLikeKeys(raw) ==
    \/ \E f \in {"description", "run_on", "throttle", "after", "overlap", "tags"} : raw[f].k # "unset"
    \/ raw.other \cap {"delivery", "model", "allowed_tools", "permission_mode"} # {}

Throttle(raw) ==
    LET n == ParseDurationYaml(raw.throttle) IN IF n # None /\ n > 0 THEN n ELSE None

\* The fields that something is warned about: a value that fell back, an entry
\* that was dropped, a moment that never fires.
Warnings(raw, name) ==
    LET after == AfterEntries(raw.after)
        context(e) == e.k = "map" /\ "context" \in DOMAIN e.v /\ e.v["context"].k = "str"
    IN
    raw.other
    \cup {f \in {"throttle"} : raw.throttle.k # "unset" /\ Throttle(raw) = None}
    \cup {f \in {"run_on"} :
            \/ raw.run_on.k # "unset"
               /\ (raw.run_on.v = <<>> \/ Len(ParsedRunOn(raw.run_on.v)) < Len(raw.run_on.v))
            \/ \E i \in DOMAIN ParseRunOn(raw.run_on) : ParseRunOn(raw.run_on)[i][1] \notin Supported}
    \cup {f \in {"after"} :
            /\ raw.after.k # "unset"
            /\ \/ Len(ParseAfter(raw.after, name)) < Len(after)
               \/ \E i \in DOMAIN after : context(after[i])}
    \cup {f \in {"overlap"} : raw.overlap.k \notin {"unset", "bool"}}
    \cup {f \in {"tags"} :
            \/ raw.tags.k \notin {"unset", "str", "list"}
            \/ raw.tags.k = "list" /\ \E i \in DOMAIN raw.tags.v : raw.tags.v[i].k # "str"}

\* parse_fork_file: "fork", "not_fork" (fork_like when a warning is due) or
\* "invalid".
ParseForkFile(name, raw) ==
    CASE ~HasFrontmatter(raw) -> [kind |-> "not_fork", fork_like |-> FALSE]
      [] HasFrontmatter(raw) /\ ~Deserializes(raw) -> [kind |-> "invalid"]
      [] HasFrontmatter(raw) /\ Deserializes(raw) /\ ~IsMarked(raw) ->
            [kind |-> "not_fork", fork_like |-> raw.fork # Bool(FALSE) /\ HasForkLikeKeys(raw)]
      [] OTHER ->
            [kind |-> "fork",
             def |-> [run_on |-> ParseRunOn(raw.run_on),
                      throttle |-> Throttle(raw),
                      after |-> ParseAfter(raw.after, name),
                      overlap |-> raw.overlap = Bool(TRUE),
                      tags |-> ParseTags(raw.tags)],
             warnings |-> Warnings(raw, name)]
=============================================================================
