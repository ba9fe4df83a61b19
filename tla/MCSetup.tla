------------------------------ MODULE MCSetup -------------------------------
(***************************************************************************)
(* Files, configurations and working directories for model checking Setup. *)
(***************************************************************************)
EXTENDS Setup

MCComponents == <<".git", "FORK.md", "a", "a.md", "sub">>
MCStem == ".git" :> None @@ "FORK.md" :> "FORK" @@ "a" :> None @@ "a.md" :> "a" @@ "sub" :> None

MCPlaces ==
    {<<"inner", "a.md">>, <<"inner", "a", "FORK.md">>, <<"inner", "sub", "a", "FORK.md">>,
     <<"inner", "sub", "sub", "a.md">>, <<"inner", ".git", "a.md">>,
     <<"home", "sub", "FORK.md">>, <<"home", "a.md">>}

\* In a project under the home directory, and in one elsewhere with a whitelist.
MCSessions ==
    {[chain |-> <<"inner", "home">>, env |-> [enable_tags |-> None, disable_tags |-> <<"">>]],
     [chain |-> <<"inner">>, env |-> [enable_tags |-> <<"", "ci">>, disable_tags |-> None]]}

Marked == [BlankRaw EXCEPT !.fork = Bool(TRUE)]

MCRaw(content) ==
    CASE content = "note" -> [BlankRaw EXCEPT !.description = Str("notes")]
      [] content = "plain" -> Marked
      [] content = "soon" ->
            [Marked EXCEPT !.run_on = List(<<Map("idle" :> Text(2, "m")), Str("compact"), Num(3)>>),
                           !.throttle = Text(0, "s"),
                           !.tags = List(<<Str(<<"ci", "", "ci">>), Num(1)>>)]
      [] content = "odd" ->
            [Marked EXCEPT !.run_on = List(<<Map("context_used" :> Num(101)), Map("idle" :> Text(None, "m"))>>),
                           !.after = List(<<Str("a"), Map("skill" :> Str("b")), Str("b"), Str("")>>),
                           !.tags = Str(<<"off">>)]
      [] content = "scalar" -> [Marked EXCEPT !.run_on = Str("idle")]
      [] OTHER -> [BlankRaw EXCEPT !.closes = FALSE]

MCRawLayer(layer) ==
    CASE layer = "short" ->
            [BlankLayer EXCEPT !["default_idle_deadline"] = Text(1, "m"), !["quiet_period"] = Text(1, "h"),
                               !["disable_tags"] = List(<<"off">>),
                               !["tag_throttles"] = ("ci" :> Text(1, "h"))]
      [] layer = "bad" ->
            [BlankLayer EXCEPT !["default_idle_deadline"] = Num(-1), !["wake_debounce"] = Num(0),
                               !["tag_throttles"] = ("ci" :> Bool(TRUE))]
      [] OTHER -> [BlankLayer EXCEPT !["toml"] = FALSE]
=============================================================================
