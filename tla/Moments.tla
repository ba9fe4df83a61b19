------------------------------ MODULE Moments -------------------------------
(***************************************************************************)
(* The pure selection rules of autofork-core: fork moments and the triggers *)
(* they hit (moments.rs), the tag filter (tags.rs) and the latch keys      *)
(* (planner.rs).  A trigger is a pair <<kind, n>>: <<"idle", secs>>,       *)
(* <<"context_tokens", n>>, <<"context_used", percent>> or                 *)
(* <<"context_left", n>>; a bare `idle` is <<"idle", Bare>>.               *)
(***************************************************************************)
EXTENDS Integers, Sequences, FiniteSets

Bare == -1          \* an idle trigger without a duration of its own
NoTokens == -1      \* the context gauge is unknown
NoTrigger == <<"none", 0>>
TriggerKinds == {"idle", "context_tokens", "context_used", "context_left"}

\* The idle deadline of an idle trigger, 0 when it is switched off.
EffectiveSecs(trigger, defaultIdle) ==
    IF trigger[2] = Bare THEN defaultIdle ELSE trigger[2]

\* The distinct positive idle deadlines a set of run_on lists needs serviced.
IdleDeadlines(runOns, defaultIdle) ==
    { d \in UNION { { EffectiveSecs(r[j], defaultIdle) :
                        j \in {k \in DOMAIN r : r[k][1] = "idle"} } : r \in runOns } :
        d > 0 }

\* The model's window, bumped when the gauge proves it too small.
ResolveContextWindow(model1M, tokens, window, window1M) ==
    LET assumed == IF model1M THEN window1M ELSE window
    IN  CASE tokens <= assumed -> assumed
          [] tokens > assumed /\ tokens <= window1M -> window1M
          [] OTHER -> tokens

\* Mutant of ElapsedMoments: a deadline elapses a second late.
ElapsedMomentsLate(tokens, window, base, deadlines, upTo) ==
    (IF tokens = NoTokens THEN {} ELSE {<<"context", tokens, window>>})
        \cup { <<"idle", d, 0>> : d \in {e \in deadlines : base + e < upTo} }

\* A moment is <<"context", tokens, window>> or <<"idle", deadline, 0>>.
\* elapsed_moments: the gauge, if known, and every deadline passed by `upTo`.
ElapsedMoments(tokens, window, base, deadlines, upTo) ==
    (IF tokens = NoTokens THEN {} ELSE {<<"context", tokens, window>>})
        \cup { <<"idle", d, 0>> : d \in {e \in deadlines : base + e <= upTo} }

Hits(moment, trigger, defaultIdle) ==
    \/ /\ moment[1] = "idle"
       /\ trigger[1] = "idle"
       /\ EffectiveSecs(trigger, defaultIdle) > 0
       /\ EffectiveSecs(trigger, defaultIdle) = moment[2]
    \/ /\ moment[1] = "context"
       /\ \/ trigger[1] = "context_tokens" /\ moment[2] >= trigger[2]
          \/ trigger[1] = "context_used" /\ moment[2] * 100 >= moment[3] * trigger[2]
          \/ trigger[1] = "context_left" /\ moment[3] - moment[2] <= trigger[2]

\* Moments are tried context first, then by ascending deadline, and for each
\* moment the triggers in run_on order: the first hit is the one that counts.
MatchMoments(runOn, moments, defaultIdle) ==
    LET rank(m) == IF m[1] = "context" THEN 0 ELSE m[2]
        hits == { h \in moments \X DOMAIN runOn : Hits(h[1], runOn[h[2]], defaultIdle) }
        first(h) == \A g \in hits : \/ rank(h[1]) < rank(g[1])
                                    \/ rank(h[1]) = rank(g[1]) /\ h[2] <= g[2]
    IN  IF hits = {} THEN NoTrigger ELSE runOn[(CHOOSE h \in hits : first(h))[2]]

\* Disable wins; a non-empty enable list admits only forks that carry one of
\* its tags.
TagsAllowed(tags, enable, disable) ==
    /\ tags \cap disable = {}
    /\ enable # {} => tags \cap enable # {}

\* The latch a matched trigger consumes: idle once per pause, context once per
\* session.
LatchKey(trigger, epoch) ==
    IF trigger[1] = "idle" THEN <<"idle-pause", epoch>> ELSE trigger
=============================================================================
