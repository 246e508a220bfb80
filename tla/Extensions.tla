----------------------------- MODULE Extensions -----------------------------
(* The extensions of one run: the registry orders them by their dependencies, *)
(* activates them one after the other, collects their tools, and deactivates *)
(* them in the reverse order when the run ends or an activation fails.       *)
EXTENDS Naturals, Sequences, FiniteSets

CONSTANTS
    Extension,   \* registered extensions
    Tools        \* tool names they may contribute

VARIABLES
    requires,    \* per extension: what its manifest requires
    profile,     \* the extensions the profile lists
    path,        \* resolve: the extensions being visited, innermost last
    ordered,     \* resolve: those visited, in order
    stage,       \* where the activation of the run is
    active,      \* activated and not deactivated, in order of activation
    owner,       \* per tool: the extension it comes from
    cause        \* what ended the activation, "" if nothing did

extensionVars == <<requires, profile, path, ordered, stage, active, owner, cause>>
manifests == <<requires, profile>>

Members(seq) == {seq[i] : i \in DOMAIN seq}

ExtensionsInit ==
    /\ requires \in [Extension -> SUBSET Extension] /\ profile \in SUBSET Extension
    /\ \A e \in Extension : e \notin requires[e]
    /\ path = <<>> /\ ordered = <<>> /\ stage = "resolve" /\ active = <<>>
    /\ owner = [t \in {} |-> t] /\ cause = ""

(* resolve: a depth-first visit of the profile; a dependency that is being
   visited is a cycle, and one that is unknown or of another mode an error.
   The order of a manifest's dependencies is any. *)
Pending == IF path = <<>> THEN profile ELSE requires[path[Len(path)]]
VisitExtension(e) ==
    /\ stage = "resolve" /\ e \in Pending \ Members(ordered)
    /\ IF e \in Members(path)
       THEN stage' = "failed" /\ cause' = "cycle" /\ UNCHANGED path
       ELSE path' = Append(path, e) /\ UNCHANGED <<stage, cause>>
    /\ UNCHANGED <<manifests, ordered, active, owner>>
RefuseManifest ==
    /\ stage = "resolve" /\ stage' = "failed" /\ cause' = "manifest"
    /\ UNCHANGED <<manifests, path, ordered, active, owner>>
Visited ==
    /\ stage = "resolve" /\ path # <<>> /\ Pending \subseteq Members(ordered)
    /\ ordered' = Append(ordered, path[Len(path)])
    /\ path' = SubSeq(path, 1, Len(path) - 1)
    /\ UNCHANGED <<manifests, stage, active, owner, cause>>
Resolved ==
    /\ stage = "resolve" /\ path = <<>> /\ Pending \subseteq Members(ordered)
    /\ stage' = "activate"
    /\ UNCHANGED <<manifests, path, ordered, active, owner, cause>>

(* activate: the next extension contributes tools; a name that is taken stays
   with the extension that brought it first. *)
NextUp == ordered[Len(active) + 1]
Activate(brought) ==
    /\ stage = "activate" /\ Len(active) < Len(ordered)
    /\ active' = Append(active, NextUp)
    /\ owner' = [t \in brought \union DOMAIN owner |->
                    IF t \in DOMAIN owner THEN owner[t] ELSE NextUp]
    /\ UNCHANGED <<manifests, path, ordered, stage, cause>>
(* An extension that raises, or brings a tool it did not declare, closes the
   others; an invalid configuration and a cancellation do not. *)
ActivateFails(why) ==
    /\ stage = "activate" /\ Len(active) < Len(ordered)
    /\ active' = IF why = "permission" THEN Append(active, NextUp) ELSE active
    /\ stage' = IF why \in {"raised", "permission"} THEN "closing" ELSE "failed"
    /\ cause' = why
    /\ UNCHANGED <<manifests, path, ordered, owner>>
Ready ==
    /\ stage = "activate" /\ Len(active) = Len(ordered) /\ stage' = "running"
    /\ UNCHANGED <<manifests, path, ordered, active, owner, cause>>

(* close, once, when the run ends: the last one first. One that raises leaves
   the others active. *)
Close ==
    /\ stage = "running" /\ stage' = "closing"
    /\ UNCHANGED <<manifests, path, ordered, active, owner, cause>>
\* Mutant: the first one first.
FirstOff(seq) == Tail(seq)
LastOff(seq) == SubSeq(seq, 1, Len(seq) - 1)
Deactivate(ok) ==
    /\ stage = "closing"
    /\ IF active = <<>> THEN stage' = "failed" /\ UNCHANGED <<active, cause>>
       ELSE /\ active' = LastOff(active)
            /\ stage' = IF ok THEN stage ELSE "failed"
            /\ cause' = IF ok THEN cause ELSE "deactivate"
    /\ UNCHANGED <<manifests, path, ordered, owner>>

ExtensionsNext ==
    \/ RefuseManifest \/ Visited \/ Resolved \/ Ready \/ Close
    \/ \E e \in Extension : VisitExtension(e)
    \/ \E brought \in SUBSET Tools : Activate(brought)
    \/ \E why \in {"raised", "permission", "config", "cancelled"} : ActivateFails(why)
    \/ \E ok \in BOOLEAN : Deactivate(ok)
ExtensionsSpec == ExtensionsInit /\ [][ExtensionsNext]_extensionVars
----------------------------------------------------------------------------
ExtensionsTypeOK ==
    /\ requires \in [Extension -> SUBSET Extension] /\ profile \subseteq Extension
    /\ path \in Seq(Extension) /\ ordered \in Seq(Extension) /\ active \in Seq(Extension)
    /\ stage \in {"resolve", "activate", "running", "closing", "failed"}
    /\ DOMAIN owner \subseteq Tools /\ \A t \in DOMAIN owner : owner[t] \in Extension

(* An extension is only ever active together with all it requires, while the
   run starts and while it closes; a run has exactly the extensions its
   profile needs, each once; a set of manifests is refused as cyclic only if
   it has a cycle; and an activation that raised leaves none active
   (extensions.py resolve, activate, close). *)
NeedsAreActive == \A e \in Members(active) : requires[e] \subseteq Members(active)
Closed(set) == \A e \in set : requires[e] \subseteq set
ExactlyNeeded ==
    stage = "running" =>
        /\ Cardinality(Members(ordered)) = Len(ordered)
        /\ profile \subseteq Members(ordered) /\ Closed(Members(ordered))
        /\ \A set \in SUBSET Extension :
               profile \subseteq set /\ Closed(set) => Members(ordered) \subseteq set
HasCycle == \E set \in (SUBSET Extension) \ {{}} : \A e \in set : requires[e] \intersect set # {}
CyclesOnly == cause = "cycle" => HasCycle
FailureCloses == stage = "failed" /\ cause \in {"raised", "permission"} => active = <<>>
ActivationSound == NeedsAreActive /\ ExactlyNeeded /\ CyclesOnly /\ FailureCloses
=============================================================================
