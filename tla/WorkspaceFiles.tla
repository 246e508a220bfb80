--------------------------- MODULE WorkspaceFiles ---------------------------
(* The files of one workspace under the editor, the agent's tools and git: a *)
(* save that compares versions, edits that read before they write, moves,    *)
(* the trash, checkpoints. Requests run in threads and take no lock, so each *)
(* is split between its checks and its writes. A path stands for a file or a *)
(* directory with all it holds; every write makes a new version.             *)
EXTENDS Naturals, FiniteSets

CONSTANTS
    Path,          \* paths of the workspace
    ManifestPath,  \* "manifest.json" in the root
    TrashId,       \* identifiers of deletions
    Editor,        \* requests and tool calls in flight
    NoPath,        \* none of them
    MaxVersions    \* bound: writes

ASSUME FilesAssumption == ManifestPath \in Path /\ NoPath \notin Path /\ MaxVersions \in Nat

VARIABLES
    file,       \* the version of each path, 0 for none
    head,       \* the same in the last commit
    versions,   \* history: how many versions were written
    trash,      \* per deletion: its path, what was deleted, what its folder holds
    editor,     \* per request: its place, path, version seen, whether another wrote to its path
    clobbered   \* history: paths that lost a version no check had seen, no other writing meanwhile

fileVars == <<file, head, versions, trash, editor, clobbered>>

Rest == [pc |-> "idle", path |-> NoPath, to |-> NoPath, seen |-> 0, id |-> NoPath, raced |-> FALSE]
Unused == [path |-> NoPath, was |-> 0, holds |-> 0, listed |-> FALSE, back |-> 0]
ManifestText == MaxVersions + 1   \* the version that stands for a manifest

FilesInit ==
    /\ file = [p \in Path |-> 0] /\ head = file /\ versions = 0 /\ clobbered = {}
    /\ trash = [i \in TrashId |-> Unused] /\ editor = [e \in Editor |-> Rest]

(* The other requests whose path changes under them. *)
Raced(e, paths) == [d \in Editor |->
    IF d # e /\ editor[d].pc # "idle" /\ {editor[d].path, editor[d].to} \intersect paths # {}
    THEN [editor[d] EXCEPT !.raced = TRUE] ELSE editor[d]]
Begin(e, work) ==
    /\ editor[e] = Rest /\ editor' = [editor EXCEPT ![e] = work]
    /\ UNCHANGED <<file, head, versions, trash, clobbered>>
(* A write of request e to p, which expected to find "seen" there. *)
Overwrites(e, p, seen) ==
    clobbered' = IF file[p] \notin {0, seen} /\ ~editor[e].raced THEN clobbered \union {p}
                 ELSE clobbered

(* write_workspace_file: unless forced, a version other than the expected one
   is refused; then the file is written. *)
\* Mutant: the version is not compared.
AnyVersion(p, expected) == TRUE
Expected(p, expected) == file[p] \in {0, expected}
CheckSave(e, p, expected) ==
    /\ expected # 0 /\ Expected(p, expected)
    /\ Begin(e, [Rest EXCEPT !.pc = "write", !.path = p, !.seen = expected])
(* write_file without overwrite, and create_directory. *)
CheckNew(e, p) ==
    file[p] = 0 /\ Begin(e, [Rest EXCEPT !.pc = "write", !.path = p])
(* replace_in_file reads the text it changes. *)
ReadText(e, p) ==
    file[p] # 0 /\ Begin(e, [Rest EXCEPT !.pc = "write", !.path = p, !.seen = file[p]])
(* apply_patch lets git check the patch, and git checks it once more when it
   applies it. *)
CheckPatch(e, p) ==
    file[p] # 0 /\ Begin(e, [Rest EXCEPT !.pc = "patch", !.path = p, !.seen = file[p]])
WriteFile(e) ==
    LET p == editor[e].path
    IN  /\ editor[e].pc \in {"write", "patch"} /\ versions < MaxVersions
        /\ editor[e].pc = "patch" => file[p] = editor[e].seen
        /\ versions' = versions + 1 /\ file' = [file EXCEPT ![p] = versions + 1]
        /\ Overwrites(e, p, editor[e].seen)
        /\ editor' = [Raced(e, {p}) EXCEPT ![e] = Rest]
        /\ UNCHANGED <<head, trash>>

(* A forced save, or an overwriting tool call, means to replace what is there. *)
ForceWrite(e, p) ==
    /\ editor[e] = Rest /\ versions < MaxVersions
    /\ versions' = versions + 1 /\ file' = [file EXCEPT ![p] = versions + 1]
    /\ editor' = Raced(e, {p})
    /\ UNCHANGED <<head, trash, clobbered>>

(* delete_path moves the tree, then writes the manifest into the folder of the
   deletion, over the deleted file if that had the manifest's name. *)
MoveToTrash(e, p, i) ==
    /\ editor[e] = Rest /\ file[p] # 0 /\ trash[i] = Unused
    /\ trash' = [trash EXCEPT ![i] = [@ EXCEPT !.path = p, !.was = file[p], !.holds = file[p]]]
    /\ file' = [file EXCEPT ![p] = 0]
    /\ editor' = [Raced(e, {p}) EXCEPT ![e] = [Rest EXCEPT !.pc = "manifest", !.id = i]]
    /\ UNCHANGED <<head, versions, clobbered>>
WriteManifest(e) ==
    LET i == editor[e].id
    IN  /\ editor[e].pc = "manifest"
        /\ trash' = [trash EXCEPT ![i].listed = TRUE,
                ![i].holds = IF trash[i].path = ManifestPath THEN ManifestText ELSE @]
        /\ editor' = [editor EXCEPT ![e] = Rest]
        /\ UNCHANGED <<file, head, versions, clobbered>>

(* restore_trash refuses a target that exists, moves what the folder holds
   there, and removes the folder. The move fails if another restore was first. *)
CheckRestore(e, i) ==
    /\ trash[i].listed /\ file[trash[i].path] = 0
    /\ Begin(e, [Rest EXCEPT !.pc = "back", !.path = trash[i].path, !.id = i])
MoveBack(e) ==
    LET i == editor[e].id
        p == editor[e].path
    IN  /\ editor[e].pc = "back"
        /\ IF trash[i].holds = 0
           THEN editor' = [editor EXCEPT ![e] = Rest] /\ UNCHANGED <<file, trash, clobbered>>
           ELSE /\ file' = [file EXCEPT ![p] = trash[i].holds]
                /\ trash' = [trash EXCEPT ![i].holds = 0, ![i].back = @ + 1]
                /\ Overwrites(e, p, 0)
                /\ editor' = [Raced(e, {p}) EXCEPT ![e] = [@ EXCEPT !.pc = "rmtree"]]
        /\ UNCHANGED <<head, versions>>
RemoveFolder(e) ==
    /\ editor[e].pc = "rmtree"
    /\ trash' = [trash EXCEPT ![editor[e].id].listed = FALSE, ![editor[e].id].holds = 0]
    /\ editor' = [editor EXCEPT ![e] = Rest]
    /\ UNCHANGED <<file, head, versions, clobbered>>

(* move_path: the target must not exist. *)
CheckMove(e, p, q) ==
    /\ p # q /\ file[p] # 0 /\ file[q] = 0
    /\ Begin(e, [Rest EXCEPT !.pc = "move", !.path = p, !.to = q])
MovePath(e) ==
    LET p == editor[e].path
        q == editor[e].to
    IN  /\ editor[e].pc = "move"
        /\ IF file[p] = 0
           THEN editor' = [editor EXCEPT ![e] = Rest] /\ UNCHANGED <<file, clobbered>>
           ELSE /\ file' = [file EXCEPT ![q] = file[p], ![p] = 0]
                /\ Overwrites(e, q, 0)
                /\ editor' = [Raced(e, {p, q}) EXCEPT ![e] = Rest]
        /\ UNCHANGED <<head, versions, trash>>

(* git_checkpoint commits everything; git_restore takes a tracked path back,
   which is what its caller asks for. *)
GitCheckpoint ==
    /\ head' = file /\ UNCHANGED <<file, versions, trash, editor, clobbered>>
GitRestore(e, p) ==
    /\ editor[e] = Rest /\ head[p] # 0
    /\ file' = [file EXCEPT ![p] = head[p]] /\ editor' = Raced(e, {p})
    /\ UNCHANGED <<head, versions, trash, clobbered>>

(* A request ends with an error, or with its process. *)
RequestEnds(e) ==
    /\ editor[e].pc # "idle" /\ editor' = [editor EXCEPT ![e] = Rest]
    /\ UNCHANGED <<file, head, versions, trash, clobbered>>

FilesNext ==
    \/ GitCheckpoint
    \/ \E e \in Editor :
          \/ WriteFile(e) \/ WriteManifest(e) \/ MoveBack(e) \/ RemoveFolder(e)
          \/ MovePath(e) \/ RequestEnds(e)
          \/ \E i \in TrashId : CheckRestore(e, i) \/ \E p \in Path : MoveToTrash(e, p, i)
          \/ \E p \in Path :
                \/ CheckNew(e, p) \/ ForceWrite(e, p) \/ GitRestore(e, p)
                \/ ReadText(e, p) \/ CheckPatch(e, p)
                \/ \E expected \in 1..versions : CheckSave(e, p, expected)
                \/ \E q \in Path : CheckMove(e, p, q)
FilesSpec == FilesInit /\ [][FilesNext]_fileVars
----------------------------------------------------------------------------
FilesTypeOK ==
    /\ file \in [Path -> 0..MaxVersions + 1] /\ head \in [Path -> 0..MaxVersions + 1]
    /\ versions \in 0..MaxVersions /\ clobbered \subseteq Path
    /\ trash \in [TrashId -> [path: Path \union {NoPath}, was: 0..MaxVersions + 1,
                              holds: 0..MaxVersions + 1, listed: BOOLEAN, back: Nat]]
    /\ \A e \in Editor : editor[e].pc \in {"idle", "write", "patch", "manifest", "back",
                                           "rmtree", "move"}

(* What is deleted is in the trash until it is restored, and it is restored
   once, whatever happens in between (but for a file named like the manifest,
   which the manifest overwrites); and no save, edit, move or restore destroys
   a version its checks have not seen, unless another request wrote to the
   path between its check and its write (editor.py, write_workspace_file). *)
TrashKeeps ==
    \A i \in TrashId : trash[i].path \notin {NoPath, ManifestPath} =>
        (trash[i].holds = trash[i].was /\ trash[i].back = 0)
        \/ (trash[i].holds = 0 /\ trash[i].back = 1)
OnlyRacesClobber == clobbered = {}
FilesSafe == TrashKeeps /\ OnlyRacesClobber
=============================================================================
