------------------------------ MODULE MCProcess ------------------------------
(***************************************************************************)
(* Two threads: main, and a worker main may spawn.  Either builds and     *)
(* applies contexts from a catalogue in which Threads grants clone (as    *)
(* danger_zone::Threads does in the inherit_filters test), so that a      *)
(* worker can be spawned both before and after main restricts itself.     *)
(***************************************************************************)
EXTENDS Process, RuleSets

MCCatalogue == {ThreadsCreate, Kill}

\* kill and clone: the call each ruleset grants.
MCCalls == {Call("kill", << >>), CloneCall}

\* The landlock catalogue: Threads, and the user guide's SystemIO with
\* create and write rights on the allowed directory.
MCLandlockCatalogue == {ThreadsCreate, SystemIOCreateInDir("tmp_dir_allow")}

\* File::create in the allowed and in the denied directory.
MCFileCalls == {FileCall("openat", "tmp_dir_allow", "create"),
                FileCall("openat", "tmp_dir_deny", "create"), CloneCall}

=============================================================================
