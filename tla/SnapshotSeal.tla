---------------------------- MODULE SnapshotSeal ----------------------------
(***************************************************************************)
(* Sealing and checking a dataset directory for the import                 *)
(* (manifest-sealer.ts, manifest-validator.ts) and comparing its company   *)
(* mapping with the database (company-mapping-db-validator.ts), while the  *)
(* directory and the database change, runs overlap and a run stops halfway.*)
(*                                                                         *)
(* A file is its body, a number; a checksum index is the function from     *)
(* paths to bodies, and a manifest is that function with a key.  Hashes    *)
(* and signatures are taken to identify what they are made of.  Reading    *)
(* one file is a step: the code refuses a file that changes meanwhile.     *)
(* Left out: limits of size and number, unsafe paths and links, syntax.    *)
(***************************************************************************)
EXTENDS Naturals, FiniteSets

CONSTANTS
    Paths, Required,  \* paths of the dataset; those a manifest must have
    Map,              \* the path of company-mapping.json
    Bodies,           \* [Paths -> the contents a file can have], positive numbers
    Mapping,          \* [Bodies[Map] -> artifact], what the contents of Map say
    Version,          \* companyMappingVersion of the dataset
    Keys, Trusted,    \* signing keys; those the environment trusts
    Roots, Databases, \* source roots; what the database may hold: [rows, company],
                      \* the active SourceCompanyMapping and code and state of companies
    Runs, Nobody,     \* runs of the commands
    MaxChanges, MaxStops

VARIABLES
    disk,     \* [Paths -> body], 0 where there is no file
    out,      \* ["sums", "man" -> [body, by, links]]
    run,      \* [Runs -> [at, key, got, todo, missing, made, man, map, bad, calm, saw]]
    changes, stops, serial

base == <<changes, stops, serial>>
vars == <<disk, out, run, base>>

Outs    == {"sums", "man"}
Empty   == [f \in Paths |-> 0]
Nothing == [files |-> Empty, key |-> Nobody]
Sums(files) == [files |-> files, key |-> Nobody]
Present(o)  == out[o].links > 0
Readable(o) == out[o].links = 1  \* a file with a second name is refused
Absent      == [body |-> Nothing, by |-> Nobody, links |-> 0]
Files(files) == {f \in Paths : files[f] # 0}

Ends    == {"idle", "sealed", "refused", "valid", "invalid", "matched", "unmatched", "stopped"}
Unstarted == [at |-> "idle", key |-> Nobody, got |-> Empty, todo |-> {}, missing |-> {},
            made |-> {}, man |-> Nothing, map |-> 0, bad |-> FALSE, calm |-> TRUE, saw |-> Nobody]
Sealing(r) == run[r].key # Nobody
Set(r, x)  == run' = [run EXCEPT ![r] = x]
Go(r, step) == Set(r, [run[r] EXCEPT !.at = step])
End(r, step) == Set(r, [Unstarted EXCEPT !.at = step])
Over        == Ends \ {"sealed", "valid"}
Restless    == [r \in Runs |-> IF run[r].at \in Over THEN run[r] ELSE [run[r] EXCEPT !.calm = FALSE]]

Init ==
    /\ disk \in [Paths -> {0, 1}] /\ out = [o \in Outs |-> Absent] /\ run = [r \in Runs |-> Unstarted]
    /\ changes = 0 /\ stops = 0 /\ serial \in BOOLEAN

Change == changes < MaxChanges /\ changes' = changes + 1 /\ UNCHANGED <<stops, serial>>
\* The exporter writes or removes a file, an operator removes an output.
Write(f, b) ==
    /\ Change /\ disk[f] # b /\ disk' = [disk EXCEPT ![f] = b]
    /\ run' = Restless /\ UNCHANGED out
Clear(o) ==
    /\ Change /\ Present(o) /\ out' = [out EXCEPT ![o] = Absent]
    /\ run' = Restless /\ UNCHANGED disk

-----------------------------------------------------------------------------
(* Sealing.  M_ definitions are deliberate mistakes.                       *)

Begin(r) ==
    /\ run[r].at = "idle" /\ r = CHOOSE q \in Runs : run[q].at = "idle" \* runs are alike
    /\ serial => \A q \in Runs : run[q].at \in Ends
    /\ \/ Files(disk) # {} /\ \E k \in Keys :
              Set(r, [Unstarted EXCEPT !.at = "hash", !.key = k, !.todo = Files(disk)])
       \/ Files(disk) = {} /\ End(r, "refused")
       \/ Set(r, [Unstarted EXCEPT !.at = "manifest"])
    /\ UNCHANGED <<disk, out, base>>

\* With the last file the manifest is made, if it has what it must have.
Complete(files) == Required \subseteq Files(files)
Hash(r, f) == LET got == [run[r].got EXCEPT ![f] = disk[f]] IN
    /\ run[r].at = "hash" /\ f \in run[r].todo
    /\ IF disk[f] = 0 \/ (run[r].todo = {f} /\ ~Complete(got)) THEN End(r, "refused")
       ELSE IF run[r].todo = {f} THEN Set(r, [run[r] EXCEPT !.got = got, !.at = "compare", !.todo = Outs])
       ELSE Set(r, [run[r] EXCEPT !.got = got, !.todo = @ \ {f}])
    /\ UNCHANGED <<disk, out, base>>

Body(r, o) == IF o = "sums" THEN Sums(run[r].got) ELSE [files |-> run[r].got, key |-> run[r].key]
Compare(r, o) ==
    /\ run[r].at = "compare" /\ o \in run[r].todo
    /\ IF ~Present(o) THEN Set(r, [run[r] EXCEPT !.missing = @ \cup {o}, !.todo = @ \ {o}])
       ELSE IF Readable(o) /\ out[o].body = Body(r, o) THEN Set(r, [run[r] EXCEPT !.todo = @ \ {o}])
       ELSE End(r, "refused")
    /\ UNCHANGED <<disk, out, base>>

\* Outputs are written beside the dataset, linked in and the first name removed.
Next1(S)   == IF "sums" \in S THEN "sums" ELSE "man"
Undo(r)    == IF run[r].made = {} THEN End(r, "refused") ELSE Go(r, "undo")
M_Free(o)  == TRUE
Free(o)    == ~Present(o)
Link(r) == LET o == Next1(run[r].missing) IN
    /\ run[r].at = "compare" /\ run[r].todo = {} /\ run[r].missing # {}
    /\ IF Free(o)
       THEN out' = [out EXCEPT ![o] = [body |-> Body(r, o), by |-> r, links |-> 2]] /\ Go(r, "unlink")
       ELSE UNCHANGED out /\ Undo(r)
    /\ UNCHANGED <<disk, base>>
Unlink(r) == LET o == Next1(run[r].missing) IN
    /\ run[r].at = "unlink"
    /\ out' = IF out[o].by = r THEN [out EXCEPT ![o].links = 1] ELSE out
    /\ Set(r, [run[r] EXCEPT !.at = "compare", !.missing = @ \ {o}, !.made = @ \cup {o}])
    /\ UNCHANGED <<disk, base>>

\* What this run created is taken back, the newest first: the file is looked
\* at, and if it is the run's own the path is removed, whatever is there by then.
M_Own(r, o)  == TRUE
Own(r, o)    == out[o].by = r
Newest(made) == IF "man" \in made THEN "man" ELSE "sums"
Back(r) == LET o == Newest(run[r].made) IN
    IF run[r].made = {o} THEN [Unstarted EXCEPT !.at = "refused"]
    ELSE [run[r] EXCEPT !.at = "undo", !.made = @ \ {o}]
Rollback(r) ==
    /\ run[r].at = "undo"
    /\ Set(r, IF Own(r, Newest(run[r].made)) THEN [run[r] EXCEPT !.at = "remove", !.calm = TRUE]
              ELSE Back(r))
    /\ UNCHANGED <<disk, out, base>>
Remove(r) == LET o == Newest(run[r].made)  own == out[o].by \in {r, Nobody} IN
    /\ run[r].at = "remove"
    /\ out' = [out EXCEPT ![o] = Absent]
    /\ run' = [(IF own THEN run ELSE Restless) EXCEPT ![r] = Back(r)]
    /\ UNCHANGED <<disk, base>>

Stop(r) ==
    /\ run[r].at \notin Ends /\ stops < MaxStops /\ stops' = stops + 1
    /\ End(r, "stopped") /\ UNCHANGED <<disk, out, changes, serial>>

-----------------------------------------------------------------------------
(* The checks, by themselves or at the end of sealing.                     *)

Accepts(r) == IF Sealing(r) THEN {run[r].key} ELSE Trusted
Reject(r)  == IF Sealing(r) THEN Undo(r) ELSE End(r, "invalid")

ReadManifest(r) ==
    /\ run[r].at = "manifest" \/ (run[r].at = "compare" /\ run[r].todo \cup run[r].missing = {})
    /\ IF Readable("man")
       THEN LET m == out["man"].body IN
            Set(r, [run[r] EXCEPT !.at = "inventory", !.man = m, !.todo = Files(m.files),
                                  !.bad = m.key \notin Accepts(r)])
       ELSE Reject(r)
    /\ UNCHANGED <<disk, out, base>>

M_Undeclared(r) == {}
Undeclared(r)   == {f \in Paths : disk[f] # 0 /\ run[r].man.files[f] = 0}
Inventory(r) ==
    /\ run[r].at = "inventory"
    /\ Set(r, [run[r] EXCEPT !.at = "verify", !.bad = @ \/ Undeclared(r) # {}])
    /\ UNCHANGED <<disk, out, base>>

Matches(r, f) == disk[f] = run[r].man.files[f]
Verify(r, f) ==
    /\ run[r].at = "verify" /\ f \in run[r].todo
    /\ Set(r, [run[r] EXCEPT !.todo = @ \ {f}, !.bad = @ \/ ~Matches(r, f),
                             !.map = IF f = Map /\ Matches(r, f) THEN disk[f] ELSE @])
    /\ UNCHANGED <<disk, out, base>>
SumsMatch(r) == Readable("sums") /\ out["sums"].body = Sums(run[r].man.files)
VerifySums(r) ==
    /\ run[r].at = "verify" /\ run[r].todo = {}
    /\ Set(r, [run[r] EXCEPT !.at = "mapping", !.bad = @ \/ ~SumsMatch(r)])
    /\ UNCHANGED <<disk, out, base>>

\* companyMappingArtifactSchema, and what the dataset asks of the artifact.
Mapped(a)  == {k \in Roots : a.of[k].kind = "MAP"}
Strict(a)  == /\ \A j, k \in Mapped(a) : a.of[j].id = a.of[k].id <=> a.of[j].code = a.of[k].code
              /\ a.approvals = {"PRODUCT", "SECURITY", "DATA"}
M_Resolved(a) == a.crossing = 0 /\ a.version = Version
Resolved(a)   == /\ \A k \in Roots : a.of[k].kind # "QUARANTINE"
                 /\ a.crossing = 0 /\ a.version = Version
\* The mapping is read a second time and must have the signed hash again.
M_Same(r) == disk[Map] # 0
Same(r)   == disk[Map] = run[r].man.files[Map]
ReadMapping(r) ==
    /\ run[r].at = "mapping"
    /\ IF run[r].map = 0 THEN Go(r, "sums")
       ELSE LET ok == Same(r) /\ Strict(Mapping[disk[Map]]) /\ Resolved(Mapping[disk[Map]]) IN
            Set(r, [run[r] EXCEPT !.at = "sums", !.bad = @ \/ ~ok, !.map = disk[Map]])
    /\ UNCHANGED <<disk, out, base>>
Report(r) ==
    /\ run[r].at = "sums"
    /\ IF run[r].bad \/ ~SumsMatch(r) THEN Reject(r) ELSE Go(r, IF Sealing(r) THEN "sealed" ELSE "valid")
    /\ UNCHANGED <<disk, out, base>>

\* The active rows of the version, compared with the mapping that was read.
Used(d)            == {k \in Roots : d.rows[k] # Nobody}
M_Target(d, a, k)   == d.rows[k] = a.of[k].id
Target(d, a, k)     == LET c == d.rows[k] IN
    c = a.of[k].id /\ d.company[c].live /\ d.company[c].code = a.of[k].code
M_Unexpected(d, a)  == {}
Unexpected(d, a)    == Used(d) \ Mapped(a)
Preflight(r) == \E d \in Databases : LET a == Mapping[run[r].map] IN
    /\ run[r].at = "valid"
    /\ Set(r, [run[r] EXCEPT !.saw = d, !.at =
           IF Unexpected(d, a) = {} /\ \A k \in Mapped(a) : k \in Used(d) /\ Target(d, a, k)
           THEN "matched" ELSE "unmatched"])
    /\ UNCHANGED <<disk, out, base>>

Next ==
    \/ \E f \in Paths : \E b \in Bodies[f] \cup {0} : Write(f, b)
    \/ \E o \in Outs : Clear(o)
    \/ \E r \in Runs :
          \/ Begin(r) \/ Link(r) \/ Unlink(r) \/ Rollback(r) \/ Remove(r) \/ Stop(r)
          \/ ReadManifest(r) \/ Inventory(r) \/ VerifySums(r) \/ ReadMapping(r) \/ Report(r)
          \/ Preflight(r)
          \/ \E f \in Paths : Hash(r, f) \/ Verify(r, f)
          \/ \E o \in Outs : Compare(r, o)
Spec == Init /\ [][Next]_vars

-----------------------------------------------------------------------------
TypeOK ==
    /\ \A f \in Paths : disk[f] \in Bodies[f] \cup {0}
    /\ \A o \in Outs : out[o].links \in 0 .. 2 /\ out[o].by \in Runs \cup {Nobody}
    /\ \A r \in Runs : run[r].map \in Bodies[Map] \cup {0} /\ run[r].missing \cup run[r].made \subseteq Outs

\* A dataset that is accepted while nothing is written has just the files of its
\* manifest, and a mapping without open questions, whoever else is sealing it.
AcceptedIsWhole ==
    \A r \in Runs : (run[r].at \in {"sealed", "valid"} /\ run[r].calm) =>
        /\ disk = run[r].man.files /\ Complete(disk)
        /\ run[r].man.key \in Accepts(r)
        /\ Mapping[disk[Map]].version = Version /\ Mapping[disk[Map]].crossing = 0
        /\ \A k \in Roots : Mapping[disk[Map]].of[k].kind # "QUARANTINE"

\* Without overlap a sealed dataset keeps its seal until it is changed: further
\* runs, of other keys too, neither write nor remove it.  (Of two runs at once
\* the one that loses a race takes away what the other has accepted.)
SealKept ==
    \A r \in Runs : (serial /\ run[r].at = "sealed" /\ run[r].calm) =>
        out["man"].body = run[r].man /\ out["sums"].body = Sums(disk)

\* Nothing is ever overwritten, and no run removes what another has made, unless
\* its own was taken away by hand after it had looked and before it removed.
NeverOverwritten ==
    \A o \in Outs : Present(o) =>
        \/ out'[o].body = out[o].body /\ out'[o].by = out[o].by
        \/ out'[o] = Absent /\ changes' > changes
        \/ /\ out'[o] = Absent
           /\ \E r \in Runs : /\ run[r].at = "remove" /\ run'[r] # run[r]
                             /\ (out[o].by = r \/ ~run[r].calm)

\* The database matches just if its active rows are the mapping of the manifest,
\* of active companies with their codes, whatever the file has become since.
MatchedIsSigned ==
    \A r \in Runs : run[r].at \in {"matched", "unmatched"} =>
        LET a == Mapping[run[r].man.files[Map]]  d == run[r].saw
        IN  run[r].at = "matched" <=>
                /\ {<<k, a.of[k].id, a.of[k].code>> : k \in Mapped(a)}
                       = {<<k, d.rows[k], d.company[d.rows[k]].code>> : k \in Used(d)}
                /\ \A k \in Mapped(a) : d.company[a.of[k].id].live
=============================================================================
