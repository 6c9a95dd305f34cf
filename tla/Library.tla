------------------------------ MODULE Library ------------------------------
(***************************************************************************)
(* One directory of one disk as the files it is kept in: the assets' files *)
(* and the sidecar .meta.json that lists them, from which a scan rebuilds  *)
(* the rows of the database.  Three kinds of actors change it: handlers    *)
(* that upload and delete (clusterapi.uploadAsset, deleteAsset), the       *)
(* server's scanner, and the importer, a process of its own (cmd/ingest,   *)
(* Ingester.Run) that takes the files of an inbox and scans at its end.    *)
(* Nothing locks the directory.                                            *)
(*                                                                         *)
(* os.WriteFile and os.Create empty a file before they fill it: in between *)
(* a file is "part" and the sidecar is Torn.  An asset is its content, and *)
(* always comes under the same name, hence to the same path.               *)
(***************************************************************************)
EXTENDS Naturals

CONSTANTS Assets,
          Offered,    \* assets whose files are in the inbox
          Uploadable, \* assets clients upload
          Handlers, Importer, Scanner,
          Nobody,     \* stands for "no actor"
          NoAsset,    \* stands for "no asset"
          Ways,       \* how files are taken: "copy" (mode copy), "rename" (mode
                      \* move on the same device), "move" (across devices)
          Max         \* bound on each kind of event

Actors == Handlers \union {Importer, Scanner}
Events == {"import", "upload", "delete", "crash", "kill", "io"}

ASSUME OfferedAssumption == Offered \subseteq Assets
ASSUME UploadableAssumption == Uploadable \subseteq Assets
ASSUME ActorAssumption ==
  Importer \notin Handlers /\ Scanner \notin Handlers \union {Importer}
ASSUME NobodyAssumption == Nobody \notin Actors
ASSUME NoAssetAssumption == NoAsset \notin Assets
ASSUME WayAssumption == Ways \subseteq {"copy", "rename", "move"}
ASSUME MaxAssumption == Max \in [Events -> Nat]

VARIABLES
  inbox,    \* assets whose files are in the inbox
  way,      \* how the last import took, or takes, its files
  file,     \* file[a]: the file of a in the repository
  writer,   \* writer[a]: the actor that emptied it last and is filling it
  sidecar,  \* the assets the sidecar lists, or Torn
  rows,     \* assets the database knows on this disk
  job,      \* job[x]: what actor x is doing
  accepted, \* history: uploads answered with 201
  deleted,  \* history: assets whose deletion has begun
  clash,    \* history: a sidecar was read torn or while it was being replaced
  lost,     \* history: entries a flush could not read, hence overwrote
  used      \* history: events of each kind so far, capped by Max

\* A sidecar that does not parse.
Torn == {NoAsset}

vars == <<inbox, way, file, writer, sidecar, rows, job, accepted, deleted, clash,
          lost, used>>

Pcs == {"idle", "writing", "read", "truncate", "put", "record", "unlink",
        "unlist", "drop", "walk", "place", "remove", "scan", "rows"}

\* asset: the one in hand; todo: those still to be looked at; batch: entries to
\* add to the sidecar; seen: the entries to write.
Idle == [pc |-> "idle", asset |-> NoAsset, todo |-> {}, batch |-> {}, seen |-> {}]
Job == [pc : Pcs, asset : Assets \union {NoAsset}, todo : SUBSET Assets,
        batch : SUBSET Assets, seen : SUBSET Assets]

TypeOK ==
  /\ inbox \subseteq Assets
  /\ way \in {"copy", "rename", "move"}
  /\ file \in [Assets -> {"none", "part", "whole"}]
  /\ writer \in [Assets -> Actors \union {Nobody}]
  /\ sidecar \in (SUBSET Assets) \union {Torn}
  /\ rows \subseteq Assets
  /\ job \in [Actors -> Job]
  /\ accepted \subseteq Assets /\ deleted \subseteq Assets /\ lost \subseteq Assets
  /\ clash \in BOOLEAN
  /\ used \in [Events -> Nat]
  /\ \A x \in Actors :
       /\ job[x].pc \in {"writing", "record", "unlink", "unlist", "drop",
                         "place", "remove"} => job[x].asset \in Assets

Init ==
  /\ inbox = Offered
  /\ way = "copy"
  /\ file = [a \in Assets |-> "none"]
  /\ writer = [a \in Assets |-> Nobody]
  /\ sidecar = {}
  /\ rows = {}
  /\ job = [x \in Actors |-> Idle]
  /\ accepted = {} /\ deleted = {} /\ lost = {}
  /\ clash = FALSE
  /\ used = [e \in Events |-> 0]

Spend(e) == used[e] < Max[e] /\ used' = [used EXCEPT ![e] = @ + 1]

Goto(x, pc) ==
  job' = [job EXCEPT ![x] = IF pc = "idle" THEN Idle ELSE [@ EXCEPT !.pc = pc]]

----------------------------------------------------------------------------
\* Files.

\* os.WriteFile and os.Create: the file is there and empty.
Empty(x, a) ==
  /\ file' = [file EXCEPT ![a] = "part"]
  /\ writer' = [writer EXCEPT ![a] = x]

\* The last byte is written; a file that another actor has emptied since is
\* whole when that one is done, and one that was unlinked stays away.
Fill(x, a) ==
  IF writer[a] = x
  THEN /\ file' = [file EXCEPT ![a] = "whole"]
       /\ writer' = [writer EXCEPT ![a] = Nobody]
  ELSE UNCHANGED <<file, writer>>

\* Who is killed, or gets an error, fills no file any more.
Abandon(X) ==
  writer' = [a \in Assets |-> IF writer[a] \in X THEN Nobody ELSE writer[a]]

----------------------------------------------------------------------------
\* The sidecar.

\* A sidecar that does not parse is taken for an empty one.
Entries == IF sidecar = Torn THEN {} ELSE sidecar

Flushing == {x \in Actors : job[x].pc \in {"truncate", "put", "drop"}}

BatchAlone(x) == job[x].batch  \* mutant: what the sidecar lists is not kept
Merged(x) == Entries \union job[x].batch

\* FlushMeta reads, empties and writes the sidecar.  One that cannot be read is
\* taken for an empty one too.
ReadSidecar(x) ==
  /\ job[x].pc = "read"
  /\ \/ /\ job' = [job EXCEPT ![x].pc = "truncate", ![x].seen = Merged(x)]
        /\ UNCHANGED <<lost, used>>
     \/ /\ Spend("io")
        /\ job' = [job EXCEPT ![x].pc = "truncate", ![x].seen = job[x].batch]
        /\ lost' = lost \union (Entries \ job[x].batch)
  /\ clash' = (clash \/ sidecar = Torn \/ Flushing # {})
  /\ UNCHANGED <<inbox, way, file, writer, sidecar, rows, accepted, deleted>>

Truncate(x) ==
  /\ job[x].pc = "truncate"
  /\ sidecar' = Torn
  /\ Goto(x, "put")
  /\ UNCHANGED <<inbox, way, file, writer, rows, accepted, deleted, clash, lost, used>>

\* What follows FlushMeta or RemoveAssetFromMeta.
AfterFlush(x) ==
  IF x = Importer THEN "scan" ELSE IF job[x].batch = {} THEN "idle" ELSE "record"

Put(x) ==
  /\ job[x].pc = "put"
  /\ sidecar' = job[x].seen
  /\ job' = [job EXCEPT ![x] =
       IF AfterFlush(x) = "idle" THEN Idle
       ELSE [Idle EXCEPT !.pc = AfterFlush(x), !.asset = job[x].asset]]
  /\ UNCHANGED <<inbox, way, file, writer, rows, accepted, deleted, clash, lost, used>>

\* It cannot be written: an upload answers with an error, the importer goes on,
\* and a deletion ignores it, as it does a sidecar that cannot be removed.
FlushFails(x) ==
  /\ job[x].pc \in {"truncate", "put", "drop"}
  /\ Spend("io")
  /\ Goto(x, IF x = Importer THEN "scan" ELSE "idle")
  /\ UNCHANGED <<inbox, way, file, writer, sidecar, rows, accepted, deleted,
                 clash, lost>>

\* RemoveAssetFromMeta reads the sidecar, which the last entry takes along.  The
\* entry stays if that fails, and deleteAsset does not look.
Unlist(x) ==
  /\ job[x].pc = "unlist"
  /\ \/ Entries = {} /\ Goto(x, "idle") /\ UNCHANGED <<clash, used>>
     \/ /\ Entries # {}
        /\ LET kept == Entries \ {job[x].asset}
           IN  job' = [job EXCEPT ![x].seen = kept,
                    ![x].pc = IF kept = {} THEN "drop" ELSE "truncate"]
        /\ clash' = (clash \/ Flushing # {})
        /\ UNCHANGED used
     \/ Spend("io") /\ Goto(x, "idle") /\ UNCHANGED clash
  /\ UNCHANGED <<inbox, way, file, writer, sidecar, rows, accepted, deleted, lost>>

Drop(x) ==
  /\ job[x].pc = "drop"
  /\ sidecar' = {}
  /\ Goto(x, "idle")
  /\ UNCHANGED <<inbox, way, file, writer, rows, accepted, deleted, clash, lost, used>>

----------------------------------------------------------------------------
\* Handlers.

\* uploadAsset opens the file, whether or not it is there already,
Upload(x, a) ==
  /\ job[x].pc = "idle"
  /\ a \in Uploadable
  /\ Spend("upload")
  /\ Empty(x, a)
  /\ job' = [job EXCEPT ![x] = [Idle EXCEPT !.pc = "writing", !.asset = a,
                                            !.batch = {a}]]
  /\ UNCHANGED <<inbox, way, sidecar, rows, accepted, deleted, clash, lost>>

\* writes it,
UploadWrites(x) ==
  /\ job[x].pc = "writing" /\ x \in Handlers
  /\ Fill(x, job[x].asset)
  /\ Goto(x, "read")
  /\ UNCHANGED <<inbox, way, sidecar, rows, accepted, deleted, clash, lost, used>>

\* or gives up, leaving what is there,
UploadFails(x) ==
  /\ job[x].pc = "writing" /\ x \in Handlers
  /\ Spend("io")
  /\ Abandon({x})
  /\ Goto(x, "idle")
  /\ UNCHANGED <<inbox, way, file, sidecar, rows, accepted, deleted, clash, lost>>

\* and, after FlushMeta, records it (SaveUploadedAsset) and answers.
Record(x) ==
  /\ job[x].pc = "record"
  /\ rows' = rows \union {job[x].asset}
  /\ accepted' = accepted \union {job[x].asset}
  /\ Goto(x, "idle")
  /\ UNCHANGED <<inbox, way, file, writer, sidecar, deleted, clash, lost, used>>

\* Or the database refuses, before the row is there or after it.
RecordFails(x) ==
  /\ job[x].pc = "record"
  /\ Spend("io")
  /\ rows' \in {rows, rows \union {job[x].asset}}
  /\ Goto(x, "idle")
  /\ UNCHANGED <<inbox, way, file, writer, sidecar, accepted, deleted, clash, lost>>

\* deleteAsset: first the rows,
Delete(x, a) ==
  /\ job[x].pc = "idle"
  /\ a \in rows
  /\ Spend("delete")
  /\ rows' = rows \ {a}
  /\ deleted' = deleted \union {a}
  /\ job' = [job EXCEPT ![x] = [Idle EXCEPT !.pc = "unlink", !.asset = a]]
  /\ UNCHANGED <<inbox, way, file, writer, sidecar, accepted, clash, lost>>

\* then the file, unless os.Remove fails, then the entry (Unlist).
Unlink(x) ==
  /\ job[x].pc = "unlink"
  /\ \/ /\ file' = [file EXCEPT ![job[x].asset] = "none"]
        /\ writer' = [writer EXCEPT ![job[x].asset] = Nobody]
        /\ UNCHANGED used
     \/ Spend("io") /\ UNCHANGED <<file, writer>>
  /\ Goto(x, "unlist")
  /\ UNCHANGED <<inbox, way, sidecar, rows, accepted, deleted, clash, lost>>

----------------------------------------------------------------------------
\* The importer.

StartImport ==
  /\ job[Importer].pc = "idle"
  /\ Spend("import")
  /\ way' \in Ways
  /\ job' = [job EXCEPT ![Importer] = [Idle EXCEPT !.pc = "walk", !.todo = inbox]]
  /\ UNCHANGED <<inbox, file, writer, sidecar, rows, accepted, deleted, clash, lost>>

\* A file that is there already is skipped, and removed from the inbox unless
\* the mode is "copy".
Examine(a) ==
  /\ job[Importer].pc = "walk"
  /\ a \in job[Importer].todo
  /\ IF file[a] = "none"
     THEN /\ job' = [job EXCEPT ![Importer].pc = "place", ![Importer].asset = a,
                                ![Importer].todo = @ \ {a}]
          /\ UNCHANGED inbox
     ELSE /\ job' = [job EXCEPT ![Importer].todo = @ \ {a}]
          /\ inbox' = IF way = "copy" THEN inbox ELSE inbox \ {a}
  /\ UNCHANGED <<way, file, writer, sidecar, rows, accepted, deleted, clash, lost, used>>

\* The entry of a file that was taken is kept for the end of the walk.
Taken == job' = [job EXCEPT ![Importer].pc = "walk",
                            ![Importer].batch = @ \union {job[Importer].asset}]

EntryAnyway == {job[Importer].asset}  \* mutant: an error is not looked at
EntryOfFailed == {}
NotTaken == job' = [job EXCEPT ![Importer].pc = "walk",
                               ![Importer].batch = @ \union EntryOfFailed]

Rename ==
  /\ job[Importer].pc = "place" /\ way = "rename"
  /\ file' = [file EXCEPT ![job[Importer].asset] = "whole"]
  /\ writer' = [writer EXCEPT ![job[Importer].asset] = Nobody]
  /\ inbox' = inbox \ {job[Importer].asset}
  /\ Taken
  /\ UNCHANGED <<way, sidecar, rows, accepted, deleted, clash, lost, used>>

\* copyFile, and os.Remove if the mode is "move".
StartCopy ==
  /\ job[Importer].pc = "place" /\ way # "rename"
  /\ Empty(Importer, job[Importer].asset)
  /\ Goto(Importer, "writing")
  /\ UNCHANGED <<inbox, way, sidecar, rows, accepted, deleted, clash, lost, used>>

EndCopy ==
  /\ job[Importer].pc = "writing"
  /\ Fill(Importer, job[Importer].asset)
  /\ IF way = "move" THEN Goto(Importer, "remove") ELSE Taken
  /\ UNCHANGED <<inbox, way, sidecar, rows, accepted, deleted, clash, lost, used>>

RemoveSource ==
  /\ job[Importer].pc = "remove"
  /\ inbox' = inbox \ {job[Importer].asset}
  /\ Taken
  /\ UNCHANGED <<way, file, writer, sidecar, rows, accepted, deleted, clash, lost, used>>

\* The file cannot be created, or not be written to its end, or the source not
\* be removed: the source stays.
SourceGone == inbox \ {job[Importer].asset}  \* mutant: it is removed anyway
SourceStays == inbox

CopyFails ==
  /\ job[Importer].pc \in {"place", "writing", "remove"}
  /\ Spend("io")
  /\ Abandon({Importer})
  /\ NotTaken
  /\ inbox' = SourceStays
  /\ UNCHANGED <<way, file, sidecar, rows, accepted, deleted, clash, lost>>

EndWalk ==
  /\ job[Importer].pc = "walk"
  /\ job[Importer].todo = {}
  /\ Goto(Importer, IF job[Importer].batch = {} THEN "scan" ELSE "read")
  /\ UNCHANGED <<inbox, way, file, writer, sidecar, rows, accepted, deleted,
                 clash, lost, used>>

----------------------------------------------------------------------------
\* The scan, by the server or at the end of an import.

Scan(x) ==
  /\ \/ x = Scanner /\ job[x].pc = "idle"
     \/ x = Importer /\ job[x].pc = "scan"
  /\ job' = [job EXCEPT ![x] =
       IF Entries = {} THEN Idle ELSE [Idle EXCEPT !.pc = "rows", !.todo = Entries]]
  /\ UNCHANGED <<inbox, way, file, writer, sidecar, rows, accepted, deleted,
                 clash, lost, used>>

\* An entry whose file is missing is passed over.
ScanEntry(x, a) ==
  /\ job[x].pc = "rows"
  /\ a \in job[x].todo
  /\ rows' = IF file[a] = "none" THEN rows ELSE rows \union {a}
  /\ job' = [job EXCEPT ![x] =
       IF job[x].todo = {a} THEN Idle
       ELSE [job[x] EXCEPT !.todo = job[x].todo \ {a}]]
  /\ UNCHANGED <<inbox, way, file, writer, sidecar, accepted, deleted, clash, lost, used>>

----------------------------------------------------------------------------

\* The server dies with its handlers and its scanner, or the importer does.
Die(X) ==
  /\ \E x \in X : job[x].pc # "idle"
  /\ job' = [x \in Actors |-> IF x \in X THEN Idle ELSE job[x]]
  /\ Abandon(X)
  /\ UNCHANGED <<inbox, way, file, sidecar, rows, accepted, deleted, clash, lost>>

Crash == Spend("crash") /\ Die(Handlers \union {Scanner})
Kill == Spend("kill") /\ Die({Importer})

Next ==
  \/ \E x \in Actors :
       \/ ReadSidecar(x) \/ Truncate(x) \/ Put(x) \/ FlushFails(x)
       \/ Scan(x)
       \/ \E a \in Assets : ScanEntry(x, a)
  \/ \E x \in Handlers :
       \/ \E a \in Assets : Upload(x, a) \/ Delete(x, a)
       \/ UploadWrites(x) \/ UploadFails(x) \/ Record(x) \/ RecordFails(x)
       \/ Unlink(x) \/ Unlist(x) \/ Drop(x)
  \/ StartImport
  \/ \E a \in Assets : Examine(a)
  \/ Rename \/ StartCopy \/ EndCopy \/ RemoveSource \/ CopyFails \/ EndWalk
  \/ Crash \/ Kill

Spec == Init /\ [][Next]_vars

----------------------------------------------------------------------------
\* Properties.

\* A file of the inbox is there until the repository has all of it, however
\* the import ends.
ImportKeeps ==
  \A a \in Offered \ deleted : a \in inbox \/ file[a] = "whole"

\* What the sidecar lists or the database knows has a file, unless somebody
\* has begun to delete it: every writer lists a file after writing it.
ListedExists ==
  /\ sidecar # Torn => \A a \in sidecar \ deleted : file[a] # "none"
  /\ \A a \in rows \ deleted : file[a] # "none"

\* An upload that was answered stays listed, so that a scan can rebuild its
\* rows, as long as no flush reads a sidecar that is torn or that another
\* actor is about to replace; one that cannot read it loses what it lists then,
\* and nothing else.
AcceptedListed ==
  ~clash /\ sidecar # Torn => accepted \ (deleted \union lost) \subseteq sidecar
=============================================================================
