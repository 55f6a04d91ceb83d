------------------------------ MODULE CutOver ------------------------------
(***************************************************************************)
(* The move of one environment from SurrealDB to Postgres: the script every*)
(* deploy runs (scripts/migrate-from-surreal.sh, deploy-app.sh), the import*)
(* it starts (backend: surreal_migration.rs, main.rs), the two builds of   *)
(* the backend that serve meanwhile, and the card numbers afterwards       *)
(* (routes/cards.rs, audit.rs).                                            *)
(*                                                                         *)
(* Abstracted: boards and columns are a column a card is in, which is      *)
(* there or not; positions, names and bodies, which the import copies; the *)
(* rewriting of dates in the snapshots; the checksum is equality of rows.  *)
(***************************************************************************)
EXTENDS Integers, FiniteSetsExt

CONSTANTS
    Stores,          \* SurrealDB stores there may be: [cards, links, counter, deleted]
    MaxCards,        \* bound: cards written by users
    MaxDeploys,      \* bound: deploys
    MaxFaults,       \* bound: steps of a deploy that fail, and lost databases
    MaxRollbacks     \* bound: the previous build deployed again

\* A store has finitely many cards, in a column that is there or gone, and numbers count.
ConstantsOK ==
    LET Cards == [id : Nat, column : {"todo", "gone"}, number : Nat]
    IN  \A s \in Stores :
            /\ s \in [cards : SUBSET Cards, links : SUBSET (Nat \X Nat), counter : Nat,
                      deleted : SUBSET Cards]
            /\ IsFiniteSet(s.cards)

NoStore == [cards |-> {}, links |-> {}, counter |-> 0, deleted |-> {}]
Blank == [cards |-> {}, links |-> {}, deleted |-> {}, used |-> FALSE]
Idle == "idle"

VARIABLES
    old,             \* the SurrealDB store; cards are [id, column, number], id by age
    pg,              \* what Postgres has committed; deleted: delete rows of the audit log
    seq,             \* card_number_seq, which no rollback takes back
    box,             \* the backend's container: [build, running]
    pc,              \* the script, and the import it runs
    copy, rows, report,   \* the import: the store copied aside, what it will write and say
    restoring,       \* numbers whose restore has not moved the sequence yet
    made, deploys, faults, rollbacks,
    \* history variables: they guide no step
    lost,            \* cards a person chose to give up, or written while the copy was taken
    clashed          \* a new card was refused its number with no restore under way

cutOverVars == <<old, pg, seq, box, pc, copy, rows, report, restoring, made, deploys, faults,
                 rollbacks, lost, clashed>>

import == <<copy, rows, report>>
counted == <<made, deploys, faults, rollbacks>>

----------------------------------------------------------------------------
(* What the import makes of a store.                                       *)

Ids(cs) == {c.id : c \in cs}
Numbers(cs) == {c.number : c \in cs}

\* A card whose column, or whose column's board, is gone is left out.
KeptCards(s) == {c \in s.cards : c.column = "todo"}
KeptLinks(s) == {l \in s.links : l[1] \in Ids(KeptCards(s)) /\ l[2] \in Ids(KeptCards(s))}

HighWater(s) == Max({s.counter} \cup Numbers(KeptCards(s)))

\* A number stays with the oldest card that has it.
Repeats(s) == {c \in KeptCards(s) : \E d \in KeptCards(s) : d.number = c.number /\ d.id < c.id}

NewNumber(s, c) ==
    HighWater(s) + Cardinality({d \in Repeats(s) :
                       d.number < c.number \/ (d.number = c.number /\ d.id <= c.id)})

Converted(s) ==
    [cards |-> {IF c \in Repeats(s) THEN [c EXCEPT !.number = NewNumber(s, c)] ELSE c :
                   c \in KeptCards(s)},
     links |-> KeptLinks(s), deleted |-> s.deleted]

Report(s) ==
    [skipped |-> Ids(s.cards \ KeptCards(s)), unlinked |-> s.links \ KeptLinks(s),
     renumbered |-> Ids(Repeats(s)), counter |-> HighWater(s) + Cardinality(Repeats(s))]

\* A card without a number stops the import.
Unrepresentable(s) == \E c \in KeptCards(s) : c.number = 0

NoReport == [skipped |-> {}, unlinked |-> {}, renumbered |-> {}, counter |-> 0]

HasData == pg.used \/ pg.cards # {} \/ pg.deleted # {}

----------------------------------------------------------------------------

Init ==
    /\ old \in Stores \cup {NoStore}
    /\ box \in {[build |-> "surreal", running |-> TRUE], [build |-> "none", running |-> FALSE]}
    /\ pg = Blank /\ seq = 0 /\ pc = Idle
    /\ copy = NoStore /\ rows = NoStore /\ report = NoReport
    /\ restoring = {} /\ made = 0 /\ deploys = 0 /\ faults = 0 /\ rollbacks = 0
    /\ lost = {} /\ clashed = FALSE

(* The deploy.  Any step of it may fail, or the script be killed.          *)

Fails == faults < MaxFaults /\ faults' = faults + 1
Fine == UNCHANGED faults

StartDeploy ==
    /\ pc = Idle /\ deploys < MaxDeploys
    /\ pc' = "check" /\ deploys' = deploys + 1
    /\ UNCHANGED <<old, pg, seq, box, import, restoring, made, faults, rollbacks, lost, clashed>>

\* --check-empty: 0, 3, or anything else, which ends the deploy.
CheckEmpty ==
    /\ pc = "check"
    /\ \/ pc' = (IF HasData THEN "full" ELSE "empty") /\ Fine
       \/ pc' = Idle /\ Fails
    /\ UNCHANGED <<old, pg, seq, box, import, restoring, made, deploys, rollbacks, lost, clashed>>

\* Mutant: the build that runs is not looked at.
AlreadyThereBlind ==
    /\ pc = "full" /\ pc' = "up"
    /\ UNCHANGED <<old, pg, seq, box, import, restoring, counted, lost, clashed>>

\* Data behind a running SurrealDB build is a rollback: the deploy stops.
AlreadyThere ==
    /\ pc = "full"
    /\ pc' = IF box.build = "surreal" /\ box.running THEN Idle ELSE "up"
    /\ UNCHANGED <<old, pg, seq, box, import, restoring, counted, lost, clashed>>

\* An empty Postgres behind a build that uses it has lost its data: nothing is imported again.
NothingThere ==
    /\ pc = "empty"
    /\ pc' = IF box.build = "postgres" THEN IF old = NoStore THEN "up" ELSE Idle ELSE "stop"
    /\ UNCHANGED <<old, pg, seq, box, import, restoring, counted, lost, clashed>>

\* docker stop || echo: whatever it answers, the script goes on.
StopOld ==
    /\ pc = "stop"
    /\ \/ box' = [box EXCEPT !.running = FALSE] /\ Fine
       \/ box.running /\ Fails /\ UNCHANGED box
    /\ pc' = "copy"
    /\ UNCHANGED <<old, pg, seq, import, restoring, made, deploys, rollbacks, lost, clashed>>

\* migrate_store: Postgres must be empty; an empty volume is nothing to move.
Copy ==
    /\ pc = "copy"
    /\ \/ /\ ~HasData /\ Fine
          /\ copy' = old /\ pc' = IF old = NoStore THEN "up" ELSE "read"
       \/ HasData /\ pc' = "failed" /\ Fine /\ UNCHANGED copy
       \/ Fails /\ pc' = "failed" /\ UNCHANGED copy
    /\ UNCHANGED <<old, pg, seq, box, rows, report, restoring, made, deploys, rollbacks, lost, clashed>>

\* read_source.
ReadSource ==
    /\ pc = "read"
    /\ \/ /\ ~Unrepresentable(copy) /\ Fine
          /\ rows' = Converted(copy) /\ report' = Report(copy) /\ pc' = "write"
       \/ Unrepresentable(copy) /\ pc' = "failed" /\ Fine /\ UNCHANGED <<rows, report>>
       \/ Fails /\ pc' = "failed" /\ UNCHANGED <<rows, report>>
    /\ UNCHANGED <<old, pg, seq, box, copy, restoring, made, deploys, rollbacks, lost, clashed>>

\* migrate, up to COMMIT: rows another transaction does not see, and the sequence, which it does.
WriteRows ==
    /\ pc = "write"
    /\ \/ /\ ~HasData /\ Fine
          /\ seq' = (IF report.counter > 0 THEN report.counter ELSE seq) /\ pc' = "commit"
       \/ HasData /\ pc' = "failed" /\ Fine /\ UNCHANGED seq
       \/ Fails /\ pc' = "failed" /\ UNCHANGED seq
    /\ UNCHANGED <<old, pg, box, import, restoring, made, deploys, rollbacks, lost, clashed>>

\* COMMIT.  It may fail, or take effect and its answer get lost.
Commit ==
    /\ pc = "commit"
    /\ \/ pc' = "up" /\ Fine
       \/ pc' = "failed" /\ Fails
    /\ \/ pg' = [cards |-> rows.cards, links |-> rows.links, deleted |-> rows.deleted,
                 used |-> TRUE]
       \/ pc' = "failed" /\ UNCHANGED pg
    /\ UNCHANGED <<old, seq, box, import, restoring, made, deploys, rollbacks, lost, clashed>>

\* A failed import: the old build is put back in service, and the deploy fails.
RestartOld ==
    /\ pc = "failed" /\ pc' = Idle
    /\ \/ box' = [box EXCEPT !.running = (box.build # "none")] /\ Fine
       \/ Fails /\ UNCHANGED box
    /\ UNCHANGED <<old, pg, seq, import, restoring, made, deploys, rollbacks, lost, clashed>>

\* compose up: the Postgres build takes the container's place.
ComposeUp ==
    /\ pc = "up" /\ pc' = Idle
    /\ \/ box' = [build |-> "postgres", running |-> TRUE] /\ Fine
       \/ Fails /\ UNCHANGED box
    /\ UNCHANGED <<old, pg, seq, import, restoring, made, deploys, rollbacks, lost, clashed>>

\* The script is killed, its transaction is rolled back.
Killed ==
    /\ pc # Idle /\ Fails
    /\ pc' = Idle
    /\ UNCHANGED <<old, pg, seq, box, import, restoring, made, deploys, rollbacks, lost, clashed>>

Deploy ==
    \/ StartDeploy \/ CheckEmpty \/ AlreadyThere \/ NothingThere \/ StopOld
    \/ Copy \/ ReadSource \/ WriteRows \/ Commit \/ RestartOld \/ ComposeUp \/ Killed

----------------------------------------------------------------------------
(* People.                                                                 *)

Importing == pc \in {"copy", "read", "write", "commit", "up"}
Serving(build) == box = [build |-> build, running |-> TRUE]
OnlyIn(these, others) == Ids(these) \ Ids(others)

\* The previous image is deployed again, on the store as it was left.
RollBack ==
    /\ pc = Idle /\ box.build = "postgres" /\ rollbacks < MaxRollbacks
    /\ box' = [build |-> "surreal", running |-> TRUE]
    /\ rollbacks' = rollbacks + 1
    /\ lost' = lost \cup OnlyIn(pg.cards, old.cards)
    /\ UNCHANGED <<old, pg, seq, pc, import, restoring, made, deploys, faults, clashed>>

\* Reconciling by hand: Postgres is the truth, or SurrealDB is.
StopByHand ==
    /\ pc = Idle /\ Serving("surreal") /\ HasData
    /\ box' = [box EXCEPT !.running = FALSE]
    /\ lost' = lost \cup OnlyIn(old.cards, pg.cards)
    /\ UNCHANGED <<old, pg, seq, pc, import, restoring, counted, clashed>>

EmptyByHand ==
    /\ pc = Idle /\ Serving("surreal") /\ HasData
    /\ pg' = Blank /\ seq' = 0
    /\ lost' = lost \cup OnlyIn(pg.cards, old.cards)
    /\ UNCHANGED <<old, box, pc, import, restoring, counted, clashed>>

\* Postgres's volume is lost.
LoseData ==
    /\ pc = Idle /\ HasData /\ restoring = {} /\ Fails
    /\ pg' = Blank /\ seq' = 0
    /\ lost' = lost \cup Ids(pg.cards)
    /\ UNCHANGED <<old, box, pc, import, restoring, made, deploys, rollbacks, clashed>>

----------------------------------------------------------------------------
(* The backend.                                                            *)

\* Ids grow with time; none is used twice.
NextId == 10 + made + 1
NewCard(n) == [id |-> NextId, column |-> "todo", number |-> n]

CreateInSurreal ==
    /\ Serving("surreal") /\ made < MaxCards /\ made' = made + 1
    /\ old' = [old EXCEPT !.cards = @ \cup {NewCard(old.counter + 1)}, !.counter = @ + 1]
    /\ lost' = IF Importing THEN lost \cup {NextId} ELSE lost
    /\ UNCHANGED <<pg, seq, box, pc, import, restoring, deploys, faults, rollbacks, clashed>>

\* create_card: the default of the column takes the next number; one in use refuses the row.
CreateInPostgres ==
    /\ Serving("postgres") /\ made < MaxCards /\ made' = made + 1
    /\ seq' = seq + 1
    /\ IF seq' \in Numbers(pg.cards)
       THEN clashed' = (clashed \/ restoring = {}) /\ UNCHANGED pg
       ELSE /\ pg' = [pg EXCEPT !.cards = @ \cup {NewCard(seq')}, !.used = TRUE]
            /\ UNCHANGED clashed
    /\ UNCHANGED <<old, box, pc, import, restoring, deploys, faults, rollbacks, lost>>

DeleteCard(c) ==
    /\ Serving("postgres")
    /\ pg' = [pg EXCEPT !.cards = @ \ {c}, !.deleted = @ \cup {c},
                        !.links = {l \in @ : c.id \notin {l[1], l[2]}}]
    /\ lost' = lost \cup {c.id}
    /\ UNCHANGED <<old, seq, box, pc, import, restoring, counted, clashed>>

\* restore_one_delete: a number that is free is kept, another is given.
RestoreCard(c) ==
    /\ Serving("postgres") /\ restoring = {}
    /\ c.id \notin Ids(pg.cards)
    /\ LET kept == c.number > 0 /\ c.number \notin Numbers(pg.cards)
           n == IF kept THEN c.number ELSE seq + 1
       IN  IF n \in Numbers(pg.cards)
           THEN clashed' = TRUE /\ seq' = n /\ UNCHANGED <<pg, restoring>>
           ELSE /\ pg' = [pg EXCEPT !.cards = @ \cup {[c EXCEPT !.number = n]},
                                    !.deleted = @ \ {c}]
                /\ seq' = IF kept THEN seq ELSE n
                /\ restoring' = {n}
                /\ UNCHANGED clashed
    /\ UNCHANGED <<old, box, pc, import, counted, lost>>

\* restore_one_delete: the sequence is moved past a number above it.
PastNumber(n) == IF seq < n THEN n ELSE seq

MoveSequence ==
    /\ restoring # {}
    /\ \E n \in restoring : seq' = PastNumber(n)
    /\ restoring' = {}
    /\ UNCHANGED <<old, pg, box, pc, import, counted, lost, clashed>>

Backend ==
    \/ CreateInSurreal \/ CreateInPostgres
    \/ \E c \in pg.cards : DeleteCard(c)
    \/ \E c \in pg.deleted : RestoreCard(c)
    \/ MoveSequence

Next == Deploy \/ RollBack \/ StopByHand \/ EmptyByHand \/ LoseData \/ Backend

Spec == Init /\ [][Next]_cutOverVars

----------------------------------------------------------------------------

\* Numbers and ids are unique, links join cards, and no container runs without a build.
TypeOK ==
    /\ \A c, d \in pg.cards : c # d => c.number # d.number /\ c.id # d.id
    /\ \A l \in pg.links : l[1] \in Ids(pg.cards) /\ l[2] \in Ids(pg.cards)
    /\ box.build \in {"none", "surreal", "postgres"} /\ (box.build = "none" => ~box.running)
    /\ Cardinality(restoring) <= 1

\* No deploy drops a card: whichever build serves, every card that either store holds is in
\* the store of that build or named in the import's report; but those a person gave up, with
\* a rollback or a reconciliation, and those written behind a stop that did not stop.
NothingDropped ==
    box.running =>
        LET shown == IF box.build = "surreal" THEN old.cards ELSE pg.cards
        IN  Ids(old.cards) \cup Ids(pg.cards) \subseteq Ids(shown) \cup report.skipped \cup lost

\* A new card gets a number no other card has: the sequence is ahead of every number, but
\* between the two steps of a restore.
NumbersRunAhead == ~clashed

=============================================================================
