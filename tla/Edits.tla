--------------------------------- MODULE Edits ---------------------------------
(* The parts of the app where browser tabs and requests change one user's data *)
(* side by side: transactions, categories, tax sections, the user's database   *)
(* and its pool, a bank connection. They share nothing, so a behaviour is      *)
(* about one of them; checking them in one run keeps their instances together. *)
EXTENDS Integers, FiniteSets

CONSTANTS Tabs, Rows, Pending, Categories, Comments, Blank,   \* TransactionEdits
          TreeTabs, Ids, First, Names, Codes, Unknown,        \* CategoryEdits
          Slots, MaxTreeUses,
          TaxTabs, TaxCodes, TaxLists, TaxSlots, MaxTaxUses,  \* TaxSections
          Lookups, Databases, Allowed, OldSchema,             \* UserPools
          MaxPools, MaxSaves, MaxFaults,
          Identities, Labels, Methods, Media, Required,       \* BankConnectionDialog
          Offered, Accounts, Kontos, MaxDialogUses, MaxOthers,
          None, MaxUses

VARIABLES part, uses,
          db, lock, shown, outdated, dialog, request,
          tree, tags, treeLock, shownTree, knownTags, outdatedTree, outdatedTags,
          tagLoads, treeDialog, treeRequest,
          sections, tagged, heldSections, heldTags, loads, taxDialog, taxRequest, unsure,
          row, tables, cache, pools, lookup, save, saves, faults,
          stored, saved, draft, saving, saveRequest, discovery, discovering, discoverRequest,
          rows, tan, mappingSaving, mappingSaved, mapRequest, others

T == INSTANCE TransactionEdits
C == INSTANCE CategoryEdits WITH Tabs <- TreeTabs, MaxUses <- MaxTreeUses, lock <- treeLock,
        shown <- shownTree, outdated <- outdatedTree, dialog <- treeDialog,
        request <- treeRequest
X == INSTANCE TaxSections WITH Tabs <- TaxTabs, Codes <- TaxCodes, Lists <- TaxLists,
        Slots <- TaxSlots, MaxUses <- MaxTaxUses,
        stored <- sections, sections <- heldSections, tags <- heldTags,
        dialog <- taxDialog, request <- taxRequest
P == INSTANCE UserPools
B == INSTANCE BankConnectionDialog WITH MaxUses <- MaxDialogUses

ASSUME PartsFit == T!ConstantsFit /\ C!ConstantsFit /\ X!ConstantsFit
                   /\ P!ConstantsFit /\ B!ConstantsFit

screenVars == <<lock, shown, outdated, dialog, request>>
treeVars == <<tree, tags, treeLock, shownTree, knownTags, outdatedTree, outdatedTags,
              tagLoads, treeDialog, treeRequest>>
taxVars == <<sections, tagged, heldSections, heldTags, loads, taxDialog, taxRequest, unsure>>
poolVars == <<row, tables, cache, pools, lookup, save, saves, faults>>
bankVars == <<stored, saved, draft, saving, saveRequest, discovery, discovering,
              discoverRequest, rows, tan, mappingSaving, mappingSaved, mapRequest, others>>
vars == <<part, uses, db, screenVars, treeVars, taxVars, poolVars, bankVars>>

-----------------------------------------------------------------------------
(* A part that is not the behaviour's own stays at one value. *)

NoRows == db = [r \in Rows |-> None]
NoScreens == /\ lock = None /\ shown = None /\ outdated = None /\ dialog = None
             /\ request = [t \in Tabs |-> T!Idle]
NoTree == /\ tree = << >> /\ tags = << >> /\ treeLock = None /\ shownTree = None
          /\ knownTags = None /\ outdatedTree = None /\ outdatedTags = None
          /\ tagLoads = None /\ treeDialog = None /\ treeRequest = None
NoTax == /\ sections = None /\ tagged = None /\ heldSections = None /\ heldTags = None
         /\ loads = None /\ taxDialog = None /\ taxRequest = None /\ unsure = None
NoPools == /\ row = None /\ tables = None /\ cache = None /\ pools = None
           /\ lookup = None /\ save = None /\ saves = None /\ faults = None
NoBank == /\ stored = None /\ saved = None /\ draft = None /\ saving = None
          /\ saveRequest = None /\ discovery = None /\ discovering = None
          /\ discoverRequest = None /\ rows = None /\ tan = None /\ mappingSaving = None
          /\ mappingSaved = None /\ mapRequest = None /\ others = None

\* The transactions start without categories, one of them with an empty comment.
FirstRow(r) == [comment |-> IF r = 1 THEN Blank ELSE None, category |-> None]

Init ==
    \/ /\ part = "transactions" /\ NoTree /\ NoTax /\ NoPools /\ NoBank
       /\ T!Init /\ db = [r \in Rows |-> FirstRow(r)]
    \/ /\ part = "categories" /\ NoRows /\ NoScreens /\ NoTax /\ NoPools /\ NoBank
       /\ C!Init
    \/ /\ part = "taxSections" /\ NoRows /\ NoScreens /\ NoTree /\ NoPools /\ NoBank
       /\ X!Init
    \/ /\ part = "pools" /\ NoRows /\ NoScreens /\ NoTree /\ NoTax /\ NoBank
       /\ uses = 0 /\ P!Init
    \/ /\ part = "bankDialog" /\ NoRows /\ NoScreens /\ NoTree /\ NoTax /\ NoPools
       /\ B!Init

Next ==
    /\ UNCHANGED part
    /\ \/ /\ part = "transactions" /\ T!Next
          /\ UNCHANGED <<treeVars, taxVars, poolVars, bankVars>>
       \/ /\ part = "categories" /\ C!Next
          /\ UNCHANGED <<db, screenVars, taxVars, poolVars, bankVars>>
       \/ /\ part = "taxSections" /\ X!Next
          /\ UNCHANGED <<db, screenVars, treeVars, poolVars, bankVars>>
       \/ /\ part = "pools" /\ P!Next
          /\ UNCHANGED <<uses, db, screenVars, treeVars, taxVars, bankVars>>
       \/ /\ part = "bankDialog" /\ B!Next
          /\ UNCHANGED <<db, screenVars, treeVars, taxVars, poolVars>>

Spec == Init /\ [][Next]_vars

-----------------------------------------------------------------------------
(* Properties, each that of one part or of several. *)

\* Each part's variables have their types.
TypeOK ==
    CASE part = "transactions" -> T!TypeOK
      [] part = "categories" -> C!TypeOK
      [] part = "taxSections" -> X!TypeOK
      [] part = "pools" -> P!TypeOK
      [] part = "bankDialog" -> B!TypeOK

\* No edit is lost: a transaction, a category with its tag and a bank connection's
\* settings are each only overwritten by a save that was made from what is overwritten,
\* however saves of several tabs and forms, reloads and lost answers interleave (the
\* guarded updates of repositories/umsatz.ts, umsatztyp.ts, bank-connection.ts with the
\* expected values the dialogs send).
NoLostEdit == T!NoLostUpdate /\ C!NoLostCategoryEdit /\ B!NoLostSettings

\* A bulk assignment gives all its transactions the category or changes nothing.
AssignAllOrNothing == T!AssignAllOrNothing

\* What a tab shows of transactions, categories, tags and tax sections is what is stored,
\* unless it changed after the tab read or saved it, or an answer of the tab's own is still to
\* come or came too late (the stores that change their lists in place after a save). An older
\* answer of a tab's two saves or loads may be the last to come; what it then does to the tags
\* is TagsStayCurrent, which does not hold.
ScreensFit ==
    CASE part = "transactions" -> T!ScreenFits
      [] part = "categories" -> C!CategoriesFit
      [] part = "taxSections" -> X!SectionsFit
      [] OTHER -> TRUE

\* Locks do what they are for: no two category moves form a cycle together, and no two
\* bulk assignments wait for each other's rows (updateCategory's locked tree, the
\* ascending order of assignCategory).
LocksSuffice ==
    /\ part = "categories" => C!TreesAcyclic
    /\ part = "transactions" => T!NoWaitCycle

\* The tax section dialog and the bank connection dialog never come to a state their own
\* handlers do not expect: each busy sign has its request, each error its row, and the TAN
\* choice is one the bank offers, complete unless the bank names no medium for it.
DialogsSound ==
    /\ part = "taxSections" => X!DialogSound
    /\ part = "bankDialog" => B!BankDialogSound

\* A lookup that succeeds has a pool on the settings it read or newer ones with all tables in
\* place; the cached pool is open and every other pool of the user is ended, so that lookup's
\* pool is open exactly as long as it is the cached one; and no lookup waits for a setup that
\* nobody runs (db/user-pools.ts).
PoolsSound ==
    part = "pools" => P!PoolReady /\ P!OldPoolsEnded /\ P!WaitsForSetup
=============================================================================
