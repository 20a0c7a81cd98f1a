----------------------------- MODULE SetupWizard -----------------------------
(***************************************************************************)
(* Setting up a wallet: the wizard's pages and the settings object they    *)
(* share, the temporary and final wallet files, what main.qml persists     *)
(* about the wallet, the first refresh, and restarts of the program.       *)
(*                                                                         *)
(* A wallet is a number, in the order of construction; its temporary file  *)
(* has the same number.  What is kept under a name is a wallet file the    *)
(* user has chosen a path for.                                             *)
(***************************************************************************)
EXTENDS Integers

CONSTANTS
    MaxWallets,   \* bound on the wallets constructed in a behaviour
    Names,        \* paths the user may choose for a wallet
    Heights,      \* restore heights the user may enter
    Zero,         \* the height an empty field stands for
    Users         \* the users considered, each a set of Habits

Habits ==
    {"stepsBack",   \* uses the wizard's button for the previous page
     "restarts",    \* ends the program, or sees it crash, and starts it again
     "opensFile",   \* opens earlier wallets from their files
     "diskFails"}   \* has a disk that refuses writes and reads

ASSUME WizardAssumption ==
    /\ MaxWallets \in Nat
    /\ Zero \in Heights
    /\ "none" \notin Names
    /\ Users \subseteq SUBSET Habits

VARIABLES
    where,        \* what is on show: wizard, file dialog, main window, nothing
    path,         \* wizard.currentPath
    page,         \* wizard.currentPage
    settings,     \* wizard.settings
    made,         \* wallets constructed so far
    origin,       \* how each of them came about
    open,         \* the manager's current wallet, NoWallet when there is none
    scanned,      \* the open wallet has seen the chain up to a height above 1
    told,         \* what initAsync told it about recovering
    isNewWallet,  \* main.qml's flag: store at the first refresh
    tmpFiles,     \* wallets with a temporary file on disk
    kept,         \* the wallet file under each name, NoWallet when none
    saved,        \* wallets whose file holds what they have scanned
    persisted,    \* persistentSettings
    habits        \* of this behaviour's user, one of Users

wizardVars == <<path, page, settings>>
walletVars == <<open, scanned, told>>
diskVars == <<tmpFiles, kept, saved, persisted>>
vars == <<where, wizardVars, made, origin, walletVars, isNewWallet, diskVars, habits>>

NoWallet == 0
Wallets == 1 .. MaxWallets
Options == 1   \* the page that offers to create, recover or open a wallet
Form == 2      \* createWalletPage or recoveryWalletPage
Finish == 5    \* finishPage, after passwordPage and daemonPage

\* Whether a wallet is recovering, and from which height.
Recoveries == [recovering : BOOLEAN, height : Heights]
Fresh == [recovering |-> FALSE, height |-> Zero]

TypeOK ==
    /\ where \in {"wizard", "file", "main", "off"}
    /\ path \in {"create", "recovery"}
    /\ page \in 0 .. Finish
    /\ settings \in [wallet : 0 .. made, tmp : 0 .. made, name : Names \cup {"none"},
                     recovery : Recoveries]
    /\ made \in 0 .. MaxWallets
    /\ origin \in [Wallets -> Recoveries]
    /\ open \in 0 .. made
    /\ scanned \in BOOLEAN
    /\ told \in Recoveries
    /\ isNewWallet \in BOOLEAN
    /\ tmpFiles \subseteq 1 .. made
    /\ kept \in [Names -> 0 .. made]
    /\ saved \subseteq 1 .. made
    /\ persisted \in [name : Names \cup {"none"}, recovery : Recoveries]
    /\ habits \in Users

-----------------------------------------------------------------------------
\* The open wallet writes what it has scanned to its file; store() reports a
\* failure that nobody looks at.  A wallet that could not be stored under a name
\* in the wizard has only its temporary file, and writes that one again.
SaveOpen ==
    \/ /\ saved' = saved \cup {open}
       /\ tmpFiles' = IF \E n \in Names : kept[n] = open THEN tmpFiles ELSE tmpFiles \cup {open}
    \/ "diskFails" \in habits /\ UNCHANGED <<saved, tmpFiles>>

\* Deleting the open wallet saves what it has scanned.
SaveOnClose == IF scanned THEN SaveOpen ELSE UNCHANGED <<saved, tmpFiles>>

\* A wallet is constructed in a temporary file, in place of the open one, which
\* has scanned nothing: refreshes belong to the main window.
NewWallet(recovery) ==
    /\ made < MaxWallets
    /\ made' = made + 1
    /\ origin' = [origin EXCEPT ![made + 1] = recovery]
    /\ open' = made + 1
    /\ scanned' = FALSE
    /\ \/ tmpFiles' = tmpFiles \cup {made + 1}
       \/ "diskFails" \in habits /\ UNCHANGED tmpFiles
    /\ UNCHANGED saved

InWizard(pages) == where = "wizard" /\ page \in pages

\* wizard.settings = ({})
NoSettings == [wallet |-> NoWallet, tmp |-> NoWallet, name |-> "none", recovery |-> Fresh]

\* Mutant of Restart: the pages are reset, the settings of the last wallet stay.
RestartKeepsSettings ==
    /\ path' = "create"
    /\ page' = 0
    /\ settings' = [settings EXCEPT !.wallet = NoWallet]

\* wizard.restart()
Restart ==
    /\ path' = "create"
    /\ page' = 0
    /\ settings' = NoSettings

\* Mutant of PathValid: no test whether a wallet of that name exists.
PathNotTested(n) == n \in Names

\* walletPathValid(createWalletPath(...))
PathValid(n) == kept[n] = NoWallet

-----------------------------------------------------------------------------
(* The pages.                                                               *)

\* The welcome, password and daemon pages let the user go on.
NextPage ==
    /\ InWizard({0, Form + 1, Form + 2})
    /\ page' = page + 1
    /\ UNCHANGED <<where, path, settings, made, origin, walletVars, isNewWallet, diskVars, habits>>

\* The button shows from the second page on.
PreviousPage ==
    /\ "stepsBack" \in habits
    /\ InWizard(1 .. Finish)
    /\ page' = page - 1
    /\ UNCHANGED <<where, path, settings, made, origin, walletVars, isNewWallet, diskVars, habits>>

\* openCreateWalletPage: an earlier wallet of this wizard is closed, a new one
\* constructed, and the settings object gets only the two fields of that wallet.
OpenCreateWalletPage ==
    /\ InWizard({Options})
    /\ NewWallet(Fresh)
    /\ path' = "create"
    /\ page' = Form
    /\ settings' = [settings EXCEPT !.wallet = made + 1, !.tmp = made + 1]
    /\ UNCHANGED <<where, told, isNewWallet, kept, persisted, habits>>

OpenRecoveryWalletPage ==
    /\ InWizard({Options})
    /\ path' = "recovery"
    /\ page' = Form
    /\ UNCHANGED <<where, settings, made, origin, walletVars, isNewWallet, diskVars, habits>>

\* WizardCreateWallet.onPageClosed; a name already taken is refused.
CloseCreatePage(n) ==
    /\ InWizard({Form}) /\ path = "create"
    /\ settings' = [settings EXCEPT !.name = n]
    /\ page' = IF PathValid(n) THEN Form + 1 ELSE Form
    /\ UNCHANGED <<where, path, made, origin, walletVars, isNewWallet, diskVars, habits>>

\* WizardRecoveryWallet.onPageClosed with a name already taken: the restore
\* height is in the settings by then.
RecoveryNameTaken(n, h) ==
    /\ InWizard({Form}) /\ path = "recovery"
    /\ ~PathValid(n)
    /\ settings' = [settings EXCEPT !.name = n, !.recovery.height = h]
    /\ UNCHANGED <<where, path, page, made, origin, walletVars, isNewWallet, diskVars, habits>>

\* recoveryWallet with a good seed or good keys
RecoverySucceeds(n, h) ==
    /\ InWizard({Form}) /\ path = "recovery"
    /\ PathValid(n)
    /\ NewWallet([recovering |-> TRUE, height |-> h])
    /\ settings' = [wallet |-> made + 1, tmp |-> made + 1, name |-> n,
                    recovery |-> [recovering |-> TRUE, height |-> h]]
    /\ page' = Form + 1
    /\ UNCHANGED <<where, path, told, isNewWallet, kept, persisted, habits>>

\* Mutant of RecoveryFails: onPageClosed does not return the result.
RecoveryFailsAndGoesOn(n, h) ==
    /\ InWizard({Form}) /\ path = "recovery"
    /\ PathValid(n)
    /\ settings' = [settings EXCEPT !.name = n, !.recovery.height = h]
    /\ page' = Form + 1
    /\ open' = NoWallet /\ scanned' = FALSE
    /\ UNCHANGED <<where, path, made, origin, told, isNewWallet, diskVars, habits>>

\* ... and with a bad one: the manager has dropped the wallet of an earlier visit
\* for the new one, which is closed again; no file was written.
RecoveryFails(n, h) ==
    /\ InWizard({Form}) /\ path = "recovery"
    /\ PathValid(n)
    /\ settings' = [settings EXCEPT !.name = n, !.recovery.height = h]
    /\ open' = NoWallet /\ scanned' = FALSE
    /\ UNCHANGED <<where, path, page, made, origin, told, isNewWallet, diskVars, habits>>

-----------------------------------------------------------------------------
(* From the wizard to the main window.                                      *)

\* settings.wallet.store(...), whose result is not looked at
Store == \/ kept' = [kept EXCEPT ![settings.name] = settings.wallet]
         \/ "diskFails" \in habits /\ UNCHANGED kept

\* oshelper.removeTemporaryWallet
RemoveTemporary == \/ tmpFiles' = tmpFiles \ {settings.tmp}
                   \/ "diskFails" \in habits /\ UNCHANGED tmpFiles

\* Mutant of ApplySettings: the temporary files stay.
ApplySettingsKeepsTmp ==
    /\ Store
    /\ UNCHANGED tmpFiles
    /\ persisted' = [name |-> settings.name, recovery |-> settings.recovery]

\* Mutant of ApplySettings: a path persisted before is kept.
ApplySettingsKeepsPath ==
    /\ Store
    /\ RemoveTemporary
    /\ persisted' = [name |-> IF persisted.name = "none" THEN settings.name ELSE persisted.name,
                     recovery |-> settings.recovery]

\* applySettings: the wallet is stored, its temporary files deleted, and what
\* the next start needs to know is persisted.
ApplySettings ==
    /\ Store
    /\ RemoveTemporary
    /\ persisted' = [name |-> settings.name, recovery |-> settings.recovery]

\* "Use Lethean": applySettings, then initialize() with the wizard's wallet.
\* settings.wallet must be alive, or the first access to it throws.
UseLethean ==
    /\ InWizard({Finish})
    /\ settings.wallet = open /\ open # NoWallet
    /\ ApplySettings
    /\ where' = "main"
    /\ told' = persisted'.recovery
    /\ isNewWallet' = TRUE
    /\ settings' = [settings EXCEPT !.wallet = NoWallet]
    /\ UNCHANGED <<path, page, made, origin, open, scanned, saved, habits>>

\* initialize() without one: the wallet under the persisted name is opened, or it
\* cannot be, or its password is not given, and the wizard comes back as it was left.
OpenKept(w) ==
    \/ /\ w # NoWallet
       /\ where' = "main"
       /\ open' = w
       /\ scanned' = (w \in saved')
       /\ told' = persisted'.recovery
    \/ /\ where' = "wizard"
       /\ open' = NoWallet
       /\ scanned' = FALSE
       /\ UNCHANGED told

\* openOpenWalletPage: the wizard's wallet is destroyed, main.qml forgets what
\* it knows about a recovery, and the file dialog opens.
OpenWalletFromFile ==
    /\ "opensFile" \in habits
    /\ InWizard({Options})
    /\ settings.wallet \in {NoWallet, open}
    /\ where' = "file"
    /\ open' = IF settings.wallet = NoWallet THEN open ELSE NoWallet
    /\ scanned' = FALSE
    /\ settings' = [settings EXCEPT !.wallet = NoWallet]
    /\ persisted' = [persisted EXCEPT !.recovery = Fresh]
    /\ UNCHANGED <<path, page, made, origin, told, isNewWallet, tmpFiles, kept, saved, habits>>

FileAccepted(n) ==
    /\ where = "file"
    /\ kept[n] # NoWallet
    /\ persisted' = [persisted EXCEPT !.name = n]
    /\ UNCHANGED <<wizardVars, made, origin, isNewWallet, tmpFiles, kept, saved, habits>>
    /\ OpenKept(kept[n])

FileRejected ==
    /\ where = "file"
    /\ where' = "wizard"
    /\ UNCHANGED <<wizardVars, made, origin, walletVars, isNewWallet, diskVars, habits>>

-----------------------------------------------------------------------------
(* The main window.                                                         *)

\* Mutant of FirstRefresh: the flag is cleared without storing.
FirstRefreshForgets ==
    /\ where = "main"
    /\ scanned' = TRUE
    /\ isNewWallet' = FALSE
    /\ persisted' = [persisted EXCEPT !.recovery.recovering = FALSE]
    /\ UNCHANGED <<where, wizardVars, made, origin, open, told, tmpFiles, kept, saved, habits>>

\* onWalletRefresh with a height above 1: a wallet that came from the wizard of
\* this run of the program is stored, and it is neither new nor recovering any
\* more, whether the store worked or not.
FirstRefresh ==
    /\ where = "main"
    /\ scanned' = TRUE
    /\ IF isNewWallet THEN SaveOpen ELSE UNCHANGED <<saved, tmpFiles>>
    /\ isNewWallet' = FALSE
    /\ persisted' = [persisted EXCEPT !.recovery.recovering = FALSE]
    /\ UNCHANGED <<where, wizardVars, made, origin, open, told, kept, habits>>

\* initialize() with another daemon address: closed and opened again.
ChangeDaemon ==
    /\ where = "main"
    /\ SaveOnClose
    /\ UNCHANGED <<wizardVars, made, origin, isNewWallet, kept, persisted, habits>>
    /\ OpenKept(kept[persisted.name])
    /\ where' = "main" \/ "diskFails" \in habits

\* Settings page, "Close wallet": showWizard()
CloseWallet ==
    /\ where = "main"
    /\ where' = "wizard"
    /\ Restart
    /\ SaveOnClose
    /\ open' = NoWallet /\ scanned' = FALSE
    /\ UNCHANGED <<made, origin, told, isNewWallet, kept, persisted, habits>>

\* The program ends: by a crash, or closing the wallet first.
End ==
    /\ "restarts" \in habits
    /\ where # "off"
    /\ where' = "off"
    /\ SaveOnClose \/ UNCHANGED <<saved, tmpFiles>>
    /\ open' = NoWallet /\ scanned' = FALSE
    /\ isNewWallet' = FALSE
    /\ Restart
    /\ UNCHANGED <<made, origin, told, kept, persisted, habits>>

\* walletsFound()
WalletsFound == persisted.name # "none" /\ kept[persisted.name] # NoWallet

\* Component.onCompleted: the persisted wallet if its file exists, or the wizard.
Start ==
    /\ where = "off"
    /\ UNCHANGED <<wizardVars, made, origin, isNewWallet, diskVars, habits>>
    /\ IF WalletsFound THEN OpenKept(kept[persisted.name])
       ELSE where' = "wizard" /\ UNCHANGED walletVars

-----------------------------------------------------------------------------
Init ==
    /\ where = "wizard"
    /\ path = "create" /\ page = 0 /\ settings = NoSettings
    /\ made = 0 /\ origin = [w \in Wallets |-> Fresh]
    /\ open = NoWallet /\ scanned = FALSE /\ told = Fresh
    /\ isNewWallet = FALSE
    /\ tmpFiles = {} /\ kept = [n \in Names |-> NoWallet] /\ saved = {}
    /\ persisted = [name |-> "none", recovery |-> Fresh]
    /\ habits \in Users

Wizard ==
    \/ NextPage \/ PreviousPage
    \/ OpenCreateWalletPage \/ OpenRecoveryWalletPage
    \/ \E n \in Names : CloseCreatePage(n)
    \/ \E n \in Names, h \in Heights :
          RecoveryNameTaken(n, h) \/ RecoverySucceeds(n, h) \/ RecoveryFails(n, h)

Next ==
    \/ Wizard
    \/ UseLethean \/ OpenWalletFromFile \/ FileRejected \/ \E n \in Names : FileAccepted(n)
    \/ FirstRefresh \/ ChangeDaemon \/ CloseWallet \/ End \/ Start

Spec == Init /\ [][Next]_vars

-----------------------------------------------------------------------------
\* From the password page on, however the user got there and whatever was created
\* and recovered before, the wizard speaks of the wallet that is open, of the kind
\* the user has chosen, in the temporary file that will be deleted.
FinishIsAboutOpenWallet ==
    (where = "wizard" /\ page > Form /\ "diskFails" \notin habits) =>
        /\ open # NoWallet /\ settings.wallet = open /\ settings.tmp = open
        /\ origin[open].recovering = (path = "recovery")
        /\ path = "recovery" => settings.recovery = origin[open]

\* A wallet file the user has is never replaced by another wallet: the name tested
\* when the form was left is still free when applySettings stores.
KeptFilesStay ==
    [][\A n \in Names : kept[n] # NoWallet => kept'[n] = kept[n]]_vars

\* The wallet in use is the one the next start will open: it is on disk, under the
\* path that was persisted.
WalletInUseIsKept ==
    (where = "main" /\ "diskFails" \notin habits) =>
        persisted.name # "none" /\ kept[persisted.name] = open

\* A user who neither steps back nor restarts, with a disk that works, leaves no
\* temporary wallet behind ("make sure temporary wallet files are deleted").
NoTemporaryFileLeft ==
    (habits \subseteq {"opensFile"} /\ where = "main") => tmpFiles = {}

\* A recovered wallet that has scanned nothing yet is told so, and from which height,
\* as the user has entered it: believed new, it would skip its history.  A new wallet
\* is told that it is new unless the user stepped back from a recovery.  The disk must
\* work: a first scan that is not stored is forgotten when the wallet is opened again,
\* and by then it counts as recovered.
ScanStartsRight ==
    (where = "main" /\ ~scanned) =>
        /\ habits \subseteq {"stepsBack"} /\ origin[open].recovering =>
              told = origin[open]
        /\ habits = {} => told.recovering = origin[open].recovering

\* A refreshed wallet is on disk ("This prevents rescan from block 0 after app crash").
RefreshedWalletSaved == (where = "main" /\ scanned) => open \in saved

\* The same for a program that is never restarted and opens no other wallet, on a
\* disk that works: a store that fails at the first refresh is not tried again.
FirstRunSaved == habits \subseteq {"stepsBack"} => RefreshedWalletSaved
=============================================================================
