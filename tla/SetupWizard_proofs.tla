------------------------- MODULE SetupWizard_proofs -------------------------
(***************************************************************************)
(* Theorems about SetupWizard, for any names, heights, number of wallets   *)
(* and users.                                                              *)
(***************************************************************************)
EXTENDS SetupWizard, TLAPS

\* The types, in parts that one step changes or keeps together.
PagesOK ==
    /\ where \in {"wizard", "file", "main", "off"}
    /\ path \in {"create", "recovery"}
    /\ page \in 0 .. Finish
WalletOK ==
    /\ made \in 0 .. MaxWallets
    /\ origin \in [Wallets -> Recoveries]
    /\ open \in 0 .. made
    /\ told \in Recoveries
FlagsOK == scanned \in BOOLEAN /\ isNewWallet \in BOOLEAN
FilesOK ==
    /\ tmpFiles \subseteq 1 .. made
    /\ kept \in [Names -> 0 .. made]
    /\ saved \subseteq 1 .. made
SettingsOK ==
    settings \in [wallet : 0 .. made, tmp : 0 .. made, name : Names \cup {"none"},
                  recovery : Recoveries]
PersistedOK == persisted \in [name : Names \cup {"none"}, recovery : Recoveries]

TypesOK ==
    /\ PagesOK /\ WalletOK /\ FlagsOK /\ FilesOK /\ SettingsOK /\ PersistedOK
    /\ habits \in Users

LEMMA TypeParts == (TypeOK <=> TypesOK) /\ (TypeOK' <=> TypesOK')
  BY DEF TypeOK, TypesOK, PagesOK, WalletOK, FlagsOK, FilesOK, SettingsOK, PersistedOK

\* What the places of the program say about the wallets: the wizard's wallet does
\* not outlive the wizard, the main window has one that is persisted, and a wallet
\* that has scanned something is the main window's.
Placed ==
    /\ where # "wizard" => settings.wallet = NoWallet
    /\ where = "file" => page = Options
    /\ where = "off" => page = 0
    /\ where = "main" => open # NoWallet /\ persisted.name \in Names
    /\ scanned => open # NoWallet /\ where = "main"

\* Past the form, the name that was tested there is still free.
NameFree ==
    where = "wizard" /\ page > Form /\ settings.wallet # NoWallet =>
        settings.name \in Names /\ kept[settings.name] = NoWallet

WizardInv == TypeOK /\ Placed /\ NameFree

LEMMA SettingsFields ==
    ASSUME TypeOK
    PROVE  /\ settings.wallet \in 0 .. made /\ settings.tmp \in 0 .. made
           /\ settings.name \in Names \cup {"none"} /\ settings.recovery \in Recoveries
           /\ persisted.name \in Names \cup {"none"} /\ persisted.recovery \in Recoveries
  BY DEF TypeOK

LEMMA RecoveryTypes ==
    /\ Fresh \in Recoveries
    /\ \A h \in Heights : [recovering |-> TRUE, height |-> h] \in Recoveries
    /\ NoSettings.recovery \in Recoveries
  BY WizardAssumption DEF Fresh, Recoveries, NoSettings

-----------------------------------------------------------------------------
LEMMA WizardInit == Init => WizardInv
  <1> SUFFICES ASSUME Init PROVE WizardInv
    OBVIOUS
  <1>1. PagesOK /\ WalletOK /\ FlagsOK /\ FilesOK /\ habits \in Users
    <2>0. FlagsOK
      BY DEF Init, FlagsOK
    <2>1. PagesOK /\ habits \in Users
      BY DEF Init, PagesOK, Finish
    <2>2. WalletOK
      BY RecoveryTypes, WizardAssumption DEF Init, WalletOK, Wallets, NoWallet
    <2>3. FilesOK
      BY DEF Init, FilesOK, NoWallet
    <2>4. QED BY <2>0, <2>1, <2>2, <2>3
  <1>2. SettingsOK /\ PersistedOK
    BY RecoveryTypes DEF Init, SettingsOK, PersistedOK, NoSettings, NoWallet
  <1>3. Placed /\ NameFree
    BY DEF Init, Placed, NameFree, NoSettings, Form
  <1>4. QED BY <1>1, <1>2, <1>3, TypeParts DEF WizardInv, TypesOK

\* A wallet more: everything typed by the number of wallets stays typed.
LEMMA NewWalletTypes ==
    ASSUME TypeOK, NEW r \in Recoveries, NewWallet(r)
    PROVE  /\ made' = made + 1 /\ made' \in 0 .. MaxWallets
           /\ origin' \in [Wallets -> Recoveries]
           /\ open' \in 1 .. made'
           /\ scanned' = FALSE
           /\ tmpFiles' \subseteq 1 .. made' /\ saved' \subseteq 1 .. made'
           /\ \A x \in 0 .. made : x \in 0 .. made'
  <1>1. /\ made \in Nat /\ made' = made + 1 /\ made < MaxWallets /\ MaxWallets \in Nat
        /\ saved' = saved /\ tmpFiles' \in {tmpFiles, tmpFiles \cup {made + 1}}
        /\ open' = made + 1 /\ scanned' = FALSE
        /\ origin' = [origin EXCEPT ![made + 1] = r]
    BY WizardAssumption DEF TypeOK, NewWallet
  <1>2. tmpFiles \subseteq 1 .. made /\ saved \subseteq 1 .. made
        /\ origin \in [Wallets -> Recoveries]
    BY DEF TypeOK
  <1>3. 1 .. made \subseteq 1 .. made' /\ made + 1 \in 1 .. made' /\ made' \in 0 .. MaxWallets
    BY <1>1
  <1>4. origin' \in [Wallets -> Recoveries]
    BY <1>1, <1>2
  <1>5. tmpFiles' \subseteq 1 .. made' /\ saved' \subseteq 1 .. made'
    BY <1>1, <1>2, <1>3
  <1>6. \A x \in 0 .. made : x \in 0 .. made'
    BY <1>1
  <1>7. QED BY <1>1, <1>3, <1>4, <1>5, <1>6

\* Whatever is saved, of a wallet that is open or has scanned nothing.
LEMMA SavedTypes ==
    ASSUME TypeOK, Placed,
           \/ SaveOnClose
           \/ open # NoWallet /\ SaveOpen
           \/ UNCHANGED <<saved, tmpFiles>>
    PROVE  /\ saved' \subseteq 1 .. made /\ tmpFiles' \subseteq 1 .. made
           /\ saved \subseteq saved'
  <1>1. saved \subseteq 1 .. made /\ tmpFiles \subseteq 1 .. made /\ open \in 0 .. made
        /\ made \in Nat /\ (scanned => open # NoWallet)
    BY DEF TypeOK, Placed
  <1>2. CASE UNCHANGED <<saved, tmpFiles>>
    BY <1>1, <1>2
  <1>3. CASE open # NoWallet /\ SaveOpen
    <2>1. open \in 1 .. made
      BY <1>1, <1>3 DEF NoWallet
    <2>2. saved' \in {saved, saved \cup {open}} /\ tmpFiles' \in {tmpFiles, tmpFiles \cup {open}}
      BY <1>3 DEF SaveOpen
    <2>3. QED BY <1>1, <2>1, <2>2
  <1>4. QED BY <1>1, <1>2, <1>3 DEF SaveOnClose

LEMMA OpenCreateStep ==
    ASSUME WizardInv, OpenCreateWalletPage
    PROVE  WizardInv'
  <1> USE DEF WizardInv, TypesOK
  <1>1. NewWallet(Fresh) /\ Fresh \in Recoveries
    BY RecoveryTypes DEF OpenCreateWalletPage
  <1>2. /\ made' = made + 1 /\ made' \in 0 .. MaxWallets
        /\ origin' \in [Wallets -> Recoveries]
        /\ open' \in 1 .. made' /\ scanned' = FALSE
        /\ tmpFiles' \subseteq 1 .. made' /\ saved' \subseteq 1 .. made'
        /\ \A x \in 0 .. made : x \in 0 .. made'
    BY <1>1, NewWalletTypes
  <1>3. /\ path' = "create" /\ page' = Form /\ where' = "wizard"
        /\ settings' = [settings EXCEPT !.wallet = made + 1, !.tmp = made + 1]
        /\ UNCHANGED <<told, isNewWallet, kept, persisted, habits>>
    BY DEF OpenCreateWalletPage, InWizard
  <1>4. PagesOK' /\ WalletOK' /\ FlagsOK' /\ PersistedOK' /\ habits' \in Users
    <2>1. PagesOK'
      BY <1>3, TypeParts DEF PagesOK, Form, Finish
    <2>2. WalletOK'
      BY <1>2, <1>3, TypeParts DEF WalletOK
    <2>3. FlagsOK'
      BY <1>2, <1>3, TypeParts DEF FlagsOK
    <2>4. PersistedOK' /\ habits' \in Users
      BY <1>3, TypeParts DEF PersistedOK
    <2>5. QED BY <2>1, <2>2, <2>3, <2>4
  <1>5. FilesOK'
    BY <1>2, <1>3, TypeParts DEF FilesOK
  <1>6. SettingsOK'
    <2>1. made + 1 \in 0 .. made' /\ settings.name \in Names \cup {"none"}
          /\ settings.recovery \in Recoveries
      BY <1>2, SettingsFields, TypeParts DEF WalletOK
    <2>2. settings' = [wallet |-> made + 1, tmp |-> made + 1, name |-> settings.name,
                       recovery |-> settings.recovery]
      BY <1>3, TypeParts DEF SettingsOK
    <2>3. QED BY <2>1, <2>2 DEF SettingsOK
  <1>7. Placed' /\ NameFree'
    BY <1>2, <1>3 DEF Placed, NameFree, Form
  <1>8. QED BY <1>4, <1>5, <1>6, <1>7, TypeParts

LEMMA RecoverySucceedsStep ==
    ASSUME WizardInv, NEW n \in Names, NEW h \in Heights, RecoverySucceeds(n, h)
    PROVE  WizardInv'
  <1> USE DEF WizardInv, TypesOK
  <1> DEFINE r == [recovering |-> TRUE, height |-> h]
  <1>1. NewWallet(r) /\ r \in Recoveries
    BY RecoveryTypes DEF RecoverySucceeds
  <1>2. /\ made' = made + 1 /\ made' \in 0 .. MaxWallets
        /\ origin' \in [Wallets -> Recoveries]
        /\ open' \in 1 .. made' /\ scanned' = FALSE
        /\ tmpFiles' \subseteq 1 .. made' /\ saved' \subseteq 1 .. made'
        /\ \A x \in 0 .. made : x \in 0 .. made'
    BY <1>1, NewWalletTypes
  <1>3. /\ page' = Form + 1 /\ where' = "wizard" /\ PathValid(n)
        /\ settings' = [wallet |-> made + 1, tmp |-> made + 1, name |-> n, recovery |-> r]
        /\ UNCHANGED <<path, told, isNewWallet, kept, persisted, habits>>
    BY DEF RecoverySucceeds, InWizard
  <1>4. PagesOK' /\ WalletOK' /\ FlagsOK' /\ PersistedOK' /\ habits' \in Users
    <2>1. PagesOK'
      BY <1>3, TypeParts DEF PagesOK, Form, Finish
    <2>2. WalletOK'
      BY <1>2, <1>3, TypeParts DEF WalletOK
    <2>3. FlagsOK'
      BY <1>2, <1>3, TypeParts DEF FlagsOK
    <2>4. PersistedOK' /\ habits' \in Users
      BY <1>3, TypeParts DEF PersistedOK
    <2>5. QED BY <2>1, <2>2, <2>3, <2>4
  <1>5. FilesOK'
    BY <1>2, <1>3, TypeParts DEF FilesOK
  <1>6. SettingsOK'
    <2>1. made + 1 \in 0 .. made'
      BY <1>2, TypeParts DEF WalletOK
    <2>2. QED BY <1>1, <1>3, <2>1 DEF SettingsOK
  <1>7. Placed' /\ NameFree'
    BY <1>2, <1>3 DEF Placed, NameFree, PathValid
  <1>8. QED BY <1>4, <1>5, <1>6, <1>7, TypeParts

\* The other steps of the wizard: only pages, names and heights change, except that
\* a failed recovery leaves no wallet open.
LEMMA PageStep ==
    ASSUME WizardInv, NextPage \/ PreviousPage \/ OpenRecoveryWalletPage
    PROVE  WizardInv'
  <1> USE DEF WizardInv, TypesOK
  <1>1. /\ where = "wizard" /\ page' \in 0 .. Finish /\ path' \in {"create", "recovery"}
        /\ page' > Form => page > Form
        /\ UNCHANGED <<where, settings, made, origin, open, scanned, told, isNewWallet, tmpFiles,
                       kept, saved, persisted, habits>>
    BY DEF NextPage, PreviousPage, OpenRecoveryWalletPage, InWizard, Form, Finish, Options,
       walletVars, diskVars, TypeOK
  <1>2. PagesOK' /\ WalletOK' /\ FlagsOK' /\ FilesOK' /\ SettingsOK' /\ PersistedOK'
        /\ habits' \in Users
    BY <1>1, TypeParts
    DEF PagesOK, WalletOK, FlagsOK, FilesOK, SettingsOK, PersistedOK
  <1>3. Placed' /\ NameFree'
    BY <1>1 DEF Placed, NameFree
  <1>4. QED BY <1>2, <1>3, TypeParts

LEMMA FormStep ==
    ASSUME WizardInv,
           NEW n \in Names,
           \/ CloseCreatePage(n)
           \/ \E h \in Heights : RecoveryNameTaken(n, h) \/ RecoveryFails(n, h)
    PROVE  WizardInv'
  <1> USE DEF WizardInv, TypesOK
  <1>0. SettingsOK /\ scanned \in BOOLEAN
    BY TypeParts DEF FlagsOK
  <1>1. /\ where = "wizard" /\ page = Form /\ page' \in {Form, Form + 1}
        /\ page' = Form + 1 => PathValid(n)
        /\ open' \in {open, NoWallet}
        /\ scanned' \in BOOLEAN /\ (scanned' => scanned /\ open' = open)
        /\ UNCHANGED <<where, path, made, origin, told, isNewWallet, tmpFiles, kept, saved,
                       persisted, habits>>
    <2>1. CASE CloseCreatePage(n)
      <3>1. page' \in {Form, Form + 1} /\ (page' = Form + 1 => PathValid(n))
        BY <2>1 DEF CloseCreatePage, Form
      <3>2. QED BY <1>0, <2>1, <3>1 DEF CloseCreatePage, InWizard, walletVars, diskVars
    <2>2. CASE \E h \in Heights : RecoveryNameTaken(n, h)
      <3>1. UNCHANGED <<where, path, page, made, origin, open, scanned, told, isNewWallet,
                       tmpFiles, kept, saved, persisted, habits>>
            /\ where = "wizard" /\ page = Form
        BY <2>2 DEF RecoveryNameTaken, InWizard, walletVars, diskVars
      <3>2. page' # Form + 1
        BY <3>1 DEF Form
      <3>3. QED BY <1>0, <3>1, <3>2
    <2>3. CASE \E h \in Heights : RecoveryFails(n, h)
      <3>1. /\ open' = NoWallet /\ scanned' = FALSE /\ page' = page /\ where = "wizard"
            /\ page = Form /\ PathValid(n)
            /\ UNCHANGED <<where, path, made, origin, told, isNewWallet, tmpFiles, kept, saved,
                           persisted, habits>>
        BY <2>3 DEF RecoveryFails, InWizard, diskVars
      <3>2. QED BY <1>0, <3>1
    <2>4. QED BY <2>1, <2>2, <2>3
  <1>2. /\ settings'.name = n /\ settings'.wallet = settings.wallet
        /\ SettingsOK'
    <2>1. CASE CloseCreatePage(n)
      <3>1. settings' = [wallet |-> settings.wallet, tmp |-> settings.tmp, name |-> n,
                         recovery |-> settings.recovery]
        BY <1>0, <2>1 DEF CloseCreatePage, SettingsOK
      <3>2. QED BY <1>1, <3>1, SettingsFields DEF SettingsOK
    <2>2. CASE \E h \in Heights : RecoveryNameTaken(n, h) \/ RecoveryFails(n, h)
      <3>1. PICK h \in Heights : settings' = [settings EXCEPT !.name = n, !.recovery.height = h]
        BY <2>2 DEF RecoveryNameTaken, RecoveryFails
      <3> DEFINE r == [settings.recovery EXCEPT !.height = h]
      <3>2. r \in Recoveries
        BY SettingsFields DEF Recoveries
      <3>3. settings' = [wallet |-> settings.wallet, tmp |-> settings.tmp, name |-> n,
                         recovery |-> r]
        BY <1>0, <3>1 DEF SettingsOK
      <3>4. QED BY <1>1, <3>2, <3>3, SettingsFields DEF SettingsOK
    <2>3. QED BY <2>1, <2>2
  <1>3. PagesOK' /\ WalletOK' /\ FlagsOK' /\ SettingsOK' /\ PersistedOK' /\ habits' \in Users
    <2>1. PagesOK' /\ FlagsOK'
      BY <1>1, TypeParts DEF PagesOK, FlagsOK, Form, Finish
    <2>2. WalletOK'
      BY <1>1, TypeParts DEF WalletOK, NoWallet
    <2>3. SettingsOK'
      BY <1>2
    <2>4. PersistedOK' /\ habits' \in Users
      BY <1>1, TypeParts DEF PersistedOK
    <2>5. QED BY <2>1, <2>2, <2>3, <2>4
  <1>4. FilesOK'
    BY <1>1, TypeParts, SavedTypes DEF FilesOK
  <1>5. Placed' /\ NameFree'
    BY <1>1, <1>2 DEF Placed, NameFree, PathValid, Form
  <1>6. QED BY <1>3, <1>4, <1>5, TypeParts

-----------------------------------------------------------------------------
(* To and from the main window.                                             *)

\* initialize() without a wizard's wallet leaves a wallet that is kept, or none.
LEMMA OpenKeptTypes ==
    ASSUME TypeOK, NEW w \in 0 .. made, OpenKept(w), persisted'.recovery \in Recoveries,
           w # NoWallet => persisted'.name \in Names
    PROVE  /\ where' \in {"main", "wizard"}
           /\ open' \in {w, NoWallet} /\ scanned' \in BOOLEAN /\ told' \in Recoveries
           /\ where' = "main" => open' # NoWallet /\ persisted'.name \in Names
           /\ scanned' => open' # NoWallet /\ where' = "main"
  <1>1. CASE /\ w # NoWallet /\ where' = "main" /\ open' = w
             /\ scanned' = (w \in saved') /\ told' = persisted'.recovery
    <2>1. scanned' \in BOOLEAN
      BY <1>1
    <2>2. QED BY <1>1, <2>1
  <1>2. CASE where' = "wizard" /\ open' = NoWallet /\ scanned' = FALSE /\ UNCHANGED told
    <2>1. told \in Recoveries
      BY TypeParts DEF TypesOK, WalletOK
    <2>2. QED BY <1>2, <2>1
  <1>3. QED BY <1>1, <1>2 DEF OpenKept

LEMMA UseLetheanStep ==
    ASSUME WizardInv, UseLethean
    PROVE  WizardInv'
  <1> USE DEF WizardInv, TypesOK
  <1>1. /\ settings.name \in Names /\ kept[settings.name] = NoWallet
        /\ open # NoWallet /\ settings.wallet = open
        /\ where' = "main" /\ told' = persisted'.recovery /\ isNewWallet' = TRUE
        /\ settings' = [settings EXCEPT !.wallet = NoWallet]
        /\ tmpFiles' \in {tmpFiles, tmpFiles \ {settings.tmp}}
        /\ persisted' = [name |-> settings.name, recovery |-> settings.recovery]
        /\ kept' \in {kept, [kept EXCEPT ![settings.name] = settings.wallet]}
        /\ UNCHANGED <<path, page, made, origin, open, scanned, saved, habits>>
    BY DEF UseLethean, ApplySettings, RemoveTemporary, Store, InWizard, NameFree, Form, Finish
  <1>2. settings.wallet \in 0 .. made /\ settings.recovery \in Recoveries
    BY SettingsFields
  <1>3. SettingsOK' /\ PersistedOK'
    <2>1. SettingsOK'
      BY <1>1, TypeParts DEF SettingsOK, WalletOK, NoWallet
    <2>2. QED BY <1>1, <1>2, <2>1 DEF PersistedOK
  <1>4. PagesOK' /\ habits' \in Users
    BY <1>1, TypeParts DEF PagesOK
  <1>5. WalletOK'
    BY <1>1, <1>2, TypeParts DEF WalletOK
  <1>6. FlagsOK'
    BY <1>1, TypeParts DEF FlagsOK
  <1>7. FilesOK'
    BY <1>1, <1>2, TypeParts DEF FilesOK
  <1>8. settings'.wallet = NoWallet /\ persisted'.name \in Names
    BY <1>1, TypeParts DEF SettingsOK
  <1>9. Placed' /\ NameFree'
    BY <1>1, <1>8 DEF Placed, NameFree
  <1>10. QED BY <1>3, <1>4, <1>5, <1>6, <1>7, <1>9, TypeParts

LEMMA FileDialogStep ==
    ASSUME WizardInv, OpenWalletFromFile \/ FileRejected
    PROVE  WizardInv'
  <1> USE DEF WizardInv, TypesOK
  <1>1. /\ where' \in {"file", "wizard"} /\ page = Options
        /\ open' \in {open, NoWallet} 
        /\ scanned' = FALSE
        /\ UNCHANGED <<path, page, made, origin, told, isNewWallet, tmpFiles, kept, saved, habits>>
    <2>1. CASE OpenWalletFromFile
      BY <2>1 DEF OpenWalletFromFile, InWizard
    <2>2. CASE FileRejected
      <3>1. scanned' = FALSE
        BY <2>2, TypeParts DEF FileRejected, Placed, walletVars, FlagsOK
      <3>2. QED BY <2>2, <3>1 DEF FileRejected, Placed, walletVars, diskVars, wizardVars
    <2>3. QED BY <2>1, <2>2
  <1>2. /\ settings' \in {settings, [settings EXCEPT !.wallet = NoWallet]}
        /\ persisted' \in {persisted, [persisted EXCEPT !.recovery = Fresh]}
        /\ where' = "file" => settings' = [settings EXCEPT !.wallet = NoWallet]
    <2>1. CASE OpenWalletFromFile
      BY <2>1 DEF OpenWalletFromFile
    <2>2. CASE FileRejected
      BY <2>2 DEF FileRejected, diskVars, wizardVars
    <2>3. QED BY <2>1, <2>2
  <1>3. SettingsOK' /\ PersistedOK'
    BY <1>1, <1>2, TypeParts, RecoveryTypes DEF SettingsOK, PersistedOK, WalletOK, NoWallet
  <1>4. PagesOK' /\ habits' \in Users
    BY <1>1, TypeParts DEF PagesOK
  <1>5. WalletOK'
    BY <1>1, TypeParts DEF WalletOK, NoWallet
  <1>6. FlagsOK'
    BY <1>1, TypeParts DEF FlagsOK
  <1>7. FilesOK'
    BY <1>1, SavedTypes, TypeParts DEF FilesOK
  <1>8. where' = "file" => settings'.wallet = NoWallet
    BY <1>2, TypeParts DEF SettingsOK
  <1>9. Placed' /\ NameFree'
    BY <1>1, <1>8 DEF Placed, NameFree, Options, Form
  <1>10. QED BY <1>3, <1>4, <1>5, <1>6, <1>7, <1>9, TypeParts

\* Opening what is kept: from the file dialog, for another daemon, at the start.
LEMMA OpeningStep ==
    ASSUME WizardInv, (\E n \in Names : FileAccepted(n)) \/ ChangeDaemon \/ Start
    PROVE  WizardInv'
  <1> USE DEF WizardInv, TypesOK
  <1>1. /\ where \in {"file", "main", "off"} /\ settings.wallet = NoWallet
        /\ SaveOnClose \/ UNCHANGED <<saved, tmpFiles>>
        /\ UNCHANGED <<path, page, settings, made, origin, isNewWallet, kept, habits>>
    BY DEF FileAccepted, ChangeDaemon, Start, Placed, wizardVars, diskVars
  <1>2. PersistedOK'
    <2>1. CASE \E n \in Names : FileAccepted(n)
      BY <2>1, TypeParts DEF FileAccepted, PersistedOK
    <2>2. CASE UNCHANGED persisted
      BY <2>2, TypeParts DEF PersistedOK
    <2>3. QED BY <2>1, <2>2 DEF ChangeDaemon, Start, diskVars
  <1>3. /\ where' \in {"main", "wizard"}
        /\ open' \in 0 .. made /\ scanned' \in BOOLEAN /\ told' \in Recoveries
        /\ where' = "main" => open' # NoWallet /\ persisted'.name \in Names
        /\ scanned' => open' # NoWallet /\ where' = "main"
    <2>1. persisted'.recovery \in Recoveries
      BY <1>2 DEF PersistedOK
    <2>2. \A n \in Names : kept[n] \in 0 .. made
      BY TypeParts DEF FilesOK
    <2>3. ASSUME NEW n \in Names, OpenKept(kept[n]), persisted'.name \in Names
          PROVE  /\ where' \in {"main", "wizard"}
                 /\ open' \in 0 .. made /\ scanned' \in BOOLEAN /\ told' \in Recoveries
                 /\ where' = "main" => open' # NoWallet /\ persisted'.name \in Names
                 /\ scanned' => open' # NoWallet /\ where' = "main"
      <3>1. kept[n] \in 0 .. made /\ NoWallet \in 0 .. made
        BY <2>2, TypeParts DEF WalletOK, NoWallet
      <3>2. QED BY <2>1, <2>3, <3>1, OpenKeptTypes
    <2>4. CASE \E n \in Names : FileAccepted(n)
      <3>1. PICK n \in Names : FileAccepted(n)
        BY <2>4
      <3>2. persisted'.name = n
        BY <3>1, TypeParts DEF FileAccepted, PersistedOK
      <3>3. QED BY <2>3, <3>1, <3>2 DEF FileAccepted
    <2>5. CASE ChangeDaemon
      BY <2>3, <2>5 DEF ChangeDaemon, Placed
    <2>6. CASE Start /\ WalletsFound
      <3>1. persisted.name \in Names
        BY <2>6, SettingsFields DEF WalletsFound
      <3>2. QED BY <2>3, <2>6, <3>1 DEF Start, diskVars
    <2>7. CASE Start /\ ~WalletsFound
      <3>1. where' = "wizard" /\ UNCHANGED <<open, scanned, told>>
        BY <2>7 DEF Start, walletVars
      <3>2. open \in 0 .. made /\ told \in Recoveries
        BY TypeParts DEF WalletOK
      <3>3. scanned' \in BOOLEAN
        BY <3>1, TypeParts DEF FlagsOK
      <3>4. ~scanned'
        BY <2>7, <3>1 DEF Placed, Start
      <3>5. QED BY <3>1, <3>2, <3>3, <3>4
    <2>8. QED BY <2>4, <2>5, <2>6, <2>7
  <1>4. PagesOK' /\ SettingsOK' /\ habits' \in Users
    BY <1>1, <1>3, TypeParts DEF PagesOK, SettingsOK
  <1>5. WalletOK'
    BY <1>1, <1>3, TypeParts DEF WalletOK
  <1>6. FlagsOK'
    BY <1>1, <1>3, TypeParts DEF FlagsOK
  <1>7. FilesOK'
    BY <1>1, SavedTypes, TypeParts DEF FilesOK
  <1>8. Placed' /\ NameFree'
    BY <1>1, <1>3 DEF Placed, NameFree
  <1>9. QED BY <1>2, <1>4, <1>5, <1>6, <1>7, <1>8, TypeParts

LEMMA FirstRefreshStep ==
    ASSUME WizardInv, FirstRefresh
    PROVE  WizardInv'
  <1> USE DEF WizardInv, TypesOK
  <1>1. /\ where = "main" /\ scanned' = TRUE /\ isNewWallet' = FALSE
        /\ SaveOpen \/ UNCHANGED <<saved, tmpFiles>>
        /\ persisted' = [persisted EXCEPT !.recovery.recovering = FALSE]
        /\ UNCHANGED <<where, path, page, settings, made, origin, open, told, kept, habits>>
    BY DEF FirstRefresh, wizardVars
  <1>2. PersistedOK' /\ persisted'.name = persisted.name
    <2> DEFINE r == [persisted.recovery EXCEPT !.recovering = FALSE]
    <2>1. r \in Recoveries
      BY SettingsFields DEF Recoveries
    <2>2. persisted' = [name |-> persisted.name, recovery |-> r]
      BY <1>1, TypeParts DEF PersistedOK
    <2>3. QED BY <2>1, <2>2, SettingsFields DEF PersistedOK
  <1>3. open # NoWallet /\ persisted.name \in Names /\ settings.wallet = NoWallet
    BY <1>1 DEF Placed
  <1>4. PagesOK' /\ SettingsOK' /\ habits' \in Users /\ WalletOK'
    BY <1>1, TypeParts DEF PagesOK, SettingsOK, WalletOK
  <1>5. FlagsOK'
    BY <1>1 DEF FlagsOK
  <1>6. FilesOK'
    BY <1>1, <1>3, SavedTypes, TypeParts DEF FilesOK
  <1>7. Placed' /\ NameFree'
    BY <1>1, <1>2, <1>3 DEF Placed, NameFree
  <1>8. QED BY <1>2, <1>4, <1>5, <1>6, <1>7, TypeParts

LEMMA LeaveStep ==
    ASSUME WizardInv, CloseWallet \/ End
    PROVE  WizardInv'
  <1> USE DEF WizardInv, TypesOK
  <1>1. /\ where' \in {"wizard", "off"} /\ page' = 0 /\ path' = "create"
        /\ settings' = NoSettings
        /\ open' = NoWallet /\ scanned' = FALSE /\ isNewWallet' \in {isNewWallet, FALSE}
        /\ SaveOnClose \/ UNCHANGED <<saved, tmpFiles>>
        /\ UNCHANGED <<made, origin, told, kept, persisted, habits>>
    BY DEF CloseWallet, End, Restart
  <1>2. SettingsOK' /\ settings'.wallet = NoWallet
    BY <1>1, RecoveryTypes, TypeParts DEF SettingsOK, NoSettings, NoWallet, WalletOK
  <1>3. PagesOK' /\ PersistedOK' /\ habits' \in Users
    BY <1>1, TypeParts DEF PagesOK, PersistedOK, Finish
  <1>4. WalletOK'
    BY <1>1, TypeParts DEF WalletOK, NoWallet
  <1>5. FlagsOK'
    BY <1>1, TypeParts DEF FlagsOK
  <1>6. FilesOK'
    BY <1>1, SavedTypes, TypeParts DEF FilesOK
  <1>7. Placed' /\ NameFree'
    BY <1>1, <1>2 DEF Placed, NameFree, Form
  <1>8. QED BY <1>2, <1>3, <1>4, <1>5, <1>6, <1>7, TypeParts

LEMMA WizardNext ==
    ASSUME WizardInv, [Next]_vars
    PROVE  WizardInv'
  <1>1. CASE Wizard
    BY <1>1, PageStep, OpenCreateStep, FormStep, RecoverySucceedsStep DEF Wizard
  <1>2. CASE UNCHANGED vars
    BY <1>2 DEF vars, wizardVars, walletVars, diskVars, WizardInv, TypeOK, Placed, NameFree
  <1>3. QED
    BY <1>1, <1>2, UseLetheanStep, FileDialogStep, OpeningStep, FirstRefreshStep, LeaveStep
    DEF Next

\* The variables keep their types: no page beyond the last one, no wallet that was
\* not made.
THEOREM TypeCorrect == Spec => []TypeOK
  <1>1. WizardInv => TypeOK
    BY DEF WizardInv
  <1>2. QED BY <1>1, WizardInit, WizardNext, PTL DEF Spec

-----------------------------------------------------------------------------
(* Files the user has.                                                      *)

\* Only "Use Lethean" writes a wallet file.
LEMMA KeptOnlyStored ==
    [Next]_vars => UseLethean \/ UNCHANGED kept
  BY DEF Next, Wizard, vars, wizardVars, walletVars, diskVars, NextPage, PreviousPage,
     OpenCreateWalletPage, OpenRecoveryWalletPage, CloseCreatePage, RecoveryNameTaken,
     RecoverySucceeds, RecoveryFails, OpenWalletFromFile, FileAccepted, FileRejected,
     FirstRefresh, ChangeDaemon, CloseWallet, End, Start

LEMMA UserStays == [Next]_vars => UNCHANGED habits
  BY DEF Next, Wizard, vars, NextPage, PreviousPage,
     OpenCreateWalletPage, OpenRecoveryWalletPage, CloseCreatePage, RecoveryNameTaken,
     RecoverySucceeds, RecoveryFails, UseLethean, OpenWalletFromFile, FileAccepted, FileRejected,
     FirstRefresh, ChangeDaemon, CloseWallet, End, Start

LEMMA UseLetheanStores ==
    ASSUME WizardInv, UseLethean
    PROVE  /\ settings.name \in Names /\ kept[settings.name] = NoWallet
           /\ open # NoWallet /\ settings.wallet = open
           /\ \A n \in Names \ {settings.name} : kept'[n] = kept[n]
           /\ kept'[settings.name] \in {open, NoWallet}
           /\ "diskFails" \notin habits => kept'[settings.name] = open
  <1>1. settings.name \in Names /\ kept[settings.name] = NoWallet
        /\ settings.wallet = open /\ open # NoWallet
    BY DEF WizardInv, NameFree, UseLethean, InWizard, Form, Finish
  <1>2. kept \in [Names -> 0 .. made]
    BY DEF WizardInv, TypeOK
  <1>3. \/ kept' = [kept EXCEPT ![settings.name] = open]
        \/ "diskFails" \in habits /\ kept' = kept
    BY <1>1 DEF UseLethean, ApplySettings, Store
  <1>4. QED BY <1>1, <1>2, <1>3

\* No wallet file is ever replaced: the name tested when the form was left is still
\* free when applySettings stores, whatever the user did in between.
THEOREM FilesAreNeverReplaced == Spec => KeptFilesStay
  <1>1. WizardInv /\ [Next]_vars
          => [\A n \in Names : kept[n] # NoWallet => kept'[n] = kept[n]]_vars
    BY KeptOnlyStored, UseLetheanStores
  <1>2. QED BY <1>1, WizardInit, WizardNext, PTL DEF Spec, KeptFilesStay

-----------------------------------------------------------------------------
(* The wallet in use.                                                       *)

\* The steps that show the main window, or stay in it.
LEMMA MainSteps ==
    ASSUME [Next]_vars, where' = "main"
    PROVE  \/ UseLethean \/ ChangeDaemon \/ FirstRefresh \/ Start
           \/ \E n \in Names : FileAccepted(n)
           \/ UNCHANGED vars
  BY DEF Next, Wizard, NextPage, PreviousPage,
     OpenCreateWalletPage, OpenRecoveryWalletPage, CloseCreatePage, RecoveryNameTaken,
     RecoverySucceeds, RecoveryFails, OpenWalletFromFile, FileRejected, CloseWallet, End, InWizard

LEMMA InUseNext ==
    ASSUME WizardInv, WalletInUseIsKept, [Next]_vars
    PROVE  WalletInUseIsKept'
  <1> SUFFICES ASSUME where' = "main", "diskFails" \notin habits
               PROVE  persisted'.name # "none" /\ kept'[persisted'.name] = open'
    BY UserStays DEF WalletInUseIsKept
  <1> USE DEF WizardInv
  <1>0. PersistedOK /\ "none" \notin Names
    BY TypeParts, WizardAssumption DEF TypesOK
  <1>1. CASE UseLethean
    <2>1. persisted'.name = settings.name /\ open' = open
      BY <1>1 DEF UseLethean, ApplySettings
    <2>2. QED BY <1>0, <1>1, <2>1, UseLetheanStores
  <1>2. CASE ChangeDaemon
    BY <1>2 DEF ChangeDaemon, OpenKept, WalletInUseIsKept
  <1>3. CASE FirstRefresh
    <2>1. persisted'.name = persisted.name
      BY <1>0, <1>3 DEF FirstRefresh, PersistedOK
    <2>2. QED BY <1>3, <2>1 DEF FirstRefresh, WalletInUseIsKept
  <1>4. CASE Start
    BY <1>4 DEF Start, WalletsFound, OpenKept, diskVars
  <1>5. CASE \E n \in Names : FileAccepted(n)
    <2>1. PICK n \in Names : FileAccepted(n)
      BY <1>5
    <2>2. persisted'.name = n
      BY <1>0, <2>1 DEF FileAccepted, PersistedOK
    <2>3. QED BY <1>0, <2>1, <2>2 DEF FileAccepted, OpenKept
  <1>6. CASE UNCHANGED vars
    BY <1>6 DEF vars, walletVars, diskVars, WalletInUseIsKept
  <1>7. QED BY <1>1, <1>2, <1>3, <1>4, <1>5, <1>6, MainSteps

LEMMA InUseInit == Init => WalletInUseIsKept
  BY DEF Init, WalletInUseIsKept

\* On a disk that works, the wallet of the main window is on disk under the path
\* that the next start will open.
THEOREM NextStartFindsWallet == Spec => []WalletInUseIsKept
  BY WizardInit, WizardNext, InUseInit, InUseNext, PTL DEF Spec

\* On any disk: no other wallet is under the path of the wallet in use, so what is
\* opened from there again is that wallet or none.
KeptOrNone == where = "main" => kept[persisted.name] \in {open, NoWallet}

LEMMA KeptOrNoneInit == Init => KeptOrNone
  BY DEF Init, KeptOrNone

LEMMA KeptOrNoneNext ==
    ASSUME WizardInv, KeptOrNone, [Next]_vars
    PROVE  KeptOrNone'
  <1> SUFFICES ASSUME where' = "main"
               PROVE  kept'[persisted'.name] \in {open', NoWallet}
    BY DEF KeptOrNone
  <1> USE DEF WizardInv
  <1>0. PersistedOK
    BY TypeParts DEF TypesOK
  <1>1. CASE UseLethean
    <2>1. persisted'.name = settings.name /\ open' = open
      BY <1>1 DEF UseLethean, ApplySettings
    <2>2. QED BY <1>1, <2>1, UseLetheanStores
  <1>2. CASE ChangeDaemon
    BY <1>2 DEF ChangeDaemon, OpenKept
  <1>3. CASE FirstRefresh
    <2>1. persisted'.name = persisted.name
      BY <1>0, <1>3 DEF FirstRefresh, PersistedOK
    <2>2. QED BY <1>3, <2>1 DEF FirstRefresh, KeptOrNone
  <1>4. CASE Start
    BY <1>4 DEF Start, OpenKept, diskVars
  <1>5. CASE \E n \in Names : FileAccepted(n)
    <2>1. PICK n \in Names : FileAccepted(n)
      BY <1>5
    <2>2. persisted'.name = n
      BY <1>0, <2>1 DEF FileAccepted, PersistedOK
    <2>3. QED BY <2>1, <2>2 DEF FileAccepted, OpenKept
  <1>6. CASE UNCHANGED vars
    BY <1>6 DEF vars, walletVars, diskVars, KeptOrNone
  <1>7. QED BY <1>1, <1>2, <1>3, <1>4, <1>5, <1>6, MainSteps

\* Who neither restarts the program nor opens files sees the wizard and the main
\* window only.
TwoPlaces ==
    habits \cap {"restarts", "opensFile"} = {} => where \in {"wizard", "main"}

LEMMA TwoPlacesNext == TwoPlaces /\ [Next]_vars => TwoPlaces'
  BY DEF TwoPlaces, Next, Wizard, vars, NextPage, PreviousPage,
     OpenCreateWalletPage, OpenRecoveryWalletPage, CloseCreatePage, RecoveryNameTaken,
     RecoverySucceeds, RecoveryFails, UseLethean, OpenWalletFromFile, FileAccepted, FileRejected,
     FirstRefresh, ChangeDaemon, OpenKept, CloseWallet, End, Start, InWizard

\* Without a restart and without other files, a wallet that has scanned anything is
\* on disk: it still has the flag until its first refresh stores it.
FlaggedUntilStored ==
    habits \subseteq {"stepsBack"} /\ where = "main" /\ (scanned \/ ~isNewWallet) =>
        open \in saved

LEMMA FlaggedNext ==
    ASSUME WizardInv, KeptOrNone, FlaggedUntilStored, TwoPlaces, [Next]_vars
    PROVE  FlaggedUntilStored'
  <1> SUFFICES ASSUME where' = "main", habits \subseteq {"stepsBack"},
                      scanned' \/ ~isNewWallet'
               PROVE  open' \in saved'
    BY UserStays DEF FlaggedUntilStored
  <1>0. where \in {"wizard", "main"}
    BY DEF TwoPlaces
  <1>1. CASE UseLethean
    <2>1. scanned' = scanned /\ isNewWallet' = TRUE /\ where = "wizard"
      BY <1>1 DEF UseLethean, InWizard
    <2>2. QED BY <2>1 DEF WizardInv, Placed
  <1>2. CASE ChangeDaemon
    <2>1. open' = open /\ scanned' = (open \in saved') /\ isNewWallet' = isNewWallet
          /\ where = "main"
      BY <1>2 DEF ChangeDaemon, OpenKept, KeptOrNone
    <2>2. saved \subseteq saved'
      BY <1>2, SavedTypes DEF ChangeDaemon, WizardInv
    <2>3. QED BY <2>1, <2>2 DEF FlaggedUntilStored
  <1>3. CASE FirstRefresh
    BY <1>3 DEF FirstRefresh, SaveOpen, FlaggedUntilStored
  <1>4. CASE UNCHANGED vars
    BY <1>4 DEF vars, walletVars, diskVars, FlaggedUntilStored
  <1>5. QED BY <1>0, <1>1, <1>2, <1>3, <1>4, MainSteps DEF Start, FileAccepted

\* As long as the program is not restarted and opens no other wallet, and the disk
\* works, a wallet that has scanned the chain is on disk, however often the user
\* stepped back, closed it or changed the daemon: a crash does not cost the scan.
THEOREM FirstScanIsSaved == Spec => []FirstRunSaved
  <1> DEFINE Inv == WizardInv /\ KeptOrNone /\ FlaggedUntilStored /\ TwoPlaces
  <1>1. Init => Inv
    BY WizardInit, KeptOrNoneInit DEF Init, FlaggedUntilStored, TwoPlaces
  <1>2. Inv /\ [Next]_vars => Inv'
    BY WizardNext, KeptOrNoneNext, FlaggedNext, TwoPlacesNext
  <1>3. Inv => FirstRunSaved
    BY DEF FirstRunSaved, RefreshedWalletSaved, FlaggedUntilStored
  <1>4. QED BY <1>1, <1>2, <1>3, PTL DEF Spec

-----------------------------------------------------------------------------
(* What the wizard speaks of.                                               *)

\* Past the form, and at the form of a new wallet, the settings speak of the open
\* wallet and its temporary file; past the form also of its kind.
Chosen ==
    where = "wizard" /\ "diskFails" \notin habits =>
        /\ page > Form \/ (page = Form /\ path = "create") =>
              /\ open # NoWallet /\ settings.wallet = open /\ settings.tmp = open
              /\ origin[open].recovering = (path = "recovery")
        /\ page > Form /\ path = "recovery" => settings.recovery = origin[open]

LEMMA NewOrigin ==
    ASSUME TypeOK, NEW r \in Recoveries, NewWallet(r)
    PROVE  origin'[open'] = r /\ open' = made + 1 /\ open' # NoWallet
  BY WizardAssumption DEF TypeOK, NewWallet, Wallets, NoWallet

LEMMA ChosenNext ==
    ASSUME WizardInv, Chosen, [Next]_vars
    PROVE  Chosen'
  <1> SUFFICES ASSUME where' = "wizard", "diskFails" \notin habits
               PROVE  Chosen'
    BY UserStays DEF Chosen
  <1> USE DEF WizardInv
  <1>1. CASE NextPage \/ PreviousPage
    BY <1>1 DEF NextPage, PreviousPage, InWizard, walletVars, diskVars, Chosen, Form, Finish, TypeOK
  <1>2. CASE OpenCreateWalletPage
    <2>1. NewWallet(Fresh) /\ origin'[open'] = Fresh /\ open' = made + 1 /\ open' # NoWallet
      BY <1>2, NewOrigin, RecoveryTypes DEF OpenCreateWalletPage
    <2>2. path' = "create" /\ page' = Form
          /\ settings' = [settings EXCEPT !.wallet = made + 1, !.tmp = made + 1]
      BY <1>2 DEF OpenCreateWalletPage
    <2>3. settings'.wallet = open' /\ settings'.tmp = open'
      BY <2>1, <2>2, TypeParts DEF TypesOK, SettingsOK
    <2>4. origin'[open'].recovering = FALSE /\ ~(path' = "recovery") /\ ~(page' > Form)
      BY <2>1, <2>2 DEF Fresh, Form
    <2>5. QED BY <2>1, <2>3, <2>4 DEF Chosen
  <1>3. CASE OpenRecoveryWalletPage
    BY <1>3 DEF OpenRecoveryWalletPage, Chosen, Form
  <1>4. CASE \E n \in Names : CloseCreatePage(n)
    <2>1. PICK n \in Names : CloseCreatePage(n)
      BY <1>4
    <2>2. /\ path = "create" /\ path' = path /\ where = "wizard" /\ page = Form
          /\ settings' = [settings EXCEPT !.name = n] /\ UNCHANGED <<origin, open>>
      BY <2>1 DEF CloseCreatePage, InWizard, walletVars
    <2>3. settings'.wallet = settings.wallet /\ settings'.tmp = settings.tmp
      BY <2>2, TypeParts DEF TypesOK, SettingsOK
    <2>4. QED BY <2>2, <2>3 DEF Chosen
  <1>5. CASE \E n \in Names, h \in Heights : RecoveryNameTaken(n, h) \/ RecoveryFails(n, h)
    BY <1>5 DEF RecoveryNameTaken, RecoveryFails, InWizard, Chosen, Form
  <1>6. CASE \E n \in Names, h \in Heights : RecoverySucceeds(n, h)
    <2>1. PICK n \in Names, h \in Heights : RecoverySucceeds(n, h)
      BY <1>6
    <2> DEFINE r == [recovering |-> TRUE, height |-> h]
    <2>2. origin'[open'] = r /\ open' = made + 1 /\ open' # NoWallet
      BY <2>1, NewOrigin, RecoveryTypes DEF RecoverySucceeds
    <2>3. settings' = [wallet |-> made + 1, tmp |-> made + 1, name |-> n, recovery |-> r]
          /\ path' = "recovery"
      BY <2>1 DEF RecoverySucceeds
    <2>4. settings'.wallet = open' /\ settings'.tmp = open' /\ settings'.recovery = origin'[open']
      BY <2>2, <2>3
    <2>5. origin'[open'].recovering = TRUE /\ path' = "recovery"
      BY <2>2, <2>3
    <2>6. QED BY <2>2, <2>4, <2>5 DEF Chosen
  <1>7. CASE OpenWalletFromFile \/ FileRejected \/ \E n \in Names : FileAccepted(n)
    <2>1. page' = Options
      BY <1>7 DEF OpenWalletFromFile, FileRejected, FileAccepted, InWizard, wizardVars, Placed
    <2>2. QED BY <2>1 DEF Chosen, Options, Form
  <1>8. CASE CloseWallet \/ Start
    <2>1. page' = 0
      BY <1>8 DEF CloseWallet, Start, Restart, wizardVars, Placed
    <2>2. QED BY <2>1 DEF Chosen, Form
  <1>9. CASE UNCHANGED vars
    BY <1>9 DEF vars, walletVars, wizardVars, Chosen
  <1>10. ~(UseLethean \/ FirstRefresh \/ ChangeDaemon \/ End)
    BY DEF UseLethean, FirstRefresh, ChangeDaemon, End
  <1>11. QED
    BY <1>1, <1>2, <1>3, <1>4, <1>5, <1>6, <1>7, <1>8, <1>9, <1>10 DEF Next, Wizard

\* Past the form the wizard speaks of the open wallet, of the kind the user has
\* chosen, in the temporary file that will be deleted.
THEOREM FinishIsRight == Spec => []FinishIsAboutOpenWallet
  <1>1. Init => Chosen
    BY DEF Init, Chosen, Form
  <1>2. WizardInv /\ Chosen => FinishIsAboutOpenWallet
    BY DEF FinishIsAboutOpenWallet, Chosen
  <1>3. WizardInv /\ Chosen /\ [Next]_vars => Chosen'
    BY ChosenNext
  <1>4. QED BY <1>1, <1>2, <1>3, WizardInit, WizardNext, PTL DEF Spec

-----------------------------------------------------------------------------
(* Temporary files.                                                         *)

\* The one temporary file of a user who goes forward is that of the wizard's wallet.
OneTemporaryFile ==
    habits \subseteq {"opensFile"} /\ tmpFiles # {} =>
        /\ where = "wizard"
        /\ page > Form \/ (page = Form /\ path = "create")
        /\ tmpFiles = {settings.tmp}

\* The program is on for who does not end it.
StaysOn == "restarts" \notin habits => where # "off"

LEMMA StaysOnNext == StaysOn /\ [Next]_vars => StaysOn'
  BY DEF StaysOn, Next, Wizard, vars, NextPage, PreviousPage,
     OpenCreateWalletPage, OpenRecoveryWalletPage, CloseCreatePage, RecoveryNameTaken,
     RecoverySucceeds, RecoveryFails, UseLethean, OpenWalletFromFile, FileAccepted, FileRejected,
     FirstRefresh, ChangeDaemon, OpenKept, CloseWallet, End, Start, InWizard

\* A wallet in use is saved where it is kept.
LEMMA SavedInPlace ==
    ASSUME WizardInv, WalletInUseIsKept, "diskFails" \notin habits, where = "main",
           SaveOpen \/ SaveOnClose \/ UNCHANGED <<saved, tmpFiles>>
    PROVE  UNCHANGED tmpFiles
  BY DEF WizardInv, Placed, WalletInUseIsKept, SaveOpen, SaveOnClose

LEMMA TemporaryNext ==
    ASSUME WizardInv, WalletInUseIsKept, StaysOn, OneTemporaryFile, [Next]_vars
    PROVE  OneTemporaryFile'
  <1> SUFFICES ASSUME habits \subseteq {"opensFile"}, tmpFiles' # {}
               PROVE  OneTemporaryFile'
    BY UserStays DEF OneTemporaryFile
  <1>0. SettingsOK
    BY TypeParts DEF WizardInv, TypesOK
  <1>1. CASE OpenCreateWalletPage
    <2>1. tmpFiles' = {made + 1} /\ page' = Form /\ path' = "create" /\ where' = "wizard"
          /\ settings' = [settings EXCEPT !.wallet = made + 1, !.tmp = made + 1]
      BY <1>1 DEF OpenCreateWalletPage, NewWallet, InWizard, OneTemporaryFile, Options, Form
    <2>2. settings'.tmp = made + 1
      BY <1>0, <2>1 DEF SettingsOK
    <2>3. QED BY <2>1, <2>2 DEF OneTemporaryFile
  <1>2. CASE \E n \in Names, h \in Heights : RecoverySucceeds(n, h)
    <2>1. PICK n \in Names, h \in Heights : RecoverySucceeds(n, h)
      BY <1>2
    <2>2. tmpFiles' = {made + 1} /\ page' = Form + 1 /\ where' = "wizard"
          /\ settings'.tmp = made + 1
      BY <2>1 DEF RecoverySucceeds, NewWallet, InWizard, OneTemporaryFile, Form
    <2>3. QED BY <2>2 DEF OneTemporaryFile, Form
  <1>3. CASE UseLethean
    <2>1. tmpFiles' = tmpFiles \ {settings.tmp}
      BY <1>3 DEF UseLethean, ApplySettings, RemoveTemporary
    <2>2. QED BY <2>1 DEF OneTemporaryFile
  <1>4. CASE NextPage \/ \E n \in Names : CloseCreatePage(n)
    <2>1. settings'.tmp = settings.tmp /\ tmpFiles' = tmpFiles /\ path' = path
          /\ where' = where /\ page' \in {page, page + 1}
      <3>1. CASE NextPage
        BY <3>1 DEF NextPage, diskVars
      <3>2. ASSUME NEW n \in Names, CloseCreatePage(n)
            PROVE  settings'.tmp = settings.tmp /\ tmpFiles' = tmpFiles /\ path' = path
                   /\ where' = where /\ page' \in {page, page + 1}
        BY <1>0, <3>2 DEF CloseCreatePage, InWizard, diskVars, SettingsOK
      <3>3. QED BY <1>4, <3>1, <3>2
    <2>2. page \in Nat
      BY TypeParts DEF WizardInv, TypesOK, PagesOK, Finish
    <2>3. QED BY <2>1, <2>2 DEF OneTemporaryFile, Form
  <1>5. CASE \/ OpenRecoveryWalletPage \/ CloseWallet \/ FirstRefresh \/ ChangeDaemon
             \/ \E n \in Names, h \in Heights : RecoveryNameTaken(n, h) \/ RecoveryFails(n, h)
             \/ OpenWalletFromFile \/ FileRejected \/ \E n \in Names : FileAccepted(n)
    <2>1. /\ tmpFiles' = tmpFiles
          /\ \/ where \in {"main", "file"}
             \/ where = "wizard" /\ (page = Options \/ (page = Form /\ path = "recovery"))
      <3>1. CASE CloseWallet \/ FirstRefresh \/ ChangeDaemon
        <4>1. /\ where = "main"
              /\ SaveOpen \/ SaveOnClose \/ UNCHANGED <<saved, tmpFiles>>
          BY <3>1 DEF CloseWallet, FirstRefresh, ChangeDaemon
        <4>2. QED BY <4>1, SavedInPlace
      <3>2. CASE ~(CloseWallet \/ FirstRefresh \/ ChangeDaemon)
        BY <1>5, <3>2
        DEF OpenRecoveryWalletPage, RecoveryNameTaken, RecoveryFails, OpenWalletFromFile,
            FileRejected, FileAccepted, InWizard, diskVars
      <3>3. QED BY <3>1, <3>2
    <2>2. QED BY <2>1 DEF OneTemporaryFile, Options, Form
  <1>6. CASE UNCHANGED vars
    BY <1>6 DEF vars, wizardVars, diskVars, OneTemporaryFile
  <1>7. ~(PreviousPage \/ End \/ Start)
    BY DEF PreviousPage, End, Start, StaysOn
  <1>8. QED BY <1>1, <1>2, <1>3, <1>4, <1>5, <1>6, <1>7 DEF Next, Wizard

\* A user who neither steps back nor restarts leaves no temporary wallet on disk,
\* whichever wallets are made, saved and opened from files, if the disk works.
THEOREM NoFileIsLeft == Spec => []NoTemporaryFileLeft
  <1> DEFINE Inv == WizardInv /\ WalletInUseIsKept /\ StaysOn /\ OneTemporaryFile
  <1>1. Init => Inv
    BY WizardInit DEF Init, WalletInUseIsKept, OneTemporaryFile, StaysOn
  <1>2. Inv /\ [Next]_vars => Inv'
    BY WizardNext, InUseNext, TemporaryNext, StaysOnNext
  <1>3. Inv => NoTemporaryFileLeft
    BY DEF NoTemporaryFileLeft, OneTemporaryFile
  <1>4. QED BY <1>1, <1>2, <1>3, PTL DEF Spec

-----------------------------------------------------------------------------
(* Where the scan starts.                                                   *)

\* What is said of a wallet's recovery is what the user has entered.
Agree(r, w) ==
    /\ r.recovering = origin[w].recovering
    /\ r.recovering => r.height = origin[w].height

\* Until a wallet is saved it has the flag, and what is persisted of its recovery
\* is right; before that, the wizard's settings are.
ScanInv ==
    habits = {} =>
        /\ where = "wizard" /\ page <= Form => settings.recovery.recovering = FALSE
        /\ where = "wizard" /\ settings.wallet # NoWallet =>
              Agree(settings.recovery, settings.wallet)
        /\ where = "main" =>
              /\ page = Finish
              /\ kept[persisted.name] \in {open, NoWallet}
              /\ open \in saved \/ (isNewWallet /\ Agree(persisted.recovery, open))
              /\ ~scanned => Agree(told, open)

LEMMA ScanNext ==
    ASSUME WizardInv, TwoPlaces, ScanInv, [Next]_vars
    PROVE  ScanInv'
  <1> SUFFICES ASSUME habits = {}
               PROVE  ScanInv'
    BY UserStays DEF ScanInv
  <1> USE DEF WizardInv
  <1>0. /\ SettingsOK /\ PersistedOK /\ where \in {"wizard", "main"}
        /\ open \in 0 .. made /\ page \in Nat
    BY TypeParts DEF TypesOK, TwoPlaces, WalletOK, PagesOK, Finish
  <1>1. CASE NextPage \/ OpenRecoveryWalletPage
    <2>1. /\ where = "wizard" /\ where' = "wizard" /\ page' = page + 1
          /\ UNCHANGED <<settings, origin>>
      BY <1>1 DEF NextPage, OpenRecoveryWalletPage, InWizard, Options, Form
    <2>2. QED BY <1>0, <2>1 DEF ScanInv, Agree, Form
  <1>2. CASE OpenCreateWalletPage
    <2>1. /\ NewWallet(Fresh) /\ where = "wizard" /\ where' = "wizard" /\ page = Options
          /\ settings' = [settings EXCEPT !.wallet = made + 1, !.tmp = made + 1]
      BY <1>2 DEF OpenCreateWalletPage, InWizard
    <2>2. origin'[made + 1] = Fresh
      BY <2>1, NewOrigin, RecoveryTypes
    <2>3. settings.recovery.recovering = FALSE
      BY <2>1 DEF ScanInv, Options, Form
    <2>4. settings'.wallet = made + 1 /\ settings'.recovery = settings.recovery
      BY <1>0, <2>1 DEF SettingsOK
    <2>5. Agree(settings.recovery, settings.wallet)'
      <3>1. settings'.recovery.recovering = FALSE
        BY <2>3, <2>4
      <3>2. origin'[settings'.wallet].recovering = FALSE
        BY <2>2, <2>4 DEF Fresh
      <3>3. QED BY <3>1, <3>2 DEF Agree
    <2>6. QED BY <2>1, <2>3, <2>4, <2>5 DEF ScanInv
  <1>3. CASE \E n \in Names : CloseCreatePage(n)
    <2>1. PICK n \in Names : CloseCreatePage(n)
      BY <1>3
    <2>2. /\ where = "wizard" /\ where' = "wizard" /\ page = Form
          /\ settings' = [settings EXCEPT !.name = n] /\ UNCHANGED origin
      BY <2>1 DEF CloseCreatePage, InWizard
    <2>3. settings'.wallet = settings.wallet /\ settings'.recovery = settings.recovery
      BY <1>0, <2>2 DEF SettingsOK
    <2>4. QED BY <2>2, <2>3 DEF ScanInv, Agree, Form
  <1>4. CASE \E n \in Names, h \in Heights : RecoveryNameTaken(n, h) \/ RecoveryFails(n, h)
    <2>1. PICK n \in Names, h \in Heights : RecoveryNameTaken(n, h) \/ RecoveryFails(n, h)
      BY <1>4
    <2>2. /\ where = "wizard" /\ where' = "wizard" /\ page = Form
          /\ settings' = [settings EXCEPT !.name = n, !.recovery.height = h] /\ UNCHANGED origin
      BY <2>1 DEF RecoveryNameTaken, RecoveryFails, InWizard
    <2>3. /\ settings'.wallet = settings.wallet
          /\ settings'.recovery.recovering = settings.recovery.recovering
      BY <1>0, <2>2 DEF SettingsOK, Recoveries
    <2>4. settings.recovery.recovering = FALSE
      BY <2>2 DEF ScanInv, Form
    <2>5. QED BY <2>2, <2>3, <2>4 DEF ScanInv, Agree
  <1>5. CASE \E n \in Names, h \in Heights : RecoverySucceeds(n, h)
    <2>1. PICK n \in Names, h \in Heights : RecoverySucceeds(n, h)
      BY <1>5
    <2> DEFINE r == [recovering |-> TRUE, height |-> h]
    <2>2. origin'[made + 1] = r
      BY <2>1, NewOrigin, RecoveryTypes DEF RecoverySucceeds
    <2>3. settings' = [wallet |-> made + 1, tmp |-> made + 1, name |-> n, recovery |-> r]
          /\ where' = "wizard" /\ page' = Form + 1
      BY <2>1 DEF RecoverySucceeds, InWizard
    <2>4. Agree(settings.recovery, settings.wallet)'
      BY <2>2, <2>3 DEF Agree
    <2>5. QED BY <2>3, <2>4 DEF ScanInv, Form
  <1>6. CASE UseLethean
    <2>1. /\ where = "wizard" /\ where' = "main" /\ page' = Finish /\ isNewWallet' = TRUE
          /\ settings.wallet = open /\ open # NoWallet
          /\ told' = settings.recovery /\ persisted'.recovery = settings.recovery
          /\ persisted'.name = settings.name
          /\ UNCHANGED <<origin, open>>
      BY <1>6 DEF UseLethean, ApplySettings, InWizard
    <2>2. kept'[persisted'.name] \in {open', NoWallet}
      BY <1>6, <2>1, UseLetheanStores
    <2>3. Agree(settings.recovery, open)
      BY <2>1 DEF ScanInv
    <2>4. Agree(told, open)' /\ Agree(persisted.recovery, open)'
      BY <2>1, <2>3 DEF Agree
    <2>5. QED BY <2>1, <2>2, <2>4 DEF ScanInv
  <1>7. CASE FirstRefresh
    <2>1. /\ where = "main" /\ where' = "main" /\ scanned' = TRUE
          /\ saved' = IF isNewWallet THEN saved \cup {open} ELSE saved
          /\ persisted' = [persisted EXCEPT !.recovery.recovering = FALSE]
          /\ UNCHANGED <<page, open, kept>>
      BY <1>7 DEF FirstRefresh, SaveOpen, wizardVars
    <2>2. persisted'.name = persisted.name
      BY <1>0, <2>1 DEF PersistedOK
    <2>3. open' \in saved'
      BY <2>1 DEF ScanInv
    <2>4. QED BY <2>1, <2>2, <2>3 DEF ScanInv
  <1>8. CASE ChangeDaemon
    <2>1. /\ where = "main" /\ settings.wallet = NoWallet
          /\ OpenKept(kept[persisted.name]) /\ saved \subseteq saved'
          /\ UNCHANGED <<page, settings, origin, isNewWallet, kept, persisted>>
      BY <1>8, SavedTypes DEF ChangeDaemon, Placed, wizardVars
    <2>2. CASE where' = "main"
      <3>1. open' = open /\ scanned' = (open \in saved') /\ told' = persisted.recovery
        BY <2>1, <2>2 DEF OpenKept, ScanInv
      <3>2. open' \in saved' \/ (isNewWallet' /\ Agree(persisted.recovery, open)')
        BY <2>1, <3>1 DEF ScanInv, Agree
      <3>3. ~scanned' => Agree(told, open)'
        BY <2>1, <3>1, <3>2 DEF Agree
      <3>4. QED BY <2>1, <2>2, <3>1, <3>2, <3>3 DEF ScanInv
    <2>3. CASE where' = "wizard"
      BY <2>1, <2>3 DEF ScanInv, Form, Finish
    <2>4. QED BY <2>1, <2>2, <2>3 DEF OpenKept
  <1>9. CASE CloseWallet
    BY <1>9 DEF CloseWallet, Restart, NoSettings, ScanInv, Fresh
  <1>10. CASE UNCHANGED vars
    BY <1>10 DEF vars, wizardVars, walletVars, diskVars, ScanInv, Agree
  <1>11. ~(PreviousPage \/ OpenWalletFromFile \/ FileRejected \/ End \/ Start
           \/ \E n \in Names : FileAccepted(n))
    BY <1>0 DEF PreviousPage, OpenWalletFromFile, FileRejected, End, Start, FileAccepted
  <1>12. QED
    BY <1>1, <1>2, <1>3, <1>4, <1>5, <1>6, <1>7, <1>8, <1>9, <1>10, <1>11 DEF Next, Wizard

\* Of a user who may also step back: a wallet under way to the main window that was
\* recovered is not taken for a created one, past the form the settings say how it
\* was recovered, and so does what is persisted until the wallet is saved.
RecoveryTold ==
    habits \subseteq {"stepsBack"} =>
        /\ where = "wizard" /\ settings.wallet # NoWallet =>
              /\ page >= Form /\ path = "create" => ~origin[settings.wallet].recovering
              /\ page > Form /\ origin[settings.wallet].recovering =>
                    settings.recovery = origin[settings.wallet]
        /\ where = "main" /\ origin[open].recovering =>
              /\ open \in saved \/ (isNewWallet /\ persisted.recovery = origin[open])
              /\ ~scanned => told = origin[open]

LEMMA RecoveryToldNext ==
    ASSUME WizardInv, TwoPlaces, KeptOrNone, RecoveryTold, [Next]_vars
    PROVE  RecoveryTold'
  <1> SUFFICES ASSUME habits \subseteq {"stepsBack"}
               PROVE  RecoveryTold'
    BY UserStays DEF RecoveryTold
  <1> USE DEF WizardInv
  <1>0. /\ SettingsOK /\ PersistedOK /\ where \in {"wizard", "main"}
        /\ open \in 0 .. made /\ page \in Nat
    BY TypeParts DEF TypesOK, TwoPlaces, WalletOK, PagesOK, Finish
  <1>1. CASE NextPage \/ PreviousPage
    <2>1. /\ where = "wizard" /\ where' = "wizard"
          /\ page' >= Form => page >= Form
          /\ page' > Form => page >= Form /\ (page > Form \/ path = "create")
          /\ UNCHANGED <<path, settings, origin>>
      BY <1>0, <1>1 DEF NextPage, PreviousPage, InWizard, Form
    <2>2. QED BY <1>0, <2>1 DEF RecoveryTold
  <1>2. CASE OpenRecoveryWalletPage
    BY <1>2 DEF OpenRecoveryWalletPage, InWizard, RecoveryTold, Form
  <1>3. CASE OpenCreateWalletPage
    <2>1. /\ NewWallet(Fresh) /\ where' = "wizard"
          /\ settings' = [settings EXCEPT !.wallet = made + 1, !.tmp = made + 1]
      BY <1>3 DEF OpenCreateWalletPage, InWizard
    <2>2. origin'[made + 1] = Fresh
      BY <2>1, NewOrigin, RecoveryTypes
    <2>3. settings'.wallet = made + 1
      BY <1>0, <2>1 DEF SettingsOK
    <2>4. ~origin'[settings'.wallet].recovering
      BY <2>2, <2>3 DEF Fresh
    <2>5. QED BY <2>1, <2>4 DEF RecoveryTold
  <1>4. CASE \E n \in Names : CloseCreatePage(n)
    <2>1. PICK n \in Names : CloseCreatePage(n)
      BY <1>4
    <2>2. /\ where = "wizard" /\ where' = "wizard" /\ page = Form /\ path = "create"
          /\ settings' = [settings EXCEPT !.name = n] /\ UNCHANGED origin
      BY <2>1 DEF CloseCreatePage, InWizard
    <2>3. settings'.wallet = settings.wallet
      BY <1>0, <2>2 DEF SettingsOK
    <2>4. settings.wallet # NoWallet => ~origin[settings.wallet].recovering
      BY <1>0, <2>2 DEF RecoveryTold, Form
    <2>5. QED BY <2>2, <2>3, <2>4 DEF RecoveryTold
  <1>5. CASE \E n \in Names, h \in Heights : RecoveryNameTaken(n, h) \/ RecoveryFails(n, h)
    <2>1. where' = "wizard" /\ page' = Form /\ path' = "recovery"
      BY <1>5 DEF RecoveryNameTaken, RecoveryFails, InWizard
    <2>2. QED BY <2>1 DEF RecoveryTold, Form
  <1>6. CASE \E n \in Names, h \in Heights : RecoverySucceeds(n, h)
    <2>1. PICK n \in Names, h \in Heights : RecoverySucceeds(n, h)
      BY <1>6
    <2> DEFINE r == [recovering |-> TRUE, height |-> h]
    <2>2. origin'[made + 1] = r
      BY <2>1, NewOrigin, RecoveryTypes DEF RecoverySucceeds
    <2>3. settings' = [wallet |-> made + 1, tmp |-> made + 1, name |-> n, recovery |-> r]
          /\ where' = "wizard" /\ path' = "recovery"
      BY <2>1 DEF RecoverySucceeds, InWizard
    <2>4. settings'.recovery = origin'[settings'.wallet]
      BY <2>2, <2>3
    <2>5. QED BY <2>3, <2>4 DEF RecoveryTold
  <1>7. CASE UseLethean
    <2>1. /\ where = "wizard" /\ where' = "main" /\ page = Finish /\ isNewWallet' = TRUE
          /\ settings.wallet = open /\ open # NoWallet
          /\ told' = settings.recovery /\ persisted'.recovery = settings.recovery
          /\ UNCHANGED <<origin, open>>
      BY <1>7 DEF UseLethean, ApplySettings, InWizard
    <2>2. origin[open].recovering => settings.recovery = origin[open]
      BY <2>1 DEF RecoveryTold, Form, Finish
    <2>3. QED BY <2>1, <2>2 DEF RecoveryTold
  <1>8. CASE FirstRefresh
    <2>1. /\ where = "main" /\ where' = "main" /\ scanned' = TRUE
          /\ saved' = IF isNewWallet THEN saved \cup {open} ELSE saved
          /\ UNCHANGED <<open, origin>>
      BY <1>8 DEF FirstRefresh, SaveOpen
    <2>2. origin[open].recovering => open' \in saved'
      BY <2>1 DEF RecoveryTold
    <2>3. QED BY <2>1, <2>2 DEF RecoveryTold
  <1>9. CASE ChangeDaemon
    <2>1. /\ where = "main" /\ settings.wallet = NoWallet
          /\ OpenKept(kept[persisted.name]) /\ saved \subseteq saved'
          /\ UNCHANGED <<settings, origin, isNewWallet, persisted>>
      BY <1>9, SavedTypes DEF ChangeDaemon, Placed, wizardVars
    <2>2. CASE where' = "main"
      <3>1. open' = open /\ scanned' = (open \in saved') /\ told' = persisted.recovery
        BY <2>1, <2>2 DEF OpenKept, KeptOrNone
      <3>2. QED BY <2>1, <2>2, <3>1 DEF RecoveryTold
    <2>3. CASE where' = "wizard"
      BY <2>1, <2>3 DEF RecoveryTold
    <2>4. QED BY <2>1, <2>2, <2>3 DEF OpenKept
  <1>10. CASE CloseWallet
    BY <1>10 DEF CloseWallet, Restart, NoSettings, RecoveryTold
  <1>11. CASE UNCHANGED vars
    BY <1>11 DEF vars, wizardVars, walletVars, diskVars, RecoveryTold
  <1>12. ~(\/ OpenWalletFromFile \/ FileRejected \/ End \/ Start
           \/ \E n \in Names : FileAccepted(n))
    BY <1>0 DEF OpenWalletFromFile, FileRejected, End, Start, FileAccepted
  <1>13. QED
    BY <1>1, <1>2, <1>3, <1>4, <1>5, <1>6, <1>7, <1>8, <1>9, <1>10, <1>11, <1>12
    DEF Next, Wizard

\* A recovered wallet that has scanned nothing is told so, and from which height, as
\* the user has entered it, however often the user stepped back; a new wallet of a
\* user who never steps back is told that it is new.  The disk must work.
THEOREM ScanIsRight == Spec => []ScanStartsRight
  <1> DEFINE Inv == WizardInv /\ TwoPlaces /\ KeptOrNone /\ ScanInv /\ RecoveryTold
  <1>1. Init => Inv
    BY WizardInit, KeptOrNoneInit
    DEF Init, ScanInv, RecoveryTold, TwoPlaces, NoSettings, Fresh
  <1>2. Inv /\ [Next]_vars => Inv'
    BY WizardNext, ScanNext, RecoveryToldNext, TwoPlacesNext, KeptOrNoneNext
  <1>3. Inv => ScanStartsRight
    BY DEF ScanStartsRight, ScanInv, RecoveryTold, Agree
  <1>4. QED BY <1>1, <1>2, <1>3, PTL DEF Spec
=============================================================================
