------------------------------- MODULE Wallet -------------------------------
(***************************************************************************)
(* The coin wallet of one user: reward_wallets (one JSON row per user) and *)
(* reward_ledger (one row per confirmed event or purchase).  Every writer  *)
(* runs inside the user's transaction (withUserTx), so one action here is  *)
(* one committed transaction or one award made inside a larger one.        *)
(*                                                                         *)
(* Ledger rows "task:ID" and "focus:ID" are unique per user; they are kept *)
(* as the sets of rewarded tasks and sessions.  Purchase rows carry a      *)
(* fresh uuid each and are kept as their running total, ledger.spent.      *)
(***************************************************************************)
EXTENDS Naturals, FiniteSets

CONSTANTS
    Tasks,          \* ids of the user's tasks (BIGSERIAL, never reused)
    Sessions,       \* ids of the user's Pomodoro sessions
    StartCoins,     \* coins of a new wallet
    TaskCoins,      \* coins of the first completion of a task
    FocusCoins,     \* coins of a counted session
    Themes,         \* catalogue themes
    Sounds,         \* catalogue sounds
    Price,          \* catalogue price of each theme and sound
    RewardIds,      \* uuids of personal rewards
    RewardPrices,   \* prices a personal reward is given (1..1000000)
    MinPrice,       \* least price of a reward created on the server (10)
    MaxRewards,     \* personal rewards per account
    Default         \* the theme and the sound every account has

Items == Themes \cup Sounds

ASSUME WalletAssumption ==
    /\ IsFiniteSet(Tasks) /\ IsFiniteSet(Sessions) /\ IsFiniteSet(RewardIds)
    /\ {StartCoins, TaskCoins, FocusCoins, MaxRewards, MinPrice} \subseteq Nat
    /\ Price \in [Items -> Nat \ {0}]
    /\ RewardPrices \subseteq Nat \ {0}
    /\ Default \notin Items

VARIABLES
    wallet,     \* reward_wallets.data
    ledger      \* reward_ledger

walletVars == <<wallet, ledger>>

NoReward == 0   \* price of a personal reward that does not exist

NewWallet ==
    [coins |-> StartCoins, owned |-> {}, theme |-> Default, sound |-> Default,
     personal |-> [r \in RewardIds |-> NoReward], imported |-> FALSE]

WalletType ==
    [coins : Nat, owned : SUBSET Items,
     theme : Themes \cup {Default}, sound : Sounds \cup {Default},
     personal : [RewardIds -> RewardPrices \cup {NoReward}],
     imported : BOOLEAN]

LedgerType == [tasks : SUBSET Tasks, focus : SUBSET Sessions, spent : Nat]

\* Personal rewards the wallet holds.
Saved == {r \in RewardIds : wallet.personal[r] # NoReward}

WalletInit ==
    /\ wallet = NewWallet
    /\ ledger = [tasks |-> {}, focus |-> {}, spent |-> 0]

\* Mutant: the award starts from the wallet of a user who has none yet.
CreditNewWallet(T, F) ==
    /\ wallet' = [NewWallet EXCEPT !.coins =
                    @ + TaskCoins * Cardinality(T \ ledger.tasks)
                      + FocusCoins * Cardinality(F \ ledger.focus)]
    /\ ledger' = [ledger EXCEPT !.tasks = @ \cup T, !.focus = @ \cup F]

\* The wallet row and the ledger after the events of the tasks T and the
\* sessions F have been awarded: an event already in the ledger adds nothing.
Credit(T, F) ==
    /\ wallet' = [wallet EXCEPT !.coins =
                    @ + TaskCoins * Cardinality(T \ ledger.tasks)
                      + FocusCoins * Cardinality(F \ ledger.focus)]
    /\ ledger' = [ledger EXCEPT !.tasks = @ \cup T, !.focus = @ \cup F]

\* Mutant: no ledger row is written for the purchase.
ChargeUnlogged(spend) ==
    /\ spend <= wallet.coins
    /\ UNCHANGED ledger

\* A charge of `spend` coins: refused when the balance is too low.
Charge(spend) ==
    /\ spend <= wallet.coins
    /\ ledger' = [ledger EXCEPT !.spent = @ + spend]

-----------------------------------------------------------------------------
(* The actions of POST /me/shop/actions. *)

Buy(i) ==
    /\ i \notin wallet.owned
    /\ Charge(Price[i])
    /\ wallet' = [wallet EXCEPT !.coins = @ - Price[i], !.owned = @ \cup {i}]

\* A theme or sound the wallet owns, or the default one, becomes active.
EquipTheme(i) ==
    /\ i \in (wallet.owned \cap Themes) \cup {Default}
    /\ wallet' = [wallet EXCEPT !.theme = i]
    /\ UNCHANGED ledger

EquipSound(i) ==
    /\ i \in (wallet.owned \cap Sounds) \cup {Default}
    /\ wallet' = [wallet EXCEPT !.sound = i]
    /\ UNCHANGED ledger

CreatePersonal(r, p) ==
    /\ r \notin Saved
    /\ p >= MinPrice
    /\ Cardinality(Saved) < MaxRewards
    /\ wallet' = [wallet EXCEPT !.personal[r] = p]
    /\ UNCHANGED ledger

DeletePersonal(r) ==
    /\ r \in Saved
    /\ wallet' = [wallet EXCEPT !.personal[r] = NoReward]
    /\ UNCHANGED ledger

\* The price charged is the saved one, never one sent by the client.
RedeemPersonal(r) ==
    /\ r \in Saved
    /\ Charge(wallet.personal[r])
    /\ wallet' = [wallet EXCEPT !.coins = @ - wallet.personal[r]]

\* The wallet with a browser's data in it: personal rewards R, all at price p,
\* and the theme and sound taken from there.
Imported(R, p, th, so) ==
    [wallet EXCEPT
       !.imported = TRUE,
       !.owned = @ \cup ({th, so} \ {Default}),
       !.theme = IF th = Default THEN @ ELSE th,
       !.sound = IF so = Default THEN @ ELSE so,
       !.personal = [r \in RewardIds |-> IF r \in R THEN p ELSE @[r]]]

\* Mutant: every device may import.
ImportAgain(R, p, th, so) ==
    /\ R # {} \/ {th, so} # {Default}
    /\ Cardinality(Saved \cup R) <= MaxRewards
    /\ R \cap Saved = {}
    /\ wallet' = Imported(R, p, th, so)
    /\ UNCHANGED ledger

\* The one-time import of a browser's data.  R are the rewards accepted (the
\* loop stops at MaxRewards), all at price p, which need not reach MinPrice;
\* Default stands for a legacy theme or sound that is not a catalogue item.  An
\* empty import changes nothing and leaves the import open to another device.
ImportLegacy(R, p, th, so) ==
    /\ ~wallet.imported
    /\ R # {} \/ {th, so} # {Default}
    /\ Cardinality(Saved \cup R) <= MaxRewards
    /\ R \cap Saved = {}
    /\ wallet' = Imported(R, p, th, so)
    /\ UNCHANGED ledger

ShopAction ==
    \/ \E i \in Items : Buy(i)
    \/ \E i \in Themes \cup {Default} : EquipTheme(i)
    \/ \E i \in Sounds \cup {Default} : EquipSound(i)
    \/ \E r \in RewardIds, p \in RewardPrices : CreatePersonal(r, p)
    \/ \E r \in RewardIds : DeletePersonal(r) \/ RedeemPersonal(r)
    \/ \E R \in SUBSET RewardIds, p \in RewardPrices,
          th \in Themes \cup {Default}, so \in Sounds \cup {Default} :
            ImportLegacy(R, p, th, so)

=============================================================================
