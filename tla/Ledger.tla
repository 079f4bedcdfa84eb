------------------------------- MODULE Ledger -------------------------------
(***************************************************************************)
(* What executing one transaction does to the state a node derives from    *)
(* its chain: core/account_state.go and handleTransaction, with its two    *)
(* helpers, of core/blockchain.go.  The module has no variables; a ledger  *)
(* is a record                                                             *)
(*                                                                         *)
(*   accounts     balances of the accounts that exist (AccountState)       *)
(*   collections  hashes of the NFT collections     (bc.collectionState)   *)
(*   mints        hashes of the minted NFTs         (bc.mintState)         *)
(*   contract     transactions whose code stored a value (bc.contractState)*)
(*                                                                         *)
(* and a transaction is a record whose "id" stands for its hash.  Students *)
(* have no component: no execution ever reaches bc.studentState, see       *)
(* "stuck" below.                                                          *)
(***************************************************************************)
EXTENDS Integers

CONSTANTS
  Addr,       \* account addresses
  Coinbase,   \* the address of the empty public key, exempt from the balance check
  Modulus,    \* 2^64: balances are uint64
  Tx,         \* the transactions that circulate
  GenesisTx   \* the transaction of the genesis block

TxRecord ==
  [id : Nat, from : Addr, to : Addr, value : Nat,
   inner : {"none", "student", "collection", "mint", "other"},
   coll : Nat,                             \* the collection a mint names
   code : {"none", "store", "panic"}]      \* what the VM does with Data

(***************************************************************************)
(* Nobody holds the private key of the empty public key, so after genesis  *)
(* no signed transaction spends from the coinbase.                         *)
(***************************************************************************)
ASSUME LedgerAssumption ==
  /\ Coinbase \in Addr
  /\ Modulus \in Nat \ {0}
  /\ Tx \subseteq {t \in TxRecord : t.from # Coinbase /\ t.value < Modulus}
  /\ GenesisTx \in TxRecord /\ GenesisTx.value < Modulus
  /\ \A s, t \in Tx \cup {GenesisTx} : s.id = t.id => s = t

Balance == 0 .. (Modulus - 1)

Accounts == UNION {[A -> Balance] : A \in SUBSET Addr}

LedgerState ==
  [accounts : Accounts,
   collections : SUBSET Nat, mints : SUBSET Nat, contract : SUBSET Nat]

-----------------------------------------------------------------------------
(* AccountState.Transfer *)

\* Faulty variants, see the README: no balance check; sums wider than uint64.
UncheckedTransfer(acc, from, amount) == from \notin DOMAIN acc

WideCredit(acc, to, amount) ==
  [a \in DOMAIN acc \cup {to} |->
     IF a # to THEN acc[a] ELSE IF to \in DOMAIN acc THEN acc[to] + amount ELSE amount]

TransferFails(acc, from, amount) ==
  \/ from \notin DOMAIN acc
  \/ from # Coinbase /\ acc[from] < amount

\* An empty account is not debited; uint64 subtraction wraps.
Debit(acc, from, amount) ==
  IF acc[from] # 0 THEN [acc EXCEPT ![from] = (@ - amount) % Modulus] ELSE acc

\* A receiver without an account gets one.
Credit(acc, to, amount) ==
  [a \in DOMAIN acc \cup {to} |->
     IF a # to THEN acc[a]
     ELSE IF to \in DOMAIN acc THEN (acc[to] + amount) % Modulus
     ELSE amount]

Transfer(acc, from, to, amount) == Credit(Debit(acc, from, amount), to, amount)

-----------------------------------------------------------------------------
(* handleTransaction: the VM, then the student registry, then NFTs, then   *)
(* the native transfer, each stopping at the first error and none undoing  *)
(* what an earlier one has done.                                           *)

RunVM(s, tx) ==
  IF tx.code = "store" THEN [s EXCEPT !.contract = @ \cup {tx.id}] ELSE s

NFTFails(s, tx) ==
  \/ tx.inner = "mint" /\ tx.coll \notin s.collections
  \/ tx.inner = "other"

HandleNativeNFT(s, tx) ==
  CASE tx.inner = "collection" -> [s EXCEPT !.collections = @ \cup {tx.id}]
    [] tx.inner = "mint"       -> [s EXCEPT !.mints = @ \cup {tx.id}]
    [] OTHER                   -> s

HandleNativeTransfer(s, tx) ==
  IF tx.value > 0
  THEN [s EXCEPT !.accounts = Transfer(@, tx.from, tx.to, tx.value)]
  ELSE s

(***************************************************************************)
(* How executing tx in state s ends.  "stuck": handleStudentTx locks       *)
(* bc.stateLock, which the caller's caller already holds, and a Go mutex   *)
(* is not reentrant.                                                       *)
(***************************************************************************)
Outcome(s, tx) ==
  IF tx.code = "panic" THEN "panic"
  ELSE IF tx.inner = "student" THEN "stuck"
  ELSE IF \/ NFTFails(s, tx)
          \/ tx.value > 0 /\ TransferFails(s.accounts, tx.from, tx.value)
       THEN "error"
  ELSE "ok"

\* The state it leaves behind, whether it ends with an error or not.
Effect(s, tx) ==
  LET r == RunVM(s, tx)
  IN  IF tx.code = "panic" \/ tx.inner = "student" \/ NFTFails(r, tx) THEN r
      ELSE LET n == HandleNativeNFT(r, tx)
           IN  IF Outcome(s, tx) = "ok" THEN HandleNativeTransfer(n, tx) ELSE n

(***************************************************************************)
(* NewBlockchain creates the coinbase account and executes the genesis     *)
(* transaction.  Other accounts exist only when the embedding program      *)
(* creates and funds them through the exported AccountState.               *)
(***************************************************************************)
GenesisLedger(funded) ==
  Effect([accounts |-> [a \in DOMAIN funded \cup {Coinbase} |->
                          IF a \in DOMAIN funded THEN funded[a] ELSE 0],
          collections |-> {}, mints |-> {}, contract |-> {}],
         GenesisTx)
=============================================================================
