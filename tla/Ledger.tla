------------------------------- MODULE Ledger --------------------------------
(***************************************************************************)
(* What the paper-trading account promises, with no sessions, cycles or    *)
(* failures: positions are opened and settled, each at most once, and the  *)
(* money of a set of settlements is booked at once, into the balance and   *)
(* into the event log alike.                                               *)
(***************************************************************************)
EXTENDS Integers

CONSTANTS
  Ids,             \* the positions that may ever be opened
  InitialBalance   \* accounts.initial_balance

VARIABLES
  balance,  \* accounts.current_balance
  peak,     \* accounts.peak_nav
  booked,   \* the total of realized_pnl over the POSITION_CLOSED events
  open,     \* the positions in state OPEN
  closed    \* the positions in state CLOSED

ledgerVars == <<balance, peak, booked, open, closed>>

LedgerInit ==
  /\ balance = InitialBalance
  /\ peak = InitialBalance
  /\ booked = 0
  /\ open = {}
  /\ closed = {}

\* The positions S are opened.
Enter(S) ==
  /\ S # {} /\ S \cap (open \cup closed) = {}
  /\ open' = open \cup S
  /\ UNCHANGED <<balance, peak, booked, closed>>

\* The positions S are settled: what the balance gains the events gain.  The
\* high-water mark may have passed above the final balance on the way.
Settle(S) ==
  /\ S # {} /\ S \subseteq open
  /\ open' = open \ S
  /\ closed' = closed \cup S
  /\ balance' \in Int
  /\ booked' = booked + (balance' - balance)
  /\ peak' \in Int /\ peak' >= peak /\ peak' >= balance'

LedgerNext ==
  \E S \in SUBSET Ids : Enter(S) \/ Settle(S)

LedgerSpec == LedgerInit /\ [][LedgerNext]_ledgerVars

=============================================================================
