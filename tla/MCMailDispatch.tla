--------------------------- MODULE MCMailDispatch ---------------------------
EXTENDS MailOnce, TLC
MCDelays == <<1>>
MCSymmetry == Permutations(Handlers) \cup Permutations(Accounts)
=============================================================================
