---------------------------- MODULE MCMailVolumes ----------------------------
EXTENDS MailVolumes, TLC
CONSTANTS v1, v2, a1, d1, d2

MCNames == {v1, v2}
MCApiRows == {[owner |-> a1, mount |-> d1], [owner |-> Global, mount |-> d1]}

Good == [fields |-> {"backend", "config"}, json |-> TRUE, owner |-> Global, mount |-> d2]
Owned == [Good EXCEPT !.fields = @ \cup {"account_id"}, !.owner = a1]
Junk == [Good EXCEPT !.json = FALSE]
Unknown == [Good EXCEPT !.fields = {"other"}]

MCFiles == {[n \in MCNames |-> IF n = v1 THEN one ELSE two] :
              one \in {None, Good, Owned}, two \in {None, Owned, Junk, Unknown}}
=============================================================================
