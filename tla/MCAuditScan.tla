----------------------------- MODULE MCAuditScan -----------------------------
(* Small journals, and small texts with everything that is special in one. *)
EXTENDS JournalReader

CONSTANTS o1, o2, o3, c1, c2

Symmetric == Permutations(Ops) \cup Permutations(ScannedContexts)

MCLetters == {"0", "1", "2"}

MCDigits == <<"0", "1", "2">>

MCAscii == {<<Quote>>, <<Slash>>, <<"taille">>, <<"modele">>, <<",">>, <<":">>, <<"}">>, <<"control">>}

MCNonAscii == {<<"C2", "A0">>, <<"E0", "A0", "80">>, <<"ED", "90", "80">>, <<"ED", "A0", "80">>,
               <<"F0", "90", "80", "80">>, <<"F4", "80", "80", "80">>, <<"C0">>, <<"E1", "80">>}

MCCharacters == MCAscii \cup MCNonAscii

MCEditBytes == {b[1] : b \in MCAscii} \cup {"0", "1", "2", "true", "newline", "A0", "C2", "_apres"}
=============================================================================
