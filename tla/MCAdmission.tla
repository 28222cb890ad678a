---------------------------- MODULE MCAdmission ----------------------------
(***************************************************************************)
(* Three requests: one shows a key that may or may not have been issued by *)
(* then, one of the same address and one of another show none.  The        *)
(* address of the first asks for the key, and for another in vain.         *)
(***************************************************************************)
EXTENDS Admission

CONSTANTS key, ip, ip2, r1, r2, r3

MCRequests == {r1, r2, r3}

MCHeaderOf == [r \in MCRequests |-> IF r = r1 THEN key ELSE NoKey]

MCIpOf == [r \in MCRequests |-> IF r = r2 THEN ip2 ELSE ip]

MCAllowance == [p \in {key, ip, ip2} |-> IF p = ip THEN 2 ELSE 1]

MCKeyAllowance == [i \in {ip} |-> 1]
=============================================================================
