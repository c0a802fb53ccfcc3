--------------------------- MODULE SharedAttributes ---------------------------
(***************************************************************************)
(* What applications may share: the keys that                               *)
(* analysis/application_clustering.py extracts from a form, and how much    *)
(* sharing one of them says.  Severities are in units of 0.0001.            *)
(***************************************************************************)
EXTENDS Integers

AttributeSeverity ==
    [bank_account |-> 8800, device_fingerprint |-> 7200, address_hash |-> 5500,
     owner_pan |-> 8500, ip_address |-> 3800, phone_series |-> 3000, email_domain |-> 2000]

Attribute == DOMAIN AttributeSeverity

\* An application a has an identifying value for some of the attributes.
KeyOf(a) == {<< t, a.keys[t] >> : t \in DOMAIN a.keys}
===============================================================================
