------------------------------ MODULE MCLiveCheck ------------------------------
(* LiveCheck for TLC: a reference population with one account of 26 users, and *)
(* files of new merchants around it.  Scores and thresholds in units of 0.05.  *)
EXTENDS LiveCheck

Scores == {4, 5, 12, 20}

App(bank, device, address, day) ==
    [keys |-> [bank_account |-> bank, device_fingerprint |-> device, address_hash |-> address],
     day |-> day]

\* Who shares nothing has values of his own.
Users == 1..26

Population == [m \in Users |-> App(0, m, m, 0)]

Files ==
    [linked |-> [m \in {27, 28} |-> App(0, m, m, 10)],
     apart  |-> [m \in {27, 28, 29} |-> App(m, m, IF m = 29 THEN m ELSE 0, 20 * m)],
     clash  |-> [m \in {26, 27} |-> App(0, m, m, 0)]]
===============================================================================
