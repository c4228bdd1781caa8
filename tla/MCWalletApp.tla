---- MODULE MCWalletApp ----
EXTENDS WalletApp
CONSTANTS k1, k2, a1, a2

\* One label in the domain of the application, and in one that nobody serves.
Text(parts, tld, domain) ==
  [parts |-> parts, wellFormed |-> TRUE, label |-> "alice", startingWith |-> {"mylogin.eth"},
   wholeSld |-> parts = 3, tld |-> tld, domain |-> domain]
NamesOf == {<<"alice", "mylogin.eth">>}
TextsOf == {Text(1, "none", "none"), Text(3, "whole", "mylogin.xyz")}
====
