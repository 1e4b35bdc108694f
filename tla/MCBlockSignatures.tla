-------------------------- MODULE MCBlockSignatures --------------------------
(***************************************************************************)
(* Two attestors and two overlapping blocks.  The clients send a custom    *)
(* transaction in the form they signed, with its fields in another order,  *)
(* and with a field the validators do not know, added after or before it   *)
(* was signed; and an INIT_DID transaction.                                *)
(***************************************************************************)
EXTENDS BlockSignatures

CONSTANTS alice, master, wallet, data, salt, token, key, p, a1, a2

MCAttestors == <<a1, a2>>

Unsigned(sender, category, content) ==
  [ type |-> 0, category |-> category, sender |-> sender, recipients |-> <<alice, wallet>>,
    data |-> content, salt |-> salt, apitoken |-> token, signature |-> Null, fee |-> Empty ]

Signed(bytes, signer) == Append(bytes, <<8, Sign(signer, bytes)>>)

Custom == SerializeTransaction(Unsigned(alice, "CUSTOM:CORE", data))
Unsupported == SerializeTransaction(Unsigned(alice, "EMAIL", data))
Unknown == <<15, data>>

InitDid(wallets) ==
  SerializeTransaction(Unsigned(master, "INIT_DID",
    << <<1, master>>, <<3, key>> >> \o wallets))
WalletEntry ==
  <<4, << <<1, wallet>>,
          <<2, << <<2, Sign(wallet, ConnectAccountString(master))>> >> >> >> >>

MCRequests ==
  { Signed(Custom, alice),
    Reverse(Signed(Custom, alice)),
    Signed(Custom, alice) \o <<Unknown>>,
    Signed(Custom \o <<Unknown>>, alice),
    Signed(InitDid(<<WalletEntry>>), master) }

\* Two more, which lack what checkTxPayload looks for.
MCAnyRequests ==
  MCRequests \cup { Signed(Unsupported, alice), Signed(InitDid(<<>>), master) }
=============================================================================
