----------------------------- MODULE MCSettlement -----------------------------
(* A deployment for TLC: two services, two payees, and the ways services.json *)
(* may be edited under the executor.                                          *)
EXTENDS Settlement

MaxInt64 == 6
MaxU32 == 1

TheAccounts == {"payer", "payee", "moved"}
TheContracts == {"contract", "other"}
TheConfig == [contractId |-> "contract", account |-> "payer", passphrase |-> "testnet"]

TheSearchedSets == {{}, {"payee"}, {"payer", "payee"}}

Record(verdict, amount, service, asset, agent, version) ==
    [id |-> <<"decision", "h", version>>, hash |-> "h", version |-> version, agent |-> agent,
     service |-> service, asset |-> <<"sac", "testnet", asset>>, amount |-> amount, verdict |-> verdict]

\* Fit to be paid, now or once the owner has answered: the largest amount the rail carries,
\* of an agent that is a contract, under the last policy version.  Unfit: the others.
TheDecisions ==
    {Record("Approved", 6, "api", "USDC", "contract", MaxU32),
     Record("Pending", 6, "api", "USDC", "contract", MaxU32),
     NotFound,
     Record("Rejected", 5, "api", "USDC", "payer", 0), Record("Approved", 7, "api", "USDC", "payer", 0),
     Record("Approved", 0, "api", "USDC", "payer", 0),
     Record("Approved", 5, "ads", "USDC", "payer", 0), Record("Approved", 5, "api", "XLM", "payer", 0)}

Entry(service, payee, active) ==
    [id |-> Missing, service_id |-> service, display_name |-> "name", destination |-> payee,
     account |-> "payer", active |-> active]

Published ==
    [schema |-> "aegis.service-registry.v1", registry_version |-> 1, passphrase |-> "testnet",
     contract_id |-> "contract", executor |-> "payer", code |-> "USDC",
     sac |-> <<"sac", "testnet", "USDC">>,
     services |-> <<Entry("api", "payee", TRUE), Entry("ads", "moved", FALSE)>>]

Moved == [Published EXCEPT !.services = <<Entry("api", "moved", TRUE)>>]
RetiredLast ==
    [Published EXCEPT !.services = <<Entry("api", "payee", TRUE), Entry("api", "moved", FALSE)>>]

TheEdits == {Published, Moved, RetiredLast, Missing}

\* As published; the payee moved; retired; retired after the active entry; a payee that is
\* no account; another payer, and the same services in another order; another contract; a SAC of another asset; no file.
TheFiles ==
    {Published, Moved, RetiredLast, Missing,
     [Published EXCEPT !.services = <<Entry("api", "payee", FALSE)>>],
     [Published EXCEPT !.services = <<Entry("api", "contract", TRUE)>>],
     [Published EXCEPT !.executor = "moved",
                       !.services = <<Entry("ads", "moved", FALSE), Entry("api", "payee", TRUE)>>],
     [Published EXCEPT !.contract_id = "other"],
     [Published EXCEPT !.sac = <<"sac", "testnet", "XLM">>]}
=============================================================================
