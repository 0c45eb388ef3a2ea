------------------------------ MODULE EscrowAssets -------------------------------
(***************************************************************************)
(* Which asset an escrow contract is built for.  Three places decide: the  *)
(* escrow service validates the assetCode of the request, maps it to a     *)
(* trustline, and the Trustless Work client looks at the trustline again.  *)
(* They do not agree about a code that was left out, which the validation  *)
(* takes for USDC and the mapping for XLM; nor about letter case.          *)
(***************************************************************************)

\* assetCode as a request may have it.
Omitted == "omitted"
AssetCode == {Omitted, "USDC", "usdc", "XLM", "xlm", "native", "EURC"}

ToUpperCase == [usdc |-> "USDC", USDC |-> "USDC", XLM |-> "XLM", xlm |-> "XLM",
                native |-> "NATIVE", EURC |-> "EURC"]

ValidateAssetCode(a) == (IF a = Omitted THEN "USDC" ELSE ToUpperCase[a]) = "USDC"

\* Addresses of the configuration: the contract of XLM and the issuer of USDC.
UsdcIssuer == "usdc issuer"
XlmAddress == "xlm contract"

ResolveTrustline(a) ==
    IF a \in {Omitted, "XLM", "native"}
    THEN [address |-> XlmAddress, symbol |-> "XLM"]
    ELSE [address |-> UsdcIssuer, symbol |-> a]

\* An initializeEscrow that relies on what the escrow service has validated.
ClientAcceptsAny(trustline) == TRUE

\* The check of TrustlessWorkService.initializeEscrow.
ClientAccepts(trustline) == ToUpperCase[trustline.symbol] = "USDC"

\* A request with this code gets a deploy transaction.
Deployable(a) == ValidateAssetCode(a) /\ ClientAccepts(ResolveTrustline(a))

=================================================================================
