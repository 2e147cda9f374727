------------------------------ MODULE MCWorkbench ------------------------------
(***************************************************************************)
(* The parts of the workbench that share no state, checked side by side: a *)
(* behaviour picks one of them and runs it alone.                          *)
(***************************************************************************)
EXTENDS OpaqueRelations, AuthenticatedProbe, MotorPublication,
        DirectAdultSitdown, PublicDirectGateway, PublicAdult,
        PartnerActions, DialogueReceipts, TLC

CONSTANTS s1, s2, s3, x1, x2, y1, y2, n1, n2, retained, branch

VARIABLE part  \* the part that runs

workbenchVars == <<part, opaqueVars, probeVars, motorVars, sitdownVars, gatewayVars, publicVars,
                   partnerVars, receiptVars>>

MCExtent == {{n1}, {n1, n2}}
MCFit    == {Edit}

\* Edits, bytes, witnesses, shells and talks are the same two values: their parts
\* run alone.
Symmetry == Permutations({s1, s2, s3}) \union Permutations({x1, x2})

WorkbenchInit ==
  /\ part \in {"opaque", "probe", "motor", "sitdown", "gateway", "public",
              "partner", "receipts"}
  /\ OpaqueInit /\ ProbeInit /\ MotorInit /\ SitdownInit /\ GatewayInit /\ PublicInit
  /\ PartnerInit /\ ReceiptInit

OpaqueRuns ==
  /\ part = "opaque" /\ OpaqueNext
  /\ UNCHANGED <<part, probeVars, motorVars, sitdownVars, gatewayVars,
                 publicVars, partnerVars, receiptVars>>

ProbeRuns ==
  /\ part = "probe" /\ ProbeNext
  /\ UNCHANGED <<part, opaqueVars, motorVars, sitdownVars, gatewayVars,
                 publicVars, partnerVars, receiptVars>>

MotorRuns ==
  /\ part = "motor" /\ MotorNext
  /\ UNCHANGED <<part, opaqueVars, probeVars, sitdownVars, gatewayVars,
                 publicVars, partnerVars, receiptVars>>

SitdownRuns ==
  /\ part = "sitdown" /\ SitdownNext
  /\ UNCHANGED <<part, opaqueVars, probeVars, motorVars, gatewayVars,
                 publicVars, partnerVars, receiptVars>>

GatewayRuns ==
  /\ part = "gateway" /\ GatewayNext
  /\ UNCHANGED <<part, opaqueVars, probeVars, motorVars, sitdownVars,
                 publicVars, partnerVars, receiptVars>>

PublicRuns ==
  /\ part = "public" /\ PublicNext
  /\ UNCHANGED <<part, opaqueVars, probeVars, motorVars, sitdownVars,
                 gatewayVars, partnerVars, receiptVars>>

PartnerRuns ==
  /\ part = "partner" /\ PartnerNext
  /\ UNCHANGED <<part, opaqueVars, probeVars, motorVars, sitdownVars,
                 gatewayVars, publicVars, receiptVars>>

ReceiptRuns ==
  /\ part = "receipts" /\ ReceiptNext
  /\ UNCHANGED <<part, opaqueVars, probeVars, motorVars, sitdownVars,
                 gatewayVars, publicVars, partnerVars>>

WorkbenchNext ==
  OpaqueRuns \/ ProbeRuns \/ MotorRuns \/ SitdownRuns \/ GatewayRuns \/ PublicRuns
  \/ PartnerRuns \/ ReceiptRuns

WorkbenchSpec == WorkbenchInit /\ [][WorkbenchNext]_workbenchVars

=============================================================================
