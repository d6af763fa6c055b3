------------------------------- MODULE Sites -------------------------------
(* The targets being scraped and the domain each of them is on.            *)
EXTENDS Integers, FiniteSets, Sequences

CONSTANTS Targets, Domains, DomainOf

ASSUME DomainAssumption == DomainOf \in [Targets -> Domains]
ASSUME FiniteAssumption == IsFiniteSet(Targets) /\ IsFiniteSet(Domains)
=============================================================================
