----------------------------- MODULE MCEnrichment -----------------------------
EXTENDS Enrichment

S == INSTANCE EnrichmentSources

MCSources == S!SmallSources
MCKnown   == {"private"}
===============================================================================
