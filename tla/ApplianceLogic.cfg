SPECIFICATION ApplianceSpec
CONSTANTS
    NoPower = NoPower
    Appliances <- MCAppliances
INVARIANTS SoundReachesSilver StreamTellsFaults EcoNeverCosts
