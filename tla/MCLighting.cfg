CONSTANTS
    tunable = tunable
    dimmable = dimmable
    Lights = {tunable, dimmable}
    Brightness <- MCBrightness
    ColourTemp <- MCColourTemp
    NoOrder = noorder
    Targets <- MCTargets
    BriTol = 1
    CtTol = 1
    MinApply = 1
    PerLight = 2
    Effects <- MCEffects
    Lists <- MCLists
    Rooms <- MCRooms
    NoSnapshot = nosnapshot
SPECIFICATION FairSpec
PROPERTIES
    Converges
    Settles
    RestoresWhatWasThere
