SPECIFICATION LightSpec
CONSTANTS
    Visits = {v1, v2}
    NativeFails = FALSE
INVARIANT BrightnessIsRestored
